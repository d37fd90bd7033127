-------------------------- MODULE RawArchiveProofs --------------------------
(***************************************************************************)
(* What the raw archive guarantees for any events, files, queue capacity   *)
(* and faults: an acknowledged event stays, a line is lost only by the     *)
(* owner's word or a crash, purged content is gone and stays gone, what a  *)
(* crashed purge left to be published stays untouched, and no medium a     *)
(* kept line needs is deleted.                                             *)
(***************************************************************************)
EXTENDS RawArchiveAppend

-----------------------------------------------------------------------------
(* The purge.                                                              *)

\* Steps of the purge that leave the files, the AUDIT lines and the media alone.
LEMMA QuietPurge ==
    ASSUME ArchiveInv, Types', JournalInv', PurgeInv',
           UNCHANGED <<file, audit, media, spool, memory, writer, acked>>,
           PurgeGoesOn
    PROVE  ArchiveInv' /\ StepSafe
<1> USE DEF ArchiveInv
<1>1. StepSafe
  BY StoresKept, Zenon
<1>2. UnlinkInv'
  BY <1>1, UnlinkKept, Zenon DEF StepSafe
<1>3. AckedIsDurable'
  BY <1>1, AckKept, Zenon
<1>4. MediaInv'
  <2>1. {} \in SUBSET {Line(writer.ev, writer.ref)}
    OBVIOUS
  <2>2. CallGoesOn
    BY DEF CallGoesOn
  <2> QED BY <2>1, <2>2, LinesUnchanged, MediaKept, Zenon
<1> QED BY <1>1, <1>2, <1>3, <1>4, Zenon

LEMMA PurgerUpdate ==
    ASSUME Types,
           NEW at \in {"idle", "wait", "audit", "stage", "publish", "media"},
           purger' = [purger EXCEPT !.at = at]
    PROVE  /\ purger' \in Purgers /\ purger'.at = at
           /\ purger'.target = purger.target /\ purger'.plan = purger.plan
           /\ purger'.guard => purger.guard
           /\ purger.guard => purger'.guard
<1>1. purger \in Purgers
  BY DEF Types
<1>2. /\ purger' \in Purgers /\ purger'.at = at
      /\ purger'.target = purger.target /\ purger'.plan = purger.plan
  BY <1>1, Zenon DEF Purgers
<1>3. purger'.guard = purger.guard
  BY <1>1, Zenon DEF Purgers
<1> QED BY <1>2, <1>3, Zenon

\* A purge that begins or is over.
LEMMA NoPurgeFacts ==
    ASSUME NEW T \in SUBSET Events, NEW at \in {"idle", "wait"},
           purger' = [at |-> at, target |-> T, guard |-> FALSE, plan |-> {}]
    PROVE  /\ purger' \in Purgers
           /\ PurgeGoesOn /\ PurgeInv' /\ ~Audited'
<1>1. purger'.at = at /\ purger'.target = T /\ purger'.plan = {}
  OBVIOUS
<1>2. purger'.guard = FALSE
  BY Zenon
<1>3. {} \in SUBSET Blobs /\ FALSE \in BOOLEAN
  BY Zenon
<1>4. purger' \in Purgers
  BY <1>3, Zenon DEF Purgers
<1>5. ~Audited'
  BY <1>1, Zenon DEF Audited
<1>6. PurgeInv'
  BY <1>1, <1>5, Zenon DEF PurgeInv
<1> QED BY <1>2, <1>4, <1>5, <1>6, Zenon DEF PurgeGoesOn

LEMMA PurgeCallStep ==
    ASSUME ArchiveInv, NEW T \in Targets, PurgeCall(T)
    PROVE  ArchiveInv' /\ StepSafe
<1> USE DEF ArchiveInv
<1>1. /\ UNCHANGED <<file, readonly, manifest, audit, journal, media, spool, memory,
                     status, writer, sealer, observed, acked>>
      /\ budget' = Spent("purges")
  BY Zenon DEF PurgeCall, OthersUnchanged, world
<1>2. T \in SUBSET Events
  BY Zenon DEF Targets, WithDerived, ArchiveInv, Types
<1>3. purger' = [at |-> "wait", target |-> T, guard |-> FALSE, plan |-> {}]
  <2>1. purger' = [NoPurge EXCEPT !.at = "wait", !.target = T]
    BY DEF PurgeCall
  <2> QED BY <2>1, Zenon DEF NoPurge
<1>4. purger' \in Purgers /\ PurgeGoesOn /\ PurgeInv'
  BY <1>2, <1>3, NoPurgeFacts, Zenon
<1>5. Types'
  BY <1>1, <1>4, SpentFacts, Zenon DEF Types
<1>6. JournalInv'
  BY <1>1, JournalKept, Zenon
<1> QED BY <1>1, <1>4, <1>5, <1>6, QuietPurge, Zenon

LEMMA NoPurgeRecord ==
    ASSUME purger' = NoPurge
    PROVE  purger' \in Purgers /\ PurgeGoesOn /\ PurgeInv' /\ ~Audited'
<1>1. purger' = [at |-> "idle", target |-> {}, guard |-> FALSE, plan |-> {}]
  BY DEF NoPurge
<1>2. {} \in SUBSET Events
  BY Zenon
<1> QED BY <1>1, <1>2, NoPurgeFacts, Zenon

LEMMA PurgeRefusedStep ==
    ASSUME ArchiveInv, PurgeRefused
    PROVE  ArchiveInv' /\ StepSafe
<1> USE DEF ArchiveInv
<1>1. /\ UNCHANGED <<file, readonly, manifest, audit, journal, media, spool, memory,
                     status, writer, sealer, observed, acked, budget>>
      /\ purger' = NoPurge
  BY Zenon DEF PurgeRefused, OthersUnchanged, world
<1>2. purger' \in Purgers /\ PurgeGoesOn /\ PurgeInv'
  BY <1>1, NoPurgeRecord, Zenon
<1>3. Types'
  BY <1>1, <1>2, Zenon DEF Types
<1>4. JournalInv'
  BY <1>1, JournalKept, Zenon
<1> QED BY <1>1, <1>2, <1>3, <1>4, QuietPurge, Zenon

LEMMA PurgeCrashStep ==
    ASSUME ArchiveInv, PurgeCrash
    PROVE  ArchiveInv' /\ StepSafe
<1> USE DEF ArchiveInv
<1>1. /\ UNCHANGED <<file, readonly, manifest, audit, journal, media, spool, memory,
                     status, writer, sealer, observed, acked>>
      /\ budget' = Spent("crashes") /\ purger' = NoPurge
  BY Zenon DEF PurgeCrash, OthersUnchanged, world
<1>2. purger' \in Purgers /\ PurgeGoesOn /\ PurgeInv'
  BY <1>1, NoPurgeRecord, Zenon
<1>3. Types'
  BY <1>1, <1>2, SpentFacts, Zenon DEF Types
<1>4. JournalInv'
  BY <1>1, JournalKept, Zenon
<1> QED BY <1>1, <1>2, <1>3, <1>4, QuietPurge, Zenon

\* Publishing S leaves no line behind and adds none.
LEMMA PublishedFacts ==
    ASSUME Types, JournalInv, NEW S \in SUBSET DOMAIN journal,
           file' = PublishedFile(S), audit' = audit
    PROVE  /\ FilesSafe
           /\ file' \in [Files -> Seq(Entries)]
           /\ \A f \in Files : Range(file'[f]) \subseteq Range(file[f]) \cup {Tombstone, Torn}
<1>1. /\ file' \in [Files -> Seq(Entries)]
      /\ \A f \in Files : Kindly(file[f], file'[f], {})
  BY PublishIsKind, Zenon
<1> QED BY <1>1, Zenon DEF FilesSafe, Kindly

LEMMA LinesRewritten ==
    ASSUME spool' = spool, memory' = memory,
           \A f \in Files : Range(file'[f]) \subseteq Range(file[f]) \cup {Tombstone, Torn}
    PROVE  AllLines' \subseteq AllLines \cup {Tombstone, Torn}
BY DEF AllLines

LEMMA PurgeLockStep ==
    ASSUME ArchiveInv, PurgeLock
    PROVE  ArchiveInv' /\ StepSafe
<1> USE DEF ArchiveInv
<1>1. /\ file' = PublishedFile(DOMAIN journal)
      /\ manifest' = PublishedManifest(DOMAIN journal)
      /\ readonly' = PublishedMode(DOMAIN journal)
      /\ journal' = <<>>
      /\ \E S : purger' = [purger EXCEPT !.at = "audit", !.guard = ~WriterHoldsGuard,
                                        !.target = WithDerived(@, S)]
      /\ UNCHANGED <<audit, media, budget, spool, memory, status, writer, sealer,
                     observed, acked>>
  BY Zenon DEF PurgeLock, OthersUnchanged, world, NoOperation
<1>2. DOMAIN journal \in SUBSET DOMAIN journal
  OBVIOUS
<1>3. /\ FilesSafe
      /\ file' \in [Files -> Seq(Entries)]
      /\ \A f \in Files : Range(file'[f]) \subseteq Range(file[f]) \cup {Tombstone, Torn}
  BY <1>1, <1>2, PublishedFacts, Zenon
<1>4. manifest' \in [Files -> Seq(Entries)] /\ readonly' \subseteq MonthFiles
  BY <1>1, <1>2, PublishIsKind, Zenon
<1>5. purger' \in Purgers /\ purger'.at = "audit"
  <2>1. purger \in Purgers /\ (~WriterHoldsGuard) \in BOOLEAN
    BY Zenon DEF Types
  <2>2. PICK S : purger' = [purger EXCEPT !.at = "audit", !.guard = ~WriterHoldsGuard,
                                          !.target = WithDerived(@, S)]
    BY <1>1, Zenon
  <2>3. WithDerived(purger.target, S) \in SUBSET Events
    BY <2>1, Zenon DEF WithDerived, Purgers
  <2> QED BY <2>1, <2>2, <2>3, Zenon DEF Purgers
<1>6. purger'.guard = ~WriterHoldsGuard
  BY <1>1, Zenon DEF Types, Purgers
<1>7. Types'
  BY <1>1, <1>3, <1>4, <1>5, Zenon DEF Types
<1>8. JournalInv'
  <2>1. DOMAIN journal' = {}
    BY <1>1
  <2> QED BY <2>1, Zenon DEF JournalInv, Recoverable
<1>9. PurgeInv'
  BY <1>5, Zenon DEF PurgeInv, Audited
<1>10. StepSafe
  BY <1>1, <1>3, StayedInSpool, StayedInMemory, Zenon DEF StepSafe
<1>11. UnlinkInv'
  BY <1>1, <1>3, UnlinkKept, Zenon
<1>12. AckedIsDurable'
  BY <1>1, <1>10, AckKept, Zenon
<1>13. MediaInv'
  <2>1. ~Tombstone.ref /\ ~Torn.ref
    BY EntryFacts, Zenon
  <2>2. AllLines' \subseteq AllLines \cup {Tombstone, Torn}
    BY <1>1, <1>3, LinesRewritten, Zenon
  <2>3. \A l \in AllLines' : Needs(l)' => Blob[l.ev] \in media'
    BY <1>1, <2>1, <2>2, Zenon DEF MediaInv, Needs
  <2>4. purger'.guard => /\ writer.ev # None => Blob[writer.ev] = NoBlob
                         /\ \A l \in Range(memory) : Blob[l.ev] = NoBlob
    BY <1>6, Zenon DEF WriterHoldsGuard, Range
  <2>5. ~Audited'
    BY <1>5, Zenon DEF Audited
  <2> QED BY <1>1, <2>3, <2>4, <2>5, Zenon DEF MediaInv
<1> QED BY <1>7, <1>8, <1>9, <1>10, <1>11, <1>12, <1>13, Zenon

\* _unreferenced_media_locked selects no medium that a line to be kept needs.
LEMMA PlanIsSafe ==
    ASSUME ArchiveInv, NEW l \in AllLines, l.ref, l.ev \notin audit \cup purger.target
    PROVE  Blob[l.ev] \notin UnreferencedMedia
<1> USE DEF ArchiveInv
<1> SUFFICES ASSUME purger.guard,
                    UnreferencedMedia =
                        (UNION {References(Selected(f)) : f \in Files})
                            \ (References(Range(spool))
                                  \cup UNION {References(Kept(f)) : f \in Files})
             PROVE  Blob[l.ev] \notin UnreferencedMedia
  BY Zenon DEF UnreferencedMedia
<1>1. CASE l \in Range(memory)
  BY <1>1, Zenon DEF MediaInv
<1>2. CASE l \in Range(spool)
  <2>1. l.kind = "line"
    BY <1>2, LinesTyped, EntryFacts, Zenon DEF Types
  <2>2. Blob[l.ev] \in References(Range(spool))
    BY <1>2, <2>1, Zenon DEF References
  <2> QED BY <2>2, Zenon
<1>3. ASSUME NEW f \in Files, l \in Range(file[f])
      PROVE  Blob[l.ev] \notin UnreferencedMedia
  <2>1. l \in Entries
    BY <1>3, LinesTyped, Zenon DEF Types
  <2>2. l \in Lines
    BY <2>1, EntryFacts, Zenon DEF Entries
  <2>3. l.kind = "line"
    BY <2>2, EntryFacts, Zenon
  <2>4. l \in Kept(f)
    BY <1>3, Zenon DEF Kept
  <2>5. Blob[l.ev] \in References(Kept(f))
    BY <2>3, <2>4, Zenon DEF References
  <2> QED BY <2>5, Zenon
<1> QED BY <1>1, <1>2, <1>3, Zenon DEF AllLines

LEMMA PlanTyped ==
    ASSUME Types
    PROVE  UnreferencedMedia \subseteq Blobs
<1>1. ASSUME NEW f \in Files
      PROVE  References(Selected(f)) \subseteq Blobs
  <2>1. \A l \in Selected(f) : l.ev \in Events
    BY Zenon DEF Selected, Types, Purgers
  <2> QED BY <2>1, Zenon DEF References, Blobs
<1> QED BY <1>1, Zenon DEF UnreferencedMedia

LEMMA PurgeAuditStep ==
    ASSUME ArchiveInv, PurgeAudit
    PROVE  ArchiveInv' /\ StepSafe
<1> USE DEF ArchiveInv
<1>1. /\ audit' = audit \cup purger.target
      /\ purger' = [purger EXCEPT !.at = "stage", !.plan = UnreferencedMedia]
      /\ UNCHANGED <<file, readonly, manifest, journal, media, budget, spool, memory,
                     status, writer, sealer, observed, acked>>
  BY Zenon DEF PurgeAudit, OthersUnchanged, world
<1>2. purger \in Purgers /\ UnreferencedMedia \in SUBSET Blobs
  BY PlanTyped, Zenon DEF Types
<1>3. /\ purger' \in Purgers /\ purger'.at = "stage"
      /\ purger'.target = purger.target /\ purger'.plan = UnreferencedMedia
  BY <1>1, <1>2, Zenon DEF Purgers
<1>4. purger'.guard = purger.guard
  BY <1>1, <1>2, Zenon DEF Purgers
<1>5. purger.target \subseteq Events
  BY <1>2, Zenon DEF Purgers
<1>6. Types'
  BY <1>1, <1>3, <1>5, Zenon DEF Types
<1>7. JournalInv'
  BY <1>1, JournalKept, Zenon
<1>8. PurgeInv'
  BY <1>1, <1>3, Zenon DEF PurgeInv
<1>9. StepSafe
  BY <1>1, StayedInSpool, StayedInMemory, Zenon DEF StepSafe, FilesSafe
<1>10. UnlinkInv'
  BY <1>1, <1>9, UnlinkKept, Zenon DEF StepSafe
<1>11. AckedIsDurable'
  BY <1>1, <1>9, AckKept, Zenon
<1>12. MediaInv'
  <2>1. AllLines' = AllLines
    BY <1>1, Zenon DEF AllLines
  <2>2. \A l \in AllLines' : Needs(l)' => Blob[l.ev] \in media'
    BY <1>1, <2>1, Zenon DEF MediaInv, Needs
  <2>3. ~purger'.guard => purger'.plan = {}
    BY <1>3, <1>4, Zenon DEF UnreferencedMedia
  <2>4. \A l \in AllLines' : Needs(l)' => Blob[l.ev] \notin purger'.plan
    BY <1>1, <1>3, <2>1, PlanIsSafe, Zenon DEF Needs
  <2>5. purger'.guard => purger.guard
    BY <1>4, Zenon
  <2> QED BY <1>1, <2>2, <2>3, <2>4, <2>5, Zenon DEF MediaInv
<1> QED BY <1>6, <1>7, <1>8, <1>9, <1>10, <1>11, <1>12, Zenon

\* _stage_rewrite.
LEMMA ErasedFacts ==
    ASSUME Types, purger.target \subseteq audit, NEW s \in Seq(Entries)
    PROVE  /\ Rewritten(s, Erased(s))
           /\ \A e \in purger.target : e \notin EventsOf(Erased(s))
<1> DEFINE n == Len(s)
           t == Erased(s)
<1>1. /\ n \in Nat /\ DOMAIN s = 1 .. n
      /\ \A i \in 1 .. n : s[i] \in Entries
  BY LinesTyped
<1>2. /\ t = [i \in 1 .. n |-> IF s[i].ev \in purger.target THEN Tombstone ELSE s[i]]
  BY <1>1, Zenon DEF Erased
<1>3. Tombstone \in Entries /\ Tombstone.ev = None /\ None \notin purger.target
  BY EntryFacts, ArchiveAssumption, Zenon DEF Types
<1> HIDE DEF t, n
<1>4. /\ t \in [1 .. n -> Entries] /\ DOMAIN t = 1 .. n
      /\ \A i \in 1 .. n : t[i] = IF s[i].ev \in purger.target THEN Tombstone ELSE s[i]
  BY <1>1, <1>2, <1>3, Zenon
<1>5. t \in Seq(Entries) /\ Len(t) = n
  BY <1>1, <1>4
<1>6. Rewritten(s, t)
  BY <1>4, <1>5, Zenon DEF Rewritten, n
<1>7. \A e \in purger.target : e \notin EventsOf(t)
  BY <1>3, <1>4, Zenon DEF EventsOf
<1> QED BY <1>6, <1>7, Zenon DEF t

\* A file without a selected line.
LEMMA MissFacts ==
    ASSUME ArchiveInv, NEW e \in purger.target, File[e] \notin Hits
    PROVE  e \notin EventsOf(file[File[e]])
<1>1. File[e] \in Files
  BY ArchiveAssumption, Zenon DEF ArchiveInv, Types, Purgers
<1>2. Selected(File[e]) = {}
  BY <1>1, Zenon DEF Hits
<1> QED BY <1>2, EventHasLine DEF Selected

LEMMA PurgeStageStep ==
    ASSUME ArchiveInv, PurgeStage
    PROVE  ArchiveInv' /\ StepSafe
<1> USE DEF ArchiveInv
<1>1. /\ purger.at = "stage"
      /\ UNCHANGED <<file, readonly, manifest, audit, media, budget, spool, memory,
                     status, writer, sealer, observed, acked>>
  BY Zenon DEF PurgeStage, OthersUnchanged, world
<1>2. CASE purger' = NoPurge /\ journal' = journal
  <2>1. purger' \in Purgers /\ PurgeGoesOn /\ PurgeInv'
    BY <1>2, NoPurgeRecord, Zenon
  <2>2. Types'
    BY <1>1, <2>1, Zenon DEF Types
  <2>3. JournalInv'
    BY <1>1, <1>2, JournalKept, Zenon
  <2> QED BY <1>1, <2>1, <2>2, <2>3, QuietPurge, Zenon
<1>3. CASE /\ \A f \in Hits : manifest[f] \in {<<>>, file[f]}
           /\ purger' = [purger EXCEPT !.at = IF Hits = {} THEN "media" ELSE "publish"]
           /\ journal' = [f \in Hits |-> [before |-> file[f], after |-> Erased(file[f]),
                                          sealed |-> manifest[f] # <<>>,
                                          readonly |-> f \in readonly]]
  <2> DEFINE at == IF Hits = {} THEN "media" ELSE "publish"
  <2>1. at \in {"idle", "wait", "audit", "stage", "publish", "media"}
    OBVIOUS
  <2>2. /\ purger' \in Purgers /\ purger'.at = at
        /\ purger'.target = purger.target /\ purger'.plan = purger.plan
        /\ purger'.guard => purger.guard
        /\ purger.guard => purger'.guard
    BY <1>3, <2>1, PurgerUpdate, Zenon
  <2>3. PurgeGoesOn
    BY <1>1, <2>2, Zenon DEF PurgeGoesOn, Audited
  <2>4. Types'
    BY <1>1, <2>2, Zenon DEF Types
  <2>5. purger.target \subseteq audit
    BY <1>1, Zenon DEF PurgeInv, Audited
  <2>6. DOMAIN journal' = Hits /\ Hits \subseteq Files
    BY <1>3, Zenon DEF Hits
  <2>7. ASSUME NEW f \in Hits
        PROVE  /\ journal'[f].before = file[f]
               /\ journal'[f].after = Erased(file[f])
               /\ journal'[f].sealed => manifest[f] = file[f]
               /\ journal'[f].readonly => f \in readonly
    <3>1. PICK r : r = [before |-> file[f], after |-> Erased(file[f]),
                        sealed |-> manifest[f] # <<>>, readonly |-> f \in readonly]
      BY Zenon
    <3>2. journal'[f] = r
      BY <1>3, <3>1, Zenon
    <3>3. r.before = file[f] /\ r.after = Erased(file[f])
      BY <3>1, Zenon
    <3>4. /\ r.sealed = (manifest[f] # <<>>)
          /\ r.readonly = (f \in readonly)
      BY <3>1, Zenon
    <3>5. manifest[f] # <<>> => manifest[f] = file[f]
      BY <1>3, Zenon
    <3> QED BY <3>2, <3>3, <3>4, <3>5, Zenon
  <2>8. ASSUME NEW f \in Hits
        PROVE  /\ Rewritten(file[f], Erased(file[f]))
               /\ \A e \in purger.target : e \notin EventsOf(Erased(file[f]))
    <3>1. file[f] \in Seq(Entries)
      BY <2>6, Zenon DEF Types
    <3> QED BY <2>5, <3>1, ErasedFacts, Zenon
  <2>9. JournalInv'
    <3>1. \A f \in DOMAIN journal' : Rewritten(journal'[f].before, journal'[f].after)
      BY <2>6, <2>7, <2>8, Zenon
    <3>2. Recoverable'
      BY <1>1, <2>6, <2>7, Zenon DEF Recoverable
    <3>3. \A f \in DOMAIN journal' : journal'[f].readonly => f \in MonthFiles
      BY <2>6, <2>7, ZenonT(30) DEF Types
    <3> QED BY <1>1, <2>6, <3>1, <3>2, <3>3, ZenonT(30) DEF JournalInv, Rewritten
  <2>10. PurgeInv'
    <3>1. \A e \in purger.target : File[e] \notin Hits => e \notin EventsOf(file[File[e]])
      BY MissFacts, Zenon
    <3>2. \A e \in purger.target :
            File[e] \in Hits => e \notin EventsOf(journal'[File[e]].after)
      BY <2>7, <2>8, Zenon
    <3>3. purger'.at = "media" => Hits = {}
      BY <2>2, Zenon
    <3> QED BY <1>1, <2>2, <2>5, <2>6, <3>1, <3>2, <3>3, Zenon DEF PurgeInv
  <2> QED BY <1>1, <2>3, <2>4, <2>9, <2>10, QuietPurge, Zenon
<1> QED BY <1>2, <1>3, ZenonT(30) DEF PurgeStage, SealBroken

LEMMA PurgeReplaceStep ==
    ASSUME ArchiveInv, NEW f \in DOMAIN journal, PurgeReplace(f)
    PROVE  ArchiveInv' /\ StepSafe
<1> USE DEF ArchiveInv
<1>1. /\ file' = PublishedFile({f}) /\ readonly' = PublishedMode({f})
      /\ UNCHANGED <<manifest, audit, journal, media, budget, purger, spool, memory,
                     status, writer, sealer, observed, acked>>
  BY Zenon DEF PurgeReplace, OthersUnchanged, world
<1>2. {f} \in SUBSET DOMAIN journal /\ f \in Files
  BY Zenon DEF JournalInv
<1>3. /\ FilesSafe
      /\ file' \in [Files -> Seq(Entries)]
      /\ \A g \in Files : Range(file'[g]) \subseteq Range(file[g]) \cup {Tombstone, Torn}
  BY <1>1, <1>2, PublishedFacts, Zenon
<1>4. readonly' \subseteq MonthFiles
  BY <1>1, <1>2, PublishIsKind, Zenon
<1>5. file'[f] = journal[f].after /\ \A g \in Files \ {f} : file'[g] = file[g]
  BY <1>1, <1>2, Zenon DEF PublishedFile
<1>6. Types'
  BY <1>1, <1>3, <1>4, Zenon DEF Types
<1>7. JournalInv'
  <2>1. Recoverable'
    BY <1>1, <1>5, ZenonT(30) DEF JournalInv, Recoverable
  <2> QED BY <1>1, <2>1, Zenon DEF JournalInv, Rewritten
<1>8. PurgeInv'
  <2>1. purger.at = "publish"
    BY Zenon DEF PurgeReplace
  <2>2. \A e \in purger.target :
          File[e] \notin DOMAIN journal => File[e] \in Files \ {f}
    BY ArchiveAssumption, ZenonT(30) DEF Types, Purgers
  <2> QED BY <1>1, <1>5, <2>1, <2>2, Zenon DEF PurgeInv, Audited
<1>9. StepSafe
  BY <1>1, <1>3, StayedInSpool, StayedInMemory, Zenon DEF StepSafe
<1>10. UnlinkInv'
  BY <1>1, <1>3, UnlinkKept, ZenonT(30)
<1>11. AckedIsDurable'
  BY <1>1, <1>9, AckKept, Zenon
<1>12. MediaInv'
  <2>1. AllLines' \subseteq AllLines \cup {Tombstone, Torn}
    BY <1>1, <1>3, LinesRewritten, Zenon
  <2>2. /\ AllLines' \subseteq AllLines \cup {} \cup {Tombstone, Torn}
        /\ Range(memory') \subseteq Range(memory) \cup {}
        /\ {} \in SUBSET {Line(writer.ev, writer.ref)}
    BY <1>1, <2>1, Zenon
  <2>3. CallGoesOn /\ PurgeGoesOn
    BY <1>1, PurgerUnchanged, Zenon DEF CallGoesOn
  <2> QED BY <1>1, <2>2, <2>3, MediaKept, Zenon
<1> QED BY <1>6, <1>7, <1>8, <1>9, <1>10, <1>11, <1>12, ZenonT(30)

\* Steps that only write the MANIFEST or change modes.
LEMMA ManifestStep ==
    ASSUME ArchiveInv, manifest' \in [Files -> Seq(Entries)],
           \A f \in DOMAIN journal :
               manifest'[f] \in {manifest[f], journal[f].before, journal[f].after},
           readonly' \subseteq MonthFiles, sealer' \in Sealers, budget' \in BudgetType,
           UNCHANGED <<file, audit, journal, media, spool, memory, status, writer,
                       purger, observed, acked>>
    PROVE  ArchiveInv' /\ StepSafe
<1> USE DEF ArchiveInv
<1>1. Types'
  BY Zenon DEF Types
<1>2. JournalInv'
  BY Zenon DEF JournalInv, Recoverable, Rewritten
<1>3. PurgeInv'
  BY PurgeKept, Zenon
<1>4. PurgeGoesOn
  BY PurgerUnchanged, Zenon
<1> QED BY <1>1, <1>2, <1>3, <1>4, QuietPurge, ZenonT(30)

LEMMA PurgeRecordStep ==
    ASSUME ArchiveInv, NEW f \in DOMAIN journal, PurgeRecord(f)
    PROVE  ArchiveInv' /\ StepSafe
<1>1. /\ manifest' = PublishedManifest({f})
      /\ UNCHANGED <<file, readonly, audit, journal, media, budget, purger, spool, memory,
                     status, writer, sealer, observed, acked>>
  BY Zenon DEF PurgeRecord, OthersUnchanged, world
<1>2. manifest' \in [Files -> Seq(Entries)]
  <2>1. {f} \in SUBSET DOMAIN journal
    BY ZenonT(30)
  <2> QED BY <1>1, <2>1, PublishIsKind, Zenon DEF ArchiveInv
<1>3. \A g \in DOMAIN journal :
         manifest'[g] \in {manifest[g], journal[g].before, journal[g].after}
  BY <1>1, Zenon DEF PublishedManifest, ArchiveInv, JournalInv
<1> QED BY <1>1, <1>2, <1>3, ManifestStep, ZenonT(30) DEF ArchiveInv, Types

LEMMA PurgeCompleteStep ==
    ASSUME ArchiveInv, PurgeComplete
    PROVE  ArchiveInv' /\ StepSafe
<1> USE DEF ArchiveInv
<1>1. /\ purger.at = "publish"
      /\ file = PublishedFile(DOMAIN journal)
      /\ journal' = <<>>
      /\ purger' = [purger EXCEPT !.at = "media"]
      /\ UNCHANGED <<file, readonly, manifest, audit, media, budget, spool, memory,
                     status, writer, sealer, observed, acked>>
  BY Zenon DEF PurgeComplete, Published, OthersUnchanged, world, NoOperation
<1>2. /\ purger' \in Purgers /\ purger'.at = "media"
      /\ purger'.target = purger.target /\ purger'.plan = purger.plan
      /\ purger'.guard => purger.guard
      /\ purger.guard => purger'.guard
  BY <1>1, PurgerUpdate, Zenon
<1>3. PurgeGoesOn
  BY <1>1, <1>2, Zenon DEF PurgeGoesOn, Audited
<1>4. Types'
  BY <1>1, <1>2, Zenon DEF Types
<1>5. JournalInv'
  <2>1. DOMAIN journal' = {}
    BY <1>1
  <2> QED BY <2>1 DEF JournalInv, Recoverable
<1>6. PurgeInv'
  <2>1. \A f \in DOMAIN journal : file[f] = journal[f].after
    BY <1>1, Zenon DEF PublishedFile, JournalInv
  <2>2. \A e \in purger.target : e \notin EventsOf(file[File[e]])
    BY <1>1, <2>1, Zenon DEF PurgeInv
  <2>3. purger.target \subseteq audit
    BY <1>1, Zenon DEF PurgeInv, Audited
  <2> QED BY <1>1, <1>2, <2>2, <2>3, Zenon DEF PurgeInv
<1> QED BY <1>1, <1>3, <1>4, <1>5, <1>6, QuietPurge, Zenon

LEMMA PurgeMediaStep ==
    ASSUME ArchiveInv, PurgeMedia
    PROVE  ArchiveInv' /\ StepSafe
<1> USE DEF ArchiveInv
<1>1. /\ purger.at = "media" /\ media' = media \ purger.plan
      /\ purger' = NoPurge
      /\ UNCHANGED <<file, readonly, manifest, audit, journal, budget, spool, memory,
                     status, writer, sealer, observed, acked>>
  BY DEF PurgeMedia, OthersUnchanged, world
<1>2. purger' \in Purgers /\ PurgeGoesOn /\ PurgeInv' /\ ~Audited'
  BY <1>1, NoPurgeRecord, Zenon
<1>3. Types'
  BY <1>1, <1>2, Zenon DEF Types
<1>4. JournalInv'
  BY <1>1, JournalKept, Zenon
<1>5. StepSafe
  BY <1>1, StoresKept, Zenon
<1>6. UnlinkInv'
  BY <1>1, <1>5, UnlinkKept, Zenon DEF StepSafe
<1>7. AckedIsDurable'
  BY <1>1, <1>5, AckKept, Zenon
<1>8. MediaInv'
  <2>1. AllLines' = AllLines
    BY <1>1, Zenon DEF AllLines
  <2>2. Audited
    BY <1>1, Zenon DEF Audited
  <2>3. \A l \in AllLines' : Needs(l)' => Blob[l.ev] \in media'
    BY <1>1, <2>1, <2>2, ZenonT(30) DEF MediaInv, Needs
  <2>4. writer.ref => Blob[writer.ev] \in media'
    BY <1>1, <2>2, Zenon DEF MediaInv
  <2>5. purger'.guard => purger.guard
    BY <1>2, Zenon DEF PurgeGoesOn
  <2> QED BY <1>1, <1>2, <2>3, <2>4, <2>5, ZenonT(30) DEF MediaInv
<1> QED BY <1>2, <1>3, <1>4, <1>5, <1>6, <1>7, <1>8, ZenonT(30)

-----------------------------------------------------------------------------
(* Sealing.                                                                *)

LEMMA SealCheckStep ==
    ASSUME ArchiveInv, SealCheck
    PROVE  ArchiveInv' /\ StepSafe
<1>1. /\ sealer' = [sealer EXCEPT !.at = "close"] /\ budget' = Spent("seals")
      /\ UNCHANGED <<file, readonly, manifest, audit, journal, media, spool, memory,
                     status, writer, purger, observed, acked>>
  BY Zenon DEF SealCheck, SealUnchanged
<1>2. sealer' \in Sealers /\ budget' \in BudgetType
  BY <1>1, SpentFacts, Zenon DEF ArchiveInv, Types, Sealers
<1> QED BY <1>1, <1>2, ManifestStep, Zenon DEF ArchiveInv, Types

LEMMA SealChmodStep ==
    ASSUME ArchiveInv, NEW f \in MonthFiles, SealChmod(f)
    PROVE  ArchiveInv' /\ StepSafe
<1>1. /\ sealer' = [at |-> "record", f |-> f] /\ readonly' = readonly \cup {f}
      /\ UNCHANGED <<file, manifest, audit, journal, media, spool, memory, budget,
                     status, writer, purger, observed, acked>>
  BY DEF SealChmod, SealUnchanged
<1>2. sealer' \in Sealers
  BY <1>1, ArchiveAssumption, Zenon DEF Sealers
<1> QED BY <1>1, <1>2, ManifestStep, Zenon DEF ArchiveInv, Types

LEMMA SealRecordStep ==
    ASSUME ArchiveInv, SealRecord
    PROVE  ArchiveInv' /\ StepSafe
<1>1. /\ manifest' = [manifest EXCEPT ![sealer.f] = file[sealer.f]]
      /\ sealer' = [at |-> "close", f |-> None]
      /\ UNCHANGED <<file, readonly, audit, journal, media, spool, memory, budget,
                     status, writer, purger, observed, acked>>
  BY Zenon DEF SealRecord, SealUnchanged
<1>2. sealer' \in Sealers
  BY <1>1, Zenon DEF Sealers
<1>3. manifest' \in [Files -> Seq(Entries)]
  BY <1>1, ZenonT(30) DEF ArchiveInv, Types
<1>4. \A f \in DOMAIN journal :
         manifest'[f] \in {manifest[f], journal[f].before, journal[f].after}
  <2> TAKE f \in DOMAIN journal
  <2>1. f \in Files /\ file[f] \in {journal[f].before, journal[f].after}
    BY Zenon DEF ArchiveInv, JournalInv, Recoverable
  <2>2. manifest'[f] \in {manifest[f], file[f]}
    BY <1>1, <2>1, Zenon DEF ArchiveInv, Types
  <2> QED BY <2>1, <2>2, Zenon
<1> QED BY <1>1, <1>2, <1>3, <1>4, ManifestStep, ZenonT(30) DEF ArchiveInv, Types

LEMMA SealEndsStep ==
    ASSUME ArchiveInv, SealEnds \/ SealCrash
    PROVE  ArchiveInv' /\ StepSafe
<1>1. /\ sealer' = NoSeal /\ budget' \in {budget, Spent("crashes")}
      /\ UNCHANGED <<file, readonly, manifest, audit, journal, media, spool, memory,
                     status, writer, purger, observed, acked>>
  BY DEF SealEnds, SealCrash, SealUnchanged
<1>2. sealer' \in Sealers
  BY <1>1, Zenon DEF Sealers, NoSeal
<1>3. budget' \in BudgetType
  BY <1>1, SpentFacts, Zenon DEF ArchiveInv, Types
<1> QED BY <1>1, <1>2, <1>3, ManifestStep, ZenonT(30) DEF ArchiveInv, Types

-----------------------------------------------------------------------------
(* The invariant holds, and what follows from it.                          *)

LEMMA ArchiveInit == Init => ArchiveInv
<1> SUFFICES ASSUME Init
             PROVE  ArchiveInv
  BY Zenon
<1>1. /\ spool = <<>> /\ memory = <<>> /\ <<>> \in Seq(Lines) /\ <<>> \in Seq(Entries)
      /\ Len(<<>>) = 0 /\ Range(<<>>) = {}
  BY DEF Init, Range
<1>2. /\ writer.ev = None /\ writer.at = "idle"
      /\ writer \in Writers
  <2>1. FALSE \in BOOLEAN
    BY Zenon
  <2> QED BY <2>1, Zenon DEF Init, NoCall, Writers
<1>3. writer.ref = FALSE
  BY Zenon DEF Init, NoCall
<1>4. purger \in Purgers /\ purger.at = "idle"
  <2>1. FALSE \in BOOLEAN /\ {} \in SUBSET Blobs /\ {} \in SUBSET Events
    OBVIOUS
  <2> QED BY <2>1, Zenon DEF Init, NoPurge, Purgers
<1>5. purger.guard = FALSE
  BY Zenon DEF Init, NoPurge
<1>6. sealer \in Sealers
  BY Zenon DEF Init, NoSeal, Sealers
<1>7. budget \in BudgetType
  BY ArchiveAssumption DEF Init, BudgetType
<1>8. Types
  <2>1. status \in BOOLEAN
    BY Zenon DEF Init
  <2>2. file \in [Files -> Seq(Entries)] /\ manifest \in [Files -> Seq(Entries)]
    BY <1>1, Zenon DEF Init
  <2>3. Len(memory) <= MaxPending
    BY <1>1, ArchiveAssumption
  <2>4. /\ readonly = {} /\ audit = {} /\ acked = {} /\ observed = {}
    BY Zenon DEF Init
  <2> QED BY <1>1, <1>2, <1>4, <1>6, <1>7, <2>1, <2>2, <2>3, <2>4, ZenonT(30) DEF Types
<1>9. JournalInv
  <2>1. DOMAIN journal = {}
    BY DEF Init, NoOperation
  <2> QED BY <2>1, Zenon DEF JournalInv, Recoverable
<1>10. UnlinkInv /\ AckedIsDurable
  BY <1>2, Zenon DEF Init, UnlinkInv, AckedIsDurable
<1>11. PurgeInv
  BY <1>4, Zenon DEF PurgeInv, Audited
<1>12. AllLines = {}
  BY <1>1, ZenonT(30) DEF Init, AllLines
<1>13. MediaInv
  BY <1>1, <1>2, <1>3, <1>4, <1>5, <1>12, Zenon DEF MediaInv, Audited
<1> QED BY <1>8, <1>9, <1>10, <1>11, <1>13, Zenon DEF ArchiveInv

LEMMA ArchiveStep == ArchiveInv /\ [Next]_vars => ArchiveInv' /\ StepSafe
<1> SUFFICES ASSUME ArchiveInv, [Next]_vars
             PROVE  ArchiveInv' /\ StepSafe
  OBVIOUS
<1>1. CASE UNCHANGED vars
  <2>1. Types'
    BY <1>1, Zenon DEF ArchiveInv, Types, vars
  <2>2. CallGoesOn
    BY <1>1, Zenon DEF vars, CallGoesOn
  <2> QED BY <1>1, <2>1, <2>2, QuietStep, Zenon DEF vars
<1>2. ASSUME NEW e \in Events, Observe(e) \/ AppendCall(e)
      PROVE  ArchiveInv' /\ StepSafe
  BY <1>2, ObserveStep, AppendCallStep, Zenon
<1>3. CASE DrainSpool \/ WriterStep \/ WriterCrash
  BY <1>3, DrainSpoolStep, DrainAppendStep, DrainUnlinkStep, DrainMemoryStep,
     DrainEndsStep, WriteStep, DeferStep, WriterCrashStep, ZenonT(30) DEF WriterStep
<1>4. ASSUME NEW T \in Targets, PurgeCall(T)
      PROVE  ArchiveInv' /\ StepSafe
  BY <1>4, PurgeCallStep, Zenon
<1>5. CASE PurgeStep \/ PurgeCrash
  BY ZenonT(30), <1>5, PurgeLockStep, PurgeRefusedStep, PurgeAuditStep, PurgeStageStep, PurgeCompleteStep,
     PurgeMediaStep, PurgeReplaceStep, PurgeRecordStep, PurgeCrashStep DEF PurgeStep
<1>6. CASE SealCheck \/ SealStep \/ SealCrash
  BY <1>6, SealCheckStep, SealChmodStep, SealRecordStep, SealEndsStep, Zenon DEF
     SealStep
<1> QED BY <1>1, <1>2, <1>3, <1>4, <1>5, <1>6, ZenonT(30) DEF Next

LEMMA ArchiveInvariance == Spec => []ArchiveInv
<1>1. ArchiveInv /\ [Next]_vars => ArchiveInv'
  BY ArchiveStep, Zenon
<1> QED BY <1>1, ArchiveInit, PTL DEF Spec

\* The fragments of a crashed purge and the state of the channel.
Books == torn \subseteq {"AUDIT", "journal"} /\ intake \in BOOLEAN

LEMMA BooksTyped == Spec => []Books
<1>1. Init => Books
  BY Zenon DEF Init, Books
<1>2. ASSUME Books, [Next]_vars
      PROVE  Books'
  <2>1. CASE UNCHANGED <<torn, intake>>
    BY <2>1, <1>2, Zenon DEF Books
  <2>2. CASE UNCHANGED vars
    BY <2>1, <2>2, Zenon DEF vars
  <2>3. ASSUME NEW e \in Events, Observe(e) \/ AppendCall(e)
        PROVE  Books'
    BY <2>1, <2>3, Zenon DEF Observe, AppendCall, storage
  <2>4. CASE DrainSpool \/ DrainUnlink \/ DrainEnds
    BY <2>1, <2>4, Zenon DEF DrainSpool, DrainUnlink, DrainEnds, storage, world
  <2>5. CASE DrainAppend \/ DrainMemory \/ Write
    <3>1. torn' = torn
      BY <2>5, Zenon DEF DrainAppend, DrainMemory, Write, AppendLine
    <3>2. intake' = intake
      BY <2>5, Zenon DEF DrainAppend, DrainMemory, Write, world
    <3> QED BY <2>1, <3>1, <3>2, Zenon
  <2>6. CASE Defer
    BY <1>2, <2>6, Zenon DEF Defer, Books
  <2>7. CASE WriterCrash
    BY <1>2, <2>7, Zenon DEF WriterCrash, storage, Books
  <2>8. ASSUME NEW T \in Targets, PurgeCall(T)
        PROVE  Books'
    BY <2>1, <2>8, Zenon DEF PurgeCall, OthersUnchanged, world
  <2>9. CASE PurgeLock \/ PurgeRefused \/ PurgeAudit \/ PurgeStage \/ PurgeComplete \/ PurgeMedia
    BY <2>1, <2>9, Zenon DEF PurgeLock, PurgeRefused, PurgeAudit, PurgeStage, PurgeComplete,
       PurgeMedia, OthersUnchanged, world
  <2>10. ASSUME NEW f \in DOMAIN journal, PurgeReplace(f) \/ PurgeRecord(f)
         PROVE  Books'
    BY <2>1, <2>10, Zenon DEF PurgeReplace, PurgeRecord, OthersUnchanged, world
  <2>11. CASE PurgeCrash
    <3>1. Appending \subseteq {"AUDIT", "journal"}
      BY Zenon DEF Appending
    <3> QED BY <1>2, <2>11, <3>1, Zenon DEF PurgeCrash, OthersUnchanged, world, Books
  <2>12. CASE SealCheck \/ SealStep \/ SealCrash
    BY <2>1, <2>12, Zenon DEF SealCheck, SealStep, SealChmod, SealRecord, SealEnds,
       SealCrash, SealUnchanged
  <2> QED BY <1>2, <2>2, <2>3, <2>4, <2>5, <2>6, <2>7, <2>8, <2>9, <2>10, <2>11, <2>12,
             ZenonT(30) DEF Next, WriterStep, PurgeStep
<1> QED BY <1>1, <1>2, PTL DEF Spec

\* The stores, the queue of MAX_MEMORY_PENDING lines and the three processes
\* keep their types.
THEOREM ArchiveTyped == Spec => []TypeOK
<1>1. ArchiveInv /\ Books => TypeOK
  <2> SUFFICES ASSUME Types, JournalInv, Books
               PROVE  TypeOK
    BY Zenon DEF ArchiveInv
  <2>1. \A f \in Files : IsSeqOf(file[f], Lines \cup {Tombstone, Torn})
    BY LinesTyped DEF Types, IsSeqOf, Entries
  <2>2. IsSeqOf(spool, Lines) /\ IsSeqOf(memory, Lines)
    BY LinesTyped DEF Types, IsSeqOf
  <2>3. purger.at \in {"idle", "wait", "audit", "stage", "publish", "media"}
    BY Zenon DEF Types, Purgers
  <2>4. DOMAIN manifest = Files /\ DOMAIN journal \subseteq Files
    BY DEF Types, JournalInv
  <2> QED BY <2>1, <2>2, <2>3, <2>4, Zenon DEF Types, TypeOK, Writers, Sealers, Books
<1> QED BY <1>1, ArchiveInvariance, BooksTyped, PTL

\* What append_durable and append_media_transcript have reported is in its file,
\* in the spool or disposed of, whatever has failed or crashed since.
THEOREM AckedStaysDurable == Spec => []AckedIsDurable
<1>1. ArchiveInv => AckedIsDurable
  BY Zenon DEF ArchiveInv
<1> QED BY <1>1, ArchiveInvariance, PTL

\* Between the journalling of a purge and its recovery nothing, no append,
\* drain, seal, crash or other purge, gives a file or a MANIFEST entry that it
\* names contents that _publish_pending would reject.
THEOREM PendingStaysUntouched == Spec => []PendingUntouched
<1>1. ArchiveInv => PendingUntouched
  BY Zenon DEF ArchiveInv, JournalInv, PendingUntouched
<1> QED BY <1>1, ArchiveInvariance, PTL

\* delete_unreferenced removes no medium that a line the owner has kept needs.
THEOREM MediaAreKept == Spec => []ReferencesExist
<1>1. ArchiveInv => ReferencesExist
  <2> SUFFICES ASSUME ArchiveInv
               PROVE  ReferencesExist
    BY Zenon
  <2>1. \A l \in AllLines : l.ref /\ l.ev \notin audit => Blob[l.ev] \in media
    BY Zenon DEF ArchiveInv, MediaInv, Needs
  <2> QED BY <2>1, Zenon DEF ReferencesExist, References, AllLines
<1> QED BY <1>1, ArchiveInvariance, PTL

\* No line gets lost.
LinesStay == \A e \in Events : Present(e) => Present(e)' \/ e \in audit'

LEMMA LinesStayHere ==
    ASSUME StepSafe, budget'.crashes = budget.crashes
    PROVE  LinesStay
<1> SUFFICES ASSUME NEW e \in Events, Present(e), e \notin audit'
             PROVE  Present(e)'
  BY Zenon DEF LinesStay
<1>1. File[e] \in Files
  BY ArchiveAssumption, Zenon
<1>2. CASE e \in EventsOf(file[File[e]])
  BY <1>1, <1>2, ZenonT(30) DEF StepSafe, FilesSafe, Present
<1>3. CASE e \in EventsOf(spool)
  <2>1. PICK l \in Range(spool) : l.ev = e
    BY <1>3, EventHasLine, Zenon
  <2> QED BY <2>1, Zenon DEF StepSafe, Present
<1>4. CASE e \in EventsOf(memory)
  <2>1. PICK l \in Range(memory) : l.ev = e
    BY <1>4, EventHasLine, Zenon
  <2> QED BY <2>1, Zenon DEF StepSafe, Present
<1> QED BY <1>2, <1>3, <1>4, Zenon DEF Present

\* Only the owner's disposition or a crash of the gateway makes a line vanish.
THEOREM LinesAreNotDropped == Spec => NothingDropped
<1>1. ArchiveInv /\ [Next]_vars =>
         \A e \in Events :
            Present(e) => \/ Present(e)'
                          \/ e \in audit'
                          \/ budget'.crashes # budget.crashes
  BY ArchiveStep, LinesStayHere, Zenon DEF LinesStay
<1> QED BY <1>1, ArchiveInvariance, PTL DEF Spec, NothingDropped

-----------------------------------------------------------------------------
(* The order of the lines.                                                 *)

LEMMA LinesAreEntries == Seq(Lines) \subseteq Seq(Entries)
BY DEF Entries

LEMMA EventsOfConcat ==
    ASSUME NEW s \in Seq(Entries), NEW t \in Seq(Entries)
    PROVE  /\ s \o t \in Seq(Entries)
           /\ EventsOf(s \o t) = EventsOf(s) \cup EventsOf(t)
<1>1. s \o t \in Seq(Entries) /\ Range(s \o t) = Range(s) \cup Range(t)
  BY LinesOfConcat
<1>2. EventsOf(s \o t) = EventsOf(s) \cup EventsOf(t)
  BY <1>1, EventsOfLines, Zenon
<1> QED BY <1>1, <1>2, Zenon

\* What stands ahead of e has a line, and stands ahead of all that is not there.
LEMMA AheadFacts ==
    ASSUME NEW s \in Seq(Entries), NEW d \in Events, NEW e \in Events
    PROVE  /\ Ahead(s, d, e) => d \in EventsOf(s)
           /\ d \in EventsOf(s) /\ e \notin EventsOf(s) => Ahead(s, d, e)
<1>1. d # None /\ e # None
  BY ArchiveAssumption, Zenon
<1>2. DOMAIN s = 1 .. Len(s) /\ Len(s) \in Nat
  BY LinesTyped, Zenon
<1>3. Ahead(s, d, e) => d \in EventsOf(s)
  BY <1>1, Zenon DEF Ahead, EventsOf
<1>4. ASSUME d \in EventsOf(s), e \notin EventsOf(s)
      PROVE  Ahead(s, d, e)
  <2>1. PICK i \in DOMAIN s : s[i].ev = d
    BY <1>4, Zenon DEF EventsOf
  <2>2. \A j \in DOMAIN s : s[j].ev # e
    BY <1>1, <1>4, Zenon DEF EventsOf
  <2>3. \A j \in 1 .. i : j \in DOMAIN s
    BY <1>2
  <2> QED BY <2>1, <2>2, <2>3, Zenon DEF Ahead
<1> QED BY <1>3, <1>4, Zenon

LEMMA AheadConcat ==
    ASSUME NEW s \in Seq(Entries), NEW t \in Seq(Entries),
           NEW d \in Events, NEW e \in Events
    PROVE  Ahead(s \o t, d, e) <=>
              \/ Ahead(s, d, e)
              \/ e \notin EventsOf(s) /\ Ahead(t, d, e)
<1>1. PICK u \in Seq(Entries) : u = s \o t
  BY EventsOfConcat, Zenon
<1>2. PICK m \in Nat, n \in Nat : m = Len(s) /\ n = Len(t)
  BY LinesTyped, Zenon
<1>3. /\ DOMAIN s = 1 .. m /\ DOMAIN t = 1 .. n
      /\ DOMAIN u = 1 .. m + n
      /\ \A i \in 1 .. m : u[i] = s[i]
      /\ \A i \in 1 .. n : u[m + i] = t[i]
  <2>1. Len(u) = m + n /\ \A i \in 1 .. m + n : u[i] = IF i <= m THEN s[i] ELSE t[i - m]
    BY <1>1, <1>2, ConcatProperties, ZenonT(30)
  <2>2. DOMAIN s = 1 .. m /\ DOMAIN t = 1 .. n /\ DOMAIN u = 1 .. m + n
    BY <1>2, <2>1, LinesTyped, Zenon
  <2>3. \A i \in 1 .. m : u[i] = s[i]
    BY <2>1
  <2>4. \A i \in 1 .. n : u[m + i] = t[i]
    BY <2>1
  <2> QED BY <2>2, <2>3, <2>4, Zenon
<1>4. e # None
  BY ArchiveAssumption, Zenon
<1>5. e \notin EventsOf(s) <=> \A j \in 1 .. m : s[j].ev # e
  BY <1>3, <1>4, Zenon DEF EventsOf
<1>6. ASSUME Ahead(u, d, e), ~Ahead(s, d, e)
      PROVE  e \notin EventsOf(s) /\ Ahead(t, d, e)
  <2>1. PICK i \in 1 .. m + n : u[i].ev = d /\ \A j \in 1 .. i : u[j].ev # e
    BY <1>3, <1>6, Zenon DEF Ahead
  <2>2. i > m
    <3> SUFFICES ASSUME i \in 1 .. m
                 PROVE  FALSE
      OBVIOUS
    <3>1. \A j \in 1 .. i : s[j].ev # e
      BY <1>3, <2>1
    <3> QED BY <1>3, <1>6, <2>1, <3>1, Zenon DEF Ahead
  <2>3. \A j \in 1 .. m : s[j].ev # e
    BY <1>3, <2>1, <2>2
  <2>4. PICK k \in 1 .. n : i = m + k
    <3>1. i - m \in 1 .. n /\ i = m + (i - m)
      BY <2>2
    <3> QED BY <3>1, Zenon
  <2>5. t[k].ev = d
    BY <1>3, <2>1, <2>4, Zenon
  <2>6. \A j \in 1 .. k : t[j].ev # e
    <3> TAKE j \in 1 .. k
    <3>1. j \in 1 .. n /\ m + j \in 1 .. i
      BY <2>4
    <3> QED BY <1>3, <2>1, <3>1, Zenon
  <2>7. Ahead(t, d, e)
    BY <1>3, <2>5, <2>6, Zenon DEF Ahead
  <2> QED BY <1>5, <2>3, <2>7, ZenonT(30)
<1>7. ASSUME Ahead(s, d, e)
      PROVE  Ahead(u, d, e)
  <2>1. PICK i \in 1 .. m : s[i].ev = d /\ \A j \in 1 .. i : s[j].ev # e
    BY <1>3, <1>7, Zenon DEF Ahead
  <2>2. i \in 1 .. m + n /\ \A j \in 1 .. i : j \in 1 .. m
    OBVIOUS
  <2>3. u[i].ev = d /\ \A j \in 1 .. i : u[j].ev # e
    BY <1>3, <2>1, <2>2, Zenon
  <2> QED BY <1>3, <2>2, <2>3, Zenon DEF Ahead
<1>8. ASSUME e \notin EventsOf(s), Ahead(t, d, e)
      PROVE  Ahead(u, d, e)
  <2>1. PICK i \in 1 .. n : t[i].ev = d /\ \A j \in 1 .. i : t[j].ev # e
    BY <1>3, <1>8, Zenon DEF Ahead
  <2>2. m + i \in 1 .. m + n /\ u[m + i].ev = d
    <3>1. m + i \in 1 .. m + n
      OBVIOUS
    <3>2. u[m + i] = t[i]
      BY <1>3, Zenon
    <3> QED BY <2>1, <3>1, <3>2, Zenon
  <2>3. \A j \in 1 .. m + i : u[j].ev # e
    <3> TAKE j \in 1 .. m + i
    <3>1. CASE j \in 1 .. m
      BY <1>3, <1>5, <1>8, <3>1, Zenon
    <3>2. CASE j > m
      <4>1. j - m \in 1 .. i /\ j - m \in 1 .. n /\ j = m + (j - m)
        BY <3>2
      <4>2. u[j] = t[j - m]
        BY <1>3, <4>1, Zenon
      <4> QED BY <2>1, <4>1, <4>2, Zenon
    <3> QED BY <3>1, <3>2
  <2> QED BY <1>3, <2>2, <2>3, Zenon DEF Ahead
<1> QED BY <1>1, <1>6, <1>7, <1>8, Zenon

LEMMA AheadOne ==
    ASSUME NEW l \in Entries, NEW d \in Events, NEW e \in Events
    PROVE  /\ <<l>> \in Seq(Entries)
           /\ EventsOf(<<l>>) = {l.ev} \ {None}
           /\ Ahead(<<l>>, d, e) <=> l.ev = d /\ d # e
<1>1. PICK s \in Seq(Entries) : s = <<l>>
  BY LinesOfOne, Zenon
<1>2. DOMAIN s = {1} /\ s[1] = l
  BY <1>1
<1>3. EventsOf(s) = {l.ev} \ {None}
  BY <1>2, Zenon DEF EventsOf
<1>4. Ahead(s, d, e) <=> l.ev = d /\ d # e
  <2>1. 1 .. 1 = {1}
    OBVIOUS
  <2>2. Ahead(s, d, e) <=> l.ev = d /\ \A j \in 1 .. 1 : s[j].ev # e
    BY <1>2, Zenon DEF Ahead
  <2> QED BY <1>2, <2>1, <2>2, Zenon
<1> QED BY <1>1, <1>3, <1>4, Zenon

\* A rewrite moves no line that is kept.
LEMMA AheadRewritten ==
    ASSUME Types, NEW s, NEW t, Rewritten(s, t),
           NEW d \in Events \ audit, NEW e \in Events \ audit
    PROVE  /\ Ahead(s, d, e) <=> Ahead(t, d, e)
           /\ e \in EventsOf(s) <=> e \in EventsOf(t)
<1>1. /\ DOMAIN s = 1 .. Len(s) /\ DOMAIN t = 1 .. Len(s) /\ Len(s) \in Nat
      /\ \A i \in 1 .. Len(s) : \/ t[i] = s[i]
                                \/ t[i] = Tombstone /\ s[i].ev \in audit
  BY LinesTyped, Zenon DEF Rewritten
<1>2. Tombstone.ev = None /\ d # None /\ e # None
  BY EntryFacts, ArchiveAssumption, Zenon
<1>3. \A i \in 1 .. Len(s) : /\ t[i].ev = d <=> s[i].ev = d
                             /\ t[i].ev = e <=> s[i].ev = e
  BY <1>1, <1>2, Zenon
<1>4. \A i \in 1 .. Len(s) : \A j \in 1 .. i : j \in 1 .. Len(s)
  BY <1>1
<1>5. Ahead(s, d, e) <=> Ahead(t, d, e)
  BY <1>1, <1>3, <1>4, ZenonT(30) DEF Ahead
<1>6. e \in EventsOf(s) <=> e \in EventsOf(t)
  BY <1>1, <1>2, <1>3, Zenon DEF EventsOf
<1> QED BY <1>5, <1>6, Zenon

\* The stores of a file, one behind the other.
LEMMA AheadStores ==
    ASSUME NEW a \in Seq(Entries), NEW b \in Seq(Entries), NEW c \in Seq(Entries),
           NEW d \in Events, NEW e \in Events
    PROVE  Ahead(a \o b \o c, d, e) <=>
              \/ Ahead(a, d, e)
              \/ /\ e \notin EventsOf(a)
                 /\ \/ Ahead(b, d, e)
                    \/ e \notin EventsOf(b) /\ Ahead(c, d, e)
<1>1. PICK u \in Seq(Entries) : u = a \o b
  BY EventsOfConcat, Zenon
<1>2. EventsOf(u) = EventsOf(a) \cup EventsOf(b)
  BY <1>1, EventsOfConcat, Zenon
<1>3. Ahead(u, d, e) <=> Ahead(a, d, e) \/ (e \notin EventsOf(a) /\ Ahead(b, d, e))
  BY <1>1, AheadConcat, Zenon
<1>4. Ahead(u \o c, d, e) <=> Ahead(u, d, e) \/ (e \notin EventsOf(u) /\ Ahead(c, d, e))
  BY AheadConcat, Zenon
<1>5. Ahead(a, d, e) \/ e \in EventsOf(a) \/ e \notin EventsOf(a)
  BY Zenon
<1> HIDE DEF Ahead
<1> QED BY <1>1, <1>2, <1>3, <1>4, Zenon

InOrder(f, s, m, d, e) ==
    \/ Ahead(f, d, e)
    \/ /\ e \notin EventsOf(f)
       /\ \/ Ahead(s, d, e)
          \/ e \notin EventsOf(s) /\ Ahead(m, d, e)

LEMMA BeforeFacts ==
    ASSUME Types, Types', NEW d \in Events, NEW e \in Events
    PROVE  /\ Before(d, e) <=> InOrder(file[File[d]], spool, memory, d, e)
           /\ Before(d, e)' <=> InOrder(file'[File[d]], spool', memory', d, e)
<1>1. File[d] \in Files
  BY ArchiveAssumption, Zenon
<1>2. /\ file[File[d]] \in Seq(Entries) /\ file'[File[d]] \in Seq(Entries)
      /\ spool \in Seq(Entries) /\ spool' \in Seq(Entries)
      /\ memory \in Seq(Entries) /\ memory' \in Seq(Entries)
  BY <1>1, LinesAreEntries, Zenon DEF Types
<1>3. Before(d, e) <=> InOrder(file[File[d]], spool, memory, d, e)
  BY <1>2, AheadStores, Zenon DEF Before, InOrder
<1>4. Before(d, e)' <=> InOrder(file'[File[d]], spool', memory', d, e)
  BY <1>2, AheadStores, Zenon DEF Before, InOrder
<1> QED BY <1>3, <1>4, Zenon

\* Every event with a line was taken, what was taken has a line until it is
\* disposed of, and the lines stand in the order of taking.
OrderInv ==
    /\ \A e \in Events : Present(e) => Taken(e)
    /\ \A e \in Events : Taken(e) => Present(e) \/ e \in audit
    /\ OrderKept

\* What a step does to the lines that are kept: no two change places.
Unmoved ==
    \A d, e \in Events \ audit' :
        d # e /\ File[d] = File[e] /\ Before(d, e) /\ Present(e)' => Before(d, e)'

LEMMA OrderGoesOn ==
    ASSUME OrderInv, taken' = taken, audit \subseteq audit', Unmoved, LinesStay,
           \A e \in Events : Present(e)' => Present(e)
    PROVE  OrderInv'
<1>1. \A e \in Events : Taken(e)' <=> Taken(e)
  BY Zenon DEF Taken
<1>2. \A e \in Events : Present(e)' => Taken(e)'
  BY <1>1, Zenon DEF OrderInv
<1>3. \A e \in Events : Taken(e)' => Present(e)' \/ e \in audit'
  BY <1>1, Zenon DEF OrderInv, LinesStay
<1>4. OrderKept'
  <2> SUFFICES ASSUME NEW d \in Events, NEW e \in Events, <<d, e>> \in taken, d # e,
                      File[d] = File[e], d \notin audit', e \notin audit'
               PROVE  Before(d, e)' /\ Present(e)'
    BY Zenon DEF OrderKept
  <2>1. Before(d, e) /\ Present(e)
    BY Zenon DEF OrderInv, OrderKept
  <2>2. Present(e)'
    BY <2>1, Zenon DEF LinesStay
  <2> QED BY <2>1, <2>2, Zenon DEF Unmoved
<1> QED BY <1>2, <1>3, <1>4, Zenon DEF OrderInv

\* A line that comes new comes behind all others.
LEMMA OrderGrows ==
    ASSUME Types, Types', OrderInv, NoteTaken, writer.ev \in Events,
           audit \subseteq audit', Unmoved, LinesStay,
           \A e \in Events \ {writer.ev} : Present(e)' => Present(e)
    PROVE  OrderInv'
<1>1. PICK w \in Events : w = writer.ev
  BY Zenon
<1>2. CASE ~Taken(w) /\ Present(w)'
  <2>1. taken' = taken \cup {<<d, w>> : d \in {c \in Events : Taken(c)} \cup {w}}
    BY <1>1, <1>2, Zenon DEF NoteTaken
  <2>2. \A e \in Events : Taken(e)' <=> Taken(e) \/ e = w
    BY <2>1, Zenon DEF Taken
  <2>3. \A e \in Events : Present(e)' => Taken(e)'
    BY <1>1, <2>2, Zenon DEF OrderInv
  <2>4. \A e \in Events : Taken(e)' => Present(e)' \/ e \in audit'
    BY <1>2, <2>2, Zenon DEF OrderInv, LinesStay
  <2>5. OrderKept'
    <3> SUFFICES ASSUME NEW d \in Events, NEW e \in Events, <<d, e>> \in taken', d # e,
                        File[d] = File[e], d \notin audit', e \notin audit'
                 PROVE  Before(d, e)' /\ Present(e)'
      BY Zenon DEF OrderKept
    <3>1. Before(d, e) /\ Present(e)'
      <4>1. CASE <<d, e>> \in taken
        BY <4>1, Zenon DEF OrderInv, OrderKept, LinesStay
      <4>2. CASE <<d, e>> \notin taken
        <5>1. e = w /\ Taken(d)
          BY <2>1, <4>2, ZenonT(30)
        <5>2. Present(d) /\ ~Present(e)
          BY <1>2, <5>1, Zenon DEF OrderInv
        <5>3. InOrder(file[File[d]], spool, memory, d, e)
          <6>1. /\ file[File[d]] \in Seq(Entries)
                /\ spool \in Seq(Entries) /\ memory \in Seq(Entries)
            BY LinesAreEntries, ArchiveAssumption, ZenonT(30) DEF Types
          <6> QED BY <5>2, <6>1, AheadFacts, ZenonT(30) DEF Present, InOrder
        <5> QED BY <1>2, <5>1, <5>3, BeforeFacts, Zenon
      <4> QED BY <4>1, <4>2, Zenon
    <3> QED BY <3>1, Zenon DEF Unmoved
  <2> QED BY <2>3, <2>4, <2>5, ZenonT(30) DEF OrderInv
<1>3. CASE ~(~Taken(w) /\ Present(w)')
  <2>1. taken' = taken
    BY <1>1, <1>3, Zenon DEF NoteTaken
  <2>2. \A e \in Events : Taken(e)' <=> Taken(e)
    BY <2>1, Zenon DEF Taken
  <2>3. \A e \in Events : Present(e)' => Taken(e)'
    BY <1>1, <1>3, <2>2, Zenon DEF OrderInv
  <2>4. \A e \in Events : Taken(e)' => Present(e)' \/ e \in audit'
    BY <2>2, Zenon DEF OrderInv, LinesStay
  <2>5. OrderKept'
    <3> SUFFICES ASSUME NEW d \in Events, NEW e \in Events, <<d, e>> \in taken, d # e,
                        File[d] = File[e], d \notin audit', e \notin audit'
                 PROVE  Before(d, e)' /\ Present(e)'
      BY <2>1, ZenonT(30) DEF OrderKept
    <3>1. Before(d, e) /\ Present(e)'
      BY Zenon DEF OrderInv, OrderKept, LinesStay
    <3> QED BY <3>1, Zenon DEF Unmoved
  <2> QED BY <2>3, <2>4, <2>5, Zenon DEF OrderInv
<1> QED BY <1>2, <1>3, Zenon

LEMMA QuietOrder ==
    ASSUME OrderInv, UNCHANGED <<file, spool, memory, taken>>, audit \subseteq audit'
    PROVE  OrderInv'
<1>1. \A e \in Events : Present(e)' <=> Present(e)
  BY Zenon DEF Present
<1>2. Unmoved
  BY DEF Unmoved, Before
<1>3. LinesStay
  BY <1>1, Zenon DEF LinesStay
<1> QED BY <1>1, <1>2, <1>3, OrderGoesOn, ZenonT(30)

\* The kept lines of a published file stand as they stood.
LEMMA PublishMovesNothing ==
    ASSUME Types, JournalInv, NEW S \in SUBSET DOMAIN journal, NEW f \in Files,
           NEW d \in Events \ audit, NEW e \in Events \ audit
    PROVE  /\ Ahead(file[f], d, e) <=> Ahead(PublishedFile(S)[f], d, e)
           /\ e \in EventsOf(file[f]) <=> e \in EventsOf(PublishedFile(S)[f])
<1>1. CASE PublishedFile(S)[f] = file[f]
  BY <1>1, Zenon
<1>2. CASE Rewritten(file[f], PublishedFile(S)[f])
  BY <1>2, AheadRewritten, Zenon
<1> QED BY <1>1, <1>2, PublishRewrites, ZenonT(30)

LEMMA PublishOrder ==
    ASSUME ArchiveInv, Types', StepSafe, OrderInv, NEW S \in SUBSET DOMAIN journal,
           file' = PublishedFile(S), UNCHANGED <<spool, memory, taken, audit, budget>>
    PROVE  OrderInv'
<1>1. Types /\ JournalInv
  BY Zenon DEF ArchiveInv
<1>2. Unmoved
  <2> SUFFICES ASSUME NEW d \in Events \ audit, NEW e \in Events \ audit,
                      d # e, File[d] = File[e], Before(d, e)
               PROVE  Before(d, e)'
    BY Zenon DEF Unmoved
  <2>1. InOrder(file[File[d]], spool, memory, d, e)
    BY <1>1, BeforeFacts, Zenon
  <2>2. File[d] \in Files
    BY ArchiveAssumption, Zenon
  <2>3. /\ Ahead(file[File[d]], d, e) <=> Ahead(file'[File[d]], d, e)
        /\ e \in EventsOf(file[File[d]]) <=> e \in EventsOf(file'[File[d]])
    BY <1>1, <2>2, PublishMovesNothing, ZenonT(30)
  <2>4. InOrder(file'[File[d]], spool', memory', d, e)
    BY <2>1, <2>3, Zenon DEF InOrder
  <2> QED BY <1>1, <2>4, BeforeFacts, Zenon
<1>3. LinesStay
  BY LinesStayHere, ZenonT(30)
<1>4. \A e \in Events : Present(e)' => Present(e)
  <2> TAKE e \in Events
  <2>1. /\ File[e] \in Files
        /\ Range(file'[File[e]]) \subseteq Range(file[File[e]]) \cup {Tombstone, Torn}
    BY <1>1, ArchiveAssumption, PublishedFacts, Zenon
  <2>2. EventsOf(file'[File[e]]) \subseteq EventsOf(file[File[e]])
    BY <2>1, EventsOfLines, EntryFacts, Zenon
  <2> QED BY <2>2, Zenon DEF Present
<1> QED BY <1>2, <1>3, <1>4, OrderGoesOn, Zenon

\* append_line on a file: the kept lines stand as they stood, and the line, if it
\* is written, behind them.
Appends(l, adds) ==
    \A d, e \in Events \ audit :
        d # e /\ File[d] = File[e] =>
            /\ e \in EventsOf(file'[File[d]]) <=>
                    e \in EventsOf(file[File[d]]) \/ (adds /\ e = l.ev)
            /\ Ahead(file'[File[d]], d, e) <=>
                    \/ Ahead(file[File[d]], d, e)
                    \/ adds /\ d = l.ev /\ e \notin EventsOf(file[File[d]])

LEMMA AppendMovesNothing ==
    ASSUME Types, JournalInv, NEW l \in Lines, NEW ok \in BOOLEAN, AppendLine(l, ok)
    PROVE  \E adds \in BOOLEAN : (ok => adds \/ l.ev \in audit) /\ Appends(l, adds)
<1> DEFINE f == File[l.ev]
           settled == Settle(f)
           before == PublishedFile(settled)
<1>1. f \in Files /\ l \in Entries /\ settled \in SUBSET DOMAIN journal
  BY EntryFacts, ArchiveAssumption, Zenon DEF Settle
<1>2. PICK more \in {<<>>, <<Torn>>, <<l>>} :
                /\ file'[f] = before[f] \o more
                /\ \A g \in Files \ {f} : file'[g] = before[g]
                /\ ok => more = <<l>> \/ l.ev \in audit
  BY AppendLineForm, Zenon
<1>3. before[f] \in Seq(Entries)
  BY <1>1, PublishIsKind, ZenonT(30)
<1> DEFINE adds == more = <<l>>
<1>4. Appends(l, adds)
  <2> SUFFICES ASSUME NEW d \in Events \ audit, NEW e \in Events \ audit,
                      d # e, File[d] = File[e]
               PROVE  /\ e \in EventsOf(file'[File[d]]) <=>
                            e \in EventsOf(file[File[d]]) \/ (adds /\ e = l.ev)
                      /\ Ahead(file'[File[d]], d, e) <=>
                            \/ Ahead(file[File[d]], d, e)
                            \/ adds /\ d = l.ev /\ e \notin EventsOf(file[File[d]])
    BY Zenon DEF Appends
  <2> HIDE DEF adds, before
  <2>1. PICK g \in Files : g = File[d]
    BY ArchiveAssumption, Zenon
  <2>2. /\ Ahead(file[g], d, e) <=> Ahead(before[g], d, e)
        /\ e \in EventsOf(file[g]) <=> e \in EventsOf(before[g])
    BY <1>1, PublishMovesNothing, Zenon DEF before
  <2>3. CASE g # f
    <3>1. file'[g] = before[g] /\ d # l.ev /\ e # l.ev
      BY <1>2, <2>1, <2>3, ZenonT(30)
    <3> QED BY <2>1, <2>2, <3>1, Zenon
  <2>4. CASE g = f
    <3>1. PICK s \in Seq(Entries) : s = before[g]
      BY <1>3, <2>4, ZenonT(30)
    <3>2. file'[g] = s \o more
      BY <1>2, <2>4, <3>1, Zenon
    <3>3. CASE more = <<>>
      <4>1. file'[g] = s
        BY <3>2, <3>3, ConcatEmptySeq, ZenonT(30)
      <4>2. ~adds
        BY <3>3, Zenon DEF adds
      <4> QED BY <2>1, <2>2, <3>1, <4>1, <4>2, ZenonT(30)
    <3>4. ASSUME NEW m \in Entries, more = <<m>>
          PROVE  /\ e \in EventsOf(file'[g]) <=> e \in EventsOf(s) \/ e = m.ev
                 /\ Ahead(file'[g], d, e) <=>
                        Ahead(s, d, e) \/ (d = m.ev /\ e \notin EventsOf(s))
      <4>1. /\ more \in Seq(Entries)
            /\ EventsOf(more) = {m.ev} \ {None}
            /\ Ahead(more, d, e) <=> m.ev = d /\ d # e
        BY <3>4, AheadOne, Zenon
      <4>2. e # None
        BY ArchiveAssumption, Zenon
      <4>3. EventsOf(file'[g]) = EventsOf(s) \cup EventsOf(more)
        BY <3>2, <4>1, EventsOfConcat, Zenon
      <4>4. Ahead(file'[g], d, e) <=>
                Ahead(s, d, e) \/ (e \notin EventsOf(s) /\ Ahead(more, d, e))
        <5>1. PICK t \in Seq(Entries) : t = more
          BY <4>1, Zenon
        <5>2. Ahead(s \o t, d, e) <=>
                  Ahead(s, d, e) \/ (e \notin EventsOf(s) /\ Ahead(t, d, e))
          BY AheadConcat, Zenon
        <5> QED BY <3>2, <5>1, <5>2, Zenon
      <4>5. e \in EventsOf(file'[g]) <=> e \in EventsOf(s) \/ e = m.ev
        BY <4>1, <4>2, <4>3, Zenon
      <4> QED BY <4>1, <4>4, <4>5, Zenon
    <3>5. CASE more = <<Torn>>
      <4>1. Torn \in Entries /\ Torn.ev # d /\ Torn.ev # e
        BY EntryFacts, ArchiveAssumption, Zenon
      <4>2. ~adds
        <5>1. Torn # l
          BY <1>1, EntryFacts, ArchiveAssumption, Zenon
        <5> QED BY <3>5, <5>1, ZenonT(30) DEF adds
      <4> QED BY <2>1, <2>2, <3>1, <3>4, <3>5, <4>1, <4>2, ZenonT(30)
    <3>6. CASE more = <<l>>
      <4>1. adds
        BY <3>6, Zenon DEF adds
      <4> QED BY <1>1, <2>1, <2>2, <3>1, <3>4, <3>6, <4>1, ZenonT(30)
    <3> QED BY <1>2, <3>3, <3>5, <3>6, ZenonT(30)
  <2> QED BY <2>3, <2>4, Zenon
<1> QED BY <1>2, <1>4, ZenonT(30)

\* append_line brings no event but that of its line.
LEMMA AppendBringsOne ==
    ASSUME Types, JournalInv, NEW l \in Lines, NEW ok \in BOOLEAN, AppendLine(l, ok)
    PROVE  \A f \in Files : EventsOf(file'[f]) \subseteq EventsOf(file[f]) \cup {l.ev}
<1> TAKE f \in Files
<1>1. Range(file'[f]) \subseteq Range(file[f]) \cup {l} \cup {Tombstone, Torn}
  BY AppendLineFacts, Zenon DEF Kindly
<1> QED BY <1>1, EventsOfLines, EntryFacts, ZenonT(30)

LEMMA AheadTail ==
    ASSUME NEW s \in Seq(Lines), s # <<>>, NEW d \in Events, NEW e \in Events, d # e
    PROVE  /\ Ahead(s, d, e) <=> \/ Head(s).ev = d
                                 \/ Head(s).ev # e /\ Ahead(Tail(s), d, e)
           /\ EventsOf(s) = {Head(s).ev} \cup EventsOf(Tail(s))
<1>1. Head(s) \in Lines /\ Tail(s) \in Seq(Lines)
  BY LinesOfTail, Zenon
<1>2. PICK h \in Lines, t \in Seq(Lines) : h = Head(s) /\ t = Tail(s)
  BY <1>1, Zenon
<1>3. s = <<h>> \o t
  BY <1>2, HeadTailProperties, EmptySeq
<1>4. h \in Entries /\ t \in Seq(Entries) /\ h.ev \in Events /\ h.ev # None
  BY EntryFacts, LinesAreEntries, ArchiveAssumption, Zenon
<1>5. PICK one \in Seq(Entries) : /\ one = <<h>>
                                  /\ EventsOf(one) = {h.ev}
                                  /\ Ahead(one, d, e) <=> h.ev = d
  <2>1. EventsOf(<<h>>) = {h.ev}
    BY <1>4, AheadOne
  <2> QED BY <1>4, <2>1, AheadOne, ZenonT(30)
<1>6. Ahead(one \o t, d, e) <=> Ahead(one, d, e) \/ (e \notin EventsOf(one) /\ Ahead(t, d, e))
  BY <1>4, AheadConcat, Zenon
<1>7. EventsOf(one \o t) = EventsOf(one) \cup EventsOf(t)
  BY <1>4, EventsOfConcat, Zenon
<1> QED BY <1>2, <1>3, <1>5, <1>6, <1>7, ZenonT(30)

LEMMA DrainAppendOrder ==
    ASSUME ArchiveInv, ArchiveInv', StepSafe, OrderInv, DrainAppend
    PROVE  OrderInv'
<1>1. Types /\ Types' /\ JournalInv
  BY Zenon DEF ArchiveInv
<1>2. /\ spool # <<>>
      /\ UNCHANGED <<spool, memory, taken>>
  BY Zenon DEF DrainAppend
<1>3. PICK l \in Lines, ok \in BOOLEAN : l = Head(spool) /\ AppendLine(l, ok)
  BY <1>1, <1>2, LinesOfTail, Zenon DEF DrainAppend, Types
<1>4. audit' = audit /\ budget'.crashes = budget.crashes
  BY <1>1, <1>3, AppendLineFacts, Zenon
<1>5. PICK adds \in BOOLEAN : Appends(l, adds)
  BY <1>1, <1>3, AppendMovesNothing, Zenon
<1>6. Unmoved
  <2> SUFFICES ASSUME NEW d \in Events \ audit, NEW e \in Events \ audit,
                      d # e, File[d] = File[e], Before(d, e)
               PROVE  Before(d, e)'
    BY <1>4, Zenon DEF Unmoved
  <2>1. InOrder(file[File[d]], spool, memory, d, e)
    BY <1>1, BeforeFacts, ZenonT(30)
  <2>2. /\ Ahead(spool, d, e) <=> \/ l.ev = d
                                  \/ l.ev # e /\ Ahead(Tail(spool), d, e)
        /\ EventsOf(spool) = {l.ev} \cup EventsOf(Tail(spool))
    BY <1>1, <1>2, <1>3, AheadTail, ZenonT(30) DEF Types
  <2>3. /\ e \in EventsOf(file'[File[d]]) <=>
                e \in EventsOf(file[File[d]]) \/ (adds /\ e = l.ev)
        /\ Ahead(file'[File[d]], d, e) <=>
                \/ Ahead(file[File[d]], d, e)
                \/ adds /\ d = l.ev /\ e \notin EventsOf(file[File[d]])
    BY <1>5, Zenon DEF Appends
  <2>4. InOrder(file'[File[d]], spool, memory, d, e)
    BY <2>1, <2>2, <2>3, Zenon DEF InOrder
  <2> QED BY <1>1, <1>2, <2>4, BeforeFacts, ZenonT(30)
<1>7. LinesStay
  BY <1>4, LinesStayHere, ZenonT(30)
<1>8. \A e \in Events : Present(e)' => Present(e)
  <2> TAKE e \in Events
  <2>1. /\ File[e] \in Files
        /\ EventsOf(file'[File[e]]) \subseteq EventsOf(file[File[e]]) \cup {l.ev}
    BY <1>1, <1>3, ArchiveAssumption, AppendBringsOne, ZenonT(30)
  <2>2. l.ev \in EventsOf(spool)
    <3>1. l \in Range(spool)
      BY <1>1, <1>2, <1>3, LinesOfTail, ZenonT(30) DEF Types
    <3> QED BY <1>1, <3>1, LineIsPresent, Zenon DEF Types
  <2> QED BY <1>2, <2>1, <2>2, Zenon DEF Present
<1> QED BY <1>2, <1>4, <1>6, <1>7, <1>8, OrderGoesOn, ZenonT(30)

LEMMA DrainUnlinkOrder ==
    ASSUME ArchiveInv, ArchiveInv', StepSafe, OrderInv, DrainUnlink
    PROVE  OrderInv'
<1>1. Types /\ Types' /\ UnlinkInv
  BY Zenon DEF ArchiveInv
<1>2. /\ UNCHANGED <<file, audit, memory, taken>>
      /\ spool # <<>> /\ Archived(Head(spool).ev)
  BY <1>1, Zenon DEF DrainUnlink, UnlinkInv
<1>3. CASE spool' = spool
  BY <1>2, <1>3, QuietOrder, Zenon
<1>4. CASE spool' = Tail(spool) /\ budget' = budget
  <2>1. PICK l \in Lines : l = Head(spool)
    BY <1>1, <1>2, LinesOfTail, ZenonT(30) DEF Types
  <2>2. Unmoved
    <3> SUFFICES ASSUME NEW d \in Events \ audit, NEW e \in Events \ audit,
                        d # e, File[d] = File[e], Before(d, e)
                 PROVE  Before(d, e)'
      BY <1>2, Zenon DEF Unmoved
    <3>1. InOrder(file[File[d]], spool, memory, d, e)
      BY <1>1, BeforeFacts, ZenonT(30)
    <3>2. /\ Ahead(spool, d, e) <=> \/ l.ev = d
                                    \/ l.ev # e /\ Ahead(spool', d, e)
          /\ EventsOf(spool) = {l.ev} \cup EventsOf(spool')
      BY <1>1, <1>2, <1>4, <2>1, AheadTail, ZenonT(30) DEF Types
    <3>3. l.ev = d /\ e \notin EventsOf(file[File[d]]) => Ahead(file[File[d]], d, e)
      <4>1. file[File[d]] \in Seq(Entries)
        BY <1>1, ArchiveAssumption, ZenonT(30) DEF Types
      <4>2. l.ev = d => d \in EventsOf(file[File[d]])
        BY <1>2, <2>1, Zenon DEF Archived
      <4> QED BY <4>1, <4>2, AheadFacts, ZenonT(30)
    <3>4. InOrder(file[File[d]], spool', memory, d, e)
      BY <3>1, <3>2, <3>3, Zenon DEF InOrder
    <3> QED BY <1>1, <1>2, <3>4, BeforeFacts, ZenonT(30)
  <2>3. LinesStay
    BY <1>4, LinesStayHere, ZenonT(30)
  <2>4. \A e \in Events : Present(e)' => Present(e)
    <3>1. Range(spool') \subseteq Range(spool)
      BY <1>1, <1>2, <1>4, LinesOfTail, ZenonT(30) DEF Types
    <3>2. EventsOf(spool') \subseteq EventsOf(spool)
      BY <3>1, EventsOfLines, Zenon
    <3> QED BY <1>2, <3>2, ZenonT(30) DEF Present
  <2> QED BY <1>2, <2>2, <2>3, <2>4, OrderGoesOn, ZenonT(30)
<1> QED BY <1>3, <1>4, Zenon DEF DrainUnlink

LEMMA DrainMemoryOrder ==
    ASSUME ArchiveInv, ArchiveInv', StepSafe, OrderInv, DrainMemory
    PROVE  OrderInv'
<1>1. Types /\ Types' /\ JournalInv
  BY DEF ArchiveInv
<1>2. /\ memory # <<>>
      /\ UNCHANGED <<spool, taken>>
  BY Zenon DEF DrainMemory
<1>3. PICK l \in Lines, ok \in BOOLEAN : /\ l = Head(memory) /\ AppendLine(l, ok)
                                         /\ memory' = IF ok THEN Tail(memory) ELSE memory
  BY <1>1, <1>2, LinesOfTail, ZenonT(30) DEF DrainMemory, Types
<1>4. audit' = audit /\ budget'.crashes = budget.crashes
  BY <1>1, <1>3, AppendLineFacts, Zenon
<1>5. PICK adds \in BOOLEAN : (ok => adds \/ l.ev \in audit) /\ Appends(l, adds)
  BY <1>1, <1>3, AppendMovesNothing, ZenonT(30)
<1>6. EventsOf(spool) = {}
  BY DEF DrainMemory, EventsOf
<1>7. Unmoved
  <2> SUFFICES ASSUME NEW d \in Events \ audit, NEW e \in Events \ audit,
                      d # e, File[d] = File[e], Before(d, e)
               PROVE  Before(d, e)'
    BY <1>4 DEF Unmoved
  <2>1. InOrder(file[File[d]], spool, memory, d, e)
    BY <1>1, BeforeFacts, Zenon
  <2>2. /\ Ahead(memory, d, e) <=> \/ l.ev = d
                                   \/ l.ev # e /\ Ahead(Tail(memory), d, e)
        /\ EventsOf(memory) = {l.ev} \cup EventsOf(Tail(memory))
    BY <1>1, <1>2, <1>3, AheadTail, ZenonT(30) DEF Types
  <2>3. /\ e \in EventsOf(file'[File[d]]) <=>
                e \in EventsOf(file[File[d]]) \/ (adds /\ e = l.ev)
        /\ Ahead(file'[File[d]], d, e) <=>
                \/ Ahead(file[File[d]], d, e)
                \/ adds /\ d = l.ev /\ e \notin EventsOf(file[File[d]])
    BY <1>5, ZenonT(30) DEF Appends
  <2>4. ~Ahead(spool, d, e)
    BY SMTT(30) DEF DrainMemory, Ahead
  <2>5. CASE ok
    <3>1. memory' = Tail(memory) /\ (adds \/ l.ev # d)
      BY <1>3, <1>5, <2>5, Zenon
    <3>2. InOrder(file'[File[d]], spool, memory', d, e)
      BY <1>6, <2>1, <2>2, <2>3, <2>4, <3>1, ZenonT(30) DEF InOrder
    <3> QED BY <1>1, <1>2, <3>2, BeforeFacts, ZenonT(30)
  <2>6. CASE ~ok
    <3>1. memory' = memory
      BY <1>3, <2>6, Zenon
    <3>2. InOrder(file'[File[d]], spool, memory', d, e)
      BY <1>6, <2>1, <2>2, <2>3, <2>4, <3>1, ZenonT(30) DEF InOrder
    <3> QED BY <1>1, <1>2, <3>2, BeforeFacts, Zenon
  <2> QED BY <2>5, <2>6, ZenonT(30)
<1>8. LinesStay
  BY <1>4, LinesStayHere, Zenon
<1>9. \A e \in Events : Present(e)' => Present(e)
  <2> TAKE e \in Events
  <2>1. /\ File[e] \in Files
        /\ EventsOf(file'[File[e]]) \subseteq EventsOf(file[File[e]]) \cup {l.ev}
    BY <1>1, <1>3, ArchiveAssumption, AppendBringsOne, ZenonT(30)
  <2>2. l \in Range(memory) /\ Range(memory') \subseteq Range(memory)
    BY <1>1, <1>2, <1>3, LinesOfTail, ZenonT(30) DEF Types
  <2>3. l.ev \in EventsOf(memory)
    BY <1>1, <2>2, LineIsPresent, ZenonT(30) DEF Types
  <2>4. EventsOf(memory') \subseteq EventsOf(memory)
    BY <2>2, EventsOfLines, Zenon
  <2> QED BY <1>2, <2>1, <2>3, <2>4, ZenonT(30) DEF Present
<1> QED BY <1>2, <1>4, <1>7, <1>8, <1>9, OrderGoesOn, ZenonT(30)

LEMMA WriteOrder ==
    ASSUME ArchiveInv, ArchiveInv', StepSafe, OrderInv, Write
    PROVE  OrderInv'
<1>1. Types /\ Types' /\ JournalInv
  BY DEF ArchiveInv
<1>2. writer.ev \in Events /\ writer.ref \in BOOLEAN
  BY <1>1, Zenon DEF Write, Types, Writers
<1>3. UNCHANGED <<spool, memory>> /\ NoteTaken
  BY Zenon DEF Write
<1>4. PICK l \in Lines, ok \in BOOLEAN : l.ev = writer.ev /\ AppendLine(l, ok)
  <2>1. PICK ok \in BOOLEAN : AppendLine(Line(writer.ev, writer.ref), ok)
    BY Zenon DEF Write
  <2>2. /\ Line(writer.ev, writer.ref) \in Lines
        /\ Line(writer.ev, writer.ref).ev = writer.ev
    BY <1>2, EntryFacts, Zenon DEF Line
  <2> QED BY <2>1, <2>2, Zenon
<1>5. audit' = audit /\ budget'.crashes = budget.crashes
  BY <1>1, <1>4, AppendLineFacts, ZenonT(30)
<1>6. PICK adds \in BOOLEAN : Appends(l, adds)
  BY <1>1, <1>4, AppendMovesNothing, Zenon
<1>7. spool = <<>> /\ memory = <<>>
  <2>1. Len(spool \o memory) = Len(spool) + Len(memory) /\ Len(<<>>) = 0
    BY <1>1, ConcatProperties, ZenonT(30) DEF Types
  <2>2. spool \o memory = <<>> /\ Len(spool) \in Nat /\ Len(memory) \in Nat
    BY <1>1, LinesTyped, Zenon DEF Types, Write
  <2>3. Len(spool) = 0 /\ Len(memory) = 0
    BY <2>1, <2>2, SMTT(30)
  <2> QED BY <1>1, <2>3, EmptySeq, ZenonT(30) DEF Types
<1>8. Unmoved
  <2> SUFFICES ASSUME NEW d \in Events \ audit, NEW e \in Events \ audit,
                      d # e, File[d] = File[e], Before(d, e)
               PROVE  Before(d, e)'
    BY <1>5 DEF Unmoved
  <2>1. InOrder(file[File[d]], spool, memory, d, e)
    BY <1>1, BeforeFacts, Zenon
  <2>2. ~Ahead(spool, d, e) /\ ~Ahead(memory, d, e)
    BY <1>7, SMTT(30) DEF Ahead
  <2>3. Ahead(file'[File[d]], d, e)
    BY <1>6, <2>1, <2>2, ZenonT(30) DEF Appends, InOrder
  <2> QED BY <1>1, <2>3, BeforeFacts, ZenonT(30) DEF InOrder
<1>9. LinesStay
  BY <1>5, LinesStayHere
<1>10. \A e \in Events \ {writer.ev} : Present(e)' => Present(e)
  <2> TAKE e \in Events \ {writer.ev}
  <2>1. /\ File[e] \in Files
        /\ EventsOf(file'[File[e]]) \subseteq EventsOf(file[File[e]]) \cup {l.ev}
    BY <1>1, <1>4, ArchiveAssumption, AppendBringsOne, ZenonT(30)
  <2> QED BY <1>3, <1>4, <2>1, ZenonT(30) DEF Present
<1> QED BY <1>1, <1>2, <1>3, <1>5, <1>8, <1>9, <1>10, OrderGrows, ZenonT(30)

\* _defer_locked moves the front of the memory queue behind the spool, and puts
\* the line of the call behind everything.
LEMMA DeferOrder ==
    ASSUME ArchiveInv, ArchiveInv', StepSafe, OrderInv, Defer
    PROVE  OrderInv'
<1>1. Types /\ Types'
  BY ZenonT(30) DEF ArchiveInv
<1>2. writer.ev \in Events /\ writer.ref \in BOOLEAN
  BY <1>1, ZenonT(30) DEF Defer, Types, Writers
<1>3. UNCHANGED <<file, audit>> /\ NoteTaken
  BY Zenon DEF Defer
<1>4. PICK l \in Lines : l = Line(writer.ev, writer.ref) /\ l.ev = writer.ev
  <2>1. /\ Line(writer.ev, writer.ref) \in Lines
        /\ Line(writer.ev, writer.ref).ev = writer.ev
    BY <1>2, EntryFacts, Zenon DEF Line
  <2> QED BY <2>1, Zenon
<1>5. PICK k \in 0 .. Len(memory), spooled \in BOOLEAN :
        LET older == SubSeq(memory, k + 1, Len(memory))
        IN /\ spooled => older = <<>>
           /\ budget' \in {budget, Spent("faults")}
           /\ spool' = spool \o SubSeq(memory, 1, k) \o (IF spooled THEN <<l>> ELSE <<>>)
           /\ memory' \in {older, older \o <<l>>}
  BY <1>4, Zenon DEF Defer, EntersSpool, Remember
<1>6. PICK a \in Seq(Entries), b \in Seq(Entries), x \in {<<>>, <<l>>}, y \in {<<>>, <<l>>} :
        /\ memory = a \o b
        /\ spool' = spool \o a \o x
        /\ memory' = b \o y
        /\ x # <<>> => b = <<>>
  <2> DEFINE a == SubSeq(memory, 1, k)
             b == SubSeq(memory, k + 1, Len(memory))
  <2>1. a \in Seq(Entries) /\ b \in Seq(Entries) /\ memory = a \o b
    <3>1. memory \in Seq(Lines) /\ Len(memory) \in Nat
      BY <1>1, LinesTyped, Zenon DEF Types
    <3>2. a \in Seq(Lines) /\ b \in Seq(Lines)
      BY <3>1, LinesOfSplit, Zenon
    <3>3. a \o b = SubSeq(memory, 1, Len(memory))
      <4>1. /\ 1 \in 1 .. Len(memory) + 1 /\ k \in 1 - 1 .. Len(memory)
            /\ Len(memory) \in k .. Len(memory)
        BY <3>1
      <4> QED BY <3>1, <4>1, ConcatAdjacentSubSeq, Zenon
    <3> QED BY <3>1, <3>2, <3>3, SubSeqFull, LinesAreEntries, ZenonT(30)
  <2> HIDE DEF a, b
  <2>2. PICK x \in {<<>>, <<l>>} : spool' = spool \o a \o x /\ (x # <<>> => b = <<>>)
    BY <1>5, Zenon DEF a, b
  <2>3. PICK y \in {<<>>, <<l>>} : memory' = b \o y
    <3>1. b = b \o <<>>
      BY <2>1, ConcatEmptySeq, Zenon
    <3> QED BY <1>5, <3>1, ZenonT(30) DEF b
  <2> QED BY <2>1, <2>2, <2>3, Zenon
<1>7. /\ spool \in Seq(Entries)
      /\ x \in Seq(Entries) /\ EventsOf(x) \subseteq {writer.ev}
      /\ y \in Seq(Entries) /\ EventsOf(y) \subseteq {writer.ev}
  <2>1. spool \in Seq(Entries) /\ l \in Entries
    BY <1>1, LinesAreEntries, EntryFacts, Zenon DEF Types
  <2>2. <<l>> \in Seq(Entries) /\ Range(<<l>>) = {l} /\ <<>> \in Seq(Entries) /\ Range(<<>>) = {}
    BY <2>1, LinesOfOne, ZenonT(30)
  <2>3. EventsOf(<<l>>) \subseteq {writer.ev} /\ EventsOf(<<>>) = {}
    BY <1>4, <2>2, EventsOfLines, Zenon
  <2> QED BY <1>6, <2>1, <2>2, <2>3, ZenonT(30)
<1>8. /\ EventsOf(memory) = EventsOf(a) \cup EventsOf(b)
      /\ EventsOf(spool') = EventsOf(spool) \cup EventsOf(a) \cup EventsOf(x)
      /\ EventsOf(memory') = EventsOf(b) \cup EventsOf(y)
      /\ spool \o a \in Seq(Entries)
      /\ EventsOf(spool \o a) = EventsOf(spool) \cup EventsOf(a)
  <2>1. PICK c \in Seq(Entries) : /\ c = spool \o a
                                 /\ EventsOf(c) = EventsOf(spool) \cup EventsOf(a)
    BY <1>7, EventsOfConcat, Zenon
  <2>2. EventsOf(c \o x) = EventsOf(c) \cup EventsOf(x)
    BY <1>7, EventsOfConcat, ZenonT(30)
  <2>3. EventsOf(spool') = EventsOf(c \o x)
    BY <1>6, <2>1, Zenon
  <2>4. /\ EventsOf(memory) = EventsOf(a) \cup EventsOf(b)
        /\ EventsOf(memory') = EventsOf(b) \cup EventsOf(y)
    BY <1>6, <1>7, EventsOfConcat, ZenonT(30)
  <2> QED BY <2>1, <2>2, <2>3, <2>4, ZenonT(30)
<1>9. Unmoved
  <2> SUFFICES ASSUME NEW d \in Events \ audit, NEW e \in Events \ audit,
                      d # e, File[d] = File[e], Before(d, e)
               PROVE  Before(d, e)'
    BY <1>3, Zenon DEF Unmoved
  <2>1. InOrder(file[File[d]], spool, memory, d, e)
    BY <1>1, BeforeFacts, ZenonT(30)
  <2>2. Ahead(memory, d, e) <=> Ahead(a, d, e) \/ (e \notin EventsOf(a) /\ Ahead(b, d, e))
    BY <1>6, AheadConcat, ZenonT(30)
  <2>3. Ahead(memory', d, e) <=> Ahead(b, d, e) \/ (e \notin EventsOf(b) /\ Ahead(y, d, e))
    BY <1>6, <1>7, AheadConcat, ZenonT(30)
  <2>4. Ahead(spool', d, e) <=>
            \/ Ahead(spool, d, e)
            \/ /\ e \notin EventsOf(spool)
               /\ \/ Ahead(a, d, e)
                  \/ e \notin EventsOf(a) /\ Ahead(x, d, e)
    BY <1>6, <1>7, AheadStores, ZenonT(30)
  <2>5. Ahead(b, d, e) => EventsOf(x) = {}
    <3>1. Ahead(b, d, e) => b # <<>>
      BY DEF Ahead
    <3>2. EventsOf(<<>>) = {}
      BY DEF EventsOf
    <3> QED BY <1>6, <3>1, <3>2, ZenonT(30)
  <2>6. InOrder(file[File[d]], spool', memory', d, e)
    BY <1>8, <2>1, <2>2, <2>3, <2>4, <2>5, ZenonT(30) DEF InOrder
  <2> QED BY <1>1, <1>3, <2>6, BeforeFacts, ZenonT(30)
<1>10. LinesStay
  <2>1. budget'.crashes = budget.crashes
    BY <1>1, <1>5, SpentFacts, ZenonT(30) DEF Types
  <2> QED BY <2>1, LinesStayHere, ZenonT(30)
<1>11. \A e \in Events \ {writer.ev} : Present(e)' => Present(e)
  BY <1>3, <1>7, <1>8, ZenonT(30) DEF Present
<1> QED BY <1>1, <1>2, <1>3, <1>9, <1>10, <1>11, OrderGrows, ZenonT(30)

\* A crash of the gateway ends the memory queue, and what only it held has to be
\* taken anew.
LEMMA WriterCrashOrder ==
    ASSUME ArchiveInv, ArchiveInv', OrderInv, WriterCrash
    PROVE  OrderInv'
<1>1. Types /\ Types'
  BY Zenon DEF ArchiveInv
<1>2. /\ UNCHANGED <<file, spool, audit>>
      /\ memory' = <<>>
      /\ taken' = {p \in taken : \A i \in {1, 2} : Present(p[i])' \/ p[i] \in audit}
  BY ZenonT(30) DEF WriterCrash, storage
<1>3. \A e \in Events : Present(e)' => Present(e)
  <2>1. EventsOf(memory') = {}
    BY <1>2 DEF EventsOf
  <2> QED BY <1>2, <2>1, ZenonT(30) DEF Present
<1>4. \A d, e : <<d, e>> \in taken' <=> /\ <<d, e>> \in taken
                                        /\ Present(d)' \/ d \in audit
                                        /\ Present(e)' \/ e \in audit
  BY <1>2
<1>5. \A e \in Events : Present(e)' => Taken(e)'
  BY <1>3, <1>4, Zenon DEF OrderInv, Taken
<1>6. \A e \in Events : Taken(e)' => Present(e)' \/ e \in audit'
  BY <1>2, <1>4, ZenonT(30) DEF Taken
<1>7. OrderKept'
  <2> SUFFICES ASSUME NEW d \in Events, NEW e \in Events, <<d, e>> \in taken', d # e,
                      File[d] = File[e], d \notin audit, e \notin audit
               PROVE  Before(d, e)' /\ Present(e)'
    BY <1>2, Zenon DEF OrderKept
  <2>1. <<d, e>> \in taken /\ Present(e)'
    BY <1>4, Zenon
  <2>2. InOrder(file[File[d]], spool, memory, d, e)
    BY <1>1, <2>1, BeforeFacts, ZenonT(30) DEF OrderInv, OrderKept
  <2>3. e \in EventsOf(file[File[d]]) \cup EventsOf(spool)
    <3>1. EventsOf(memory') = {}
      BY <1>2 DEF EventsOf
    <3> QED BY <1>2, <2>1, <3>1, ZenonT(30) DEF Present
  <2>4. InOrder(file[File[d]], spool, memory', d, e)
    BY <2>2, <2>3, Zenon DEF InOrder
  <2> QED BY <1>1, <1>2, <2>1, <2>4, BeforeFacts, ZenonT(30)
<1> QED BY <1>5, <1>6, <1>7, ZenonT(30) DEF OrderInv

LEMMA OrderStep ==
    ASSUME ArchiveInv, OrderInv, [Next]_vars
    PROVE  OrderInv'
<1>1. ArchiveInv' /\ StepSafe
  BY ArchiveStep, Zenon
<1>2. Types /\ Types' /\ JournalInv
  BY <1>1, Zenon DEF ArchiveInv
<1>3. CASE UNCHANGED vars
  BY <1>3, QuietOrder, Zenon DEF vars
<1>4. ASSUME NEW e \in Events, Observe(e) \/ AppendCall(e)
      PROVE  OrderInv'
  BY <1>4, QuietOrder, ZenonT(30) DEF Observe, AppendCall, storage
<1>5. CASE DrainSpool \/ DrainEnds
  BY <1>5, QuietOrder, Zenon DEF DrainSpool, DrainEnds, storage
<1>6. CASE WriterStep \/ WriterCrash
  BY <1>1, <1>5, <1>6, DrainAppendOrder, DrainUnlinkOrder, DrainMemoryOrder, WriteOrder,
     DeferOrder, WriterCrashOrder, ZenonT(30) DEF WriterStep
<1>7. ASSUME NEW T \in Targets, PurgeCall(T)
      PROVE  OrderInv'
  BY <1>7, QuietOrder, Zenon DEF PurgeCall, OthersUnchanged
<1>8. CASE PurgeLock
  <2>1. DOMAIN journal \in SUBSET DOMAIN journal
    BY Zenon
  <2> QED BY <1>1, <1>2, <1>8, <2>1, PublishOrder, ZenonT(30) DEF PurgeLock, OthersUnchanged
<1>9. CASE PurgeRefused \/ PurgeAudit \/ PurgeStage \/ PurgeComplete \/ PurgeMedia \/ PurgeCrash
  BY <1>9, QuietOrder, Zenon DEF PurgeRefused, PurgeAudit, PurgeStage, PurgeComplete, PurgeMedia, PurgeCrash,
                          OthersUnchanged
<1>10. ASSUME NEW f \in DOMAIN journal, PurgeReplace(f)
       PROVE  OrderInv'
  <2>1. {f} \in SUBSET DOMAIN journal
    BY Zenon
  <2> QED BY <1>1, <1>2, <1>10, <2>1, PublishOrder, ZenonT(30) DEF PurgeReplace, OthersUnchanged
<1>11. ASSUME NEW f \in DOMAIN journal, PurgeRecord(f)
       PROVE  OrderInv'
  BY <1>11, QuietOrder, ZenonT(30) DEF PurgeRecord, OthersUnchanged
<1>12. CASE SealCheck \/ SealStep \/ SealCrash
  BY <1>12, QuietOrder, Zenon DEF SealCheck, SealStep, SealChmod, SealRecord, SealEnds,
     SealCrash, SealUnchanged
<1> QED BY <1>3, <1>4, <1>5, <1>6, <1>7, <1>8, <1>9, <1>10, <1>11, <1>12, ZenonT(30) DEF
           Next, PurgeStep

\* Both drain, oldest first: two events of one file stand in the order in which
\* the archive took them, in the file, the spool or the memory queue, through
\* every fault, crash, purge and redelivery.
THEOREM OrderStaysKept == Spec => []OrderKept
<1>1. Init => OrderInv
  <2> SUFFICES ASSUME Init
               PROVE  OrderInv
    OBVIOUS
  <2>1. taken = {} /\ \A e \in Events : ~Present(e)
    BY ArchiveAssumption DEF Init, Present, EventsOf
  <2> QED BY <2>1, ZenonT(30) DEF OrderInv, Taken, OrderKept
<1>2. ArchiveInv /\ OrderInv /\ [Next]_vars => OrderInv'
  BY OrderStep, Zenon
<1>3. OrderInv => OrderKept
  BY ZenonT(30) DEF OrderInv
<1> QED BY <1>1, <1>2, <1>3, ArchiveInvariance, PTL DEF Spec

-----------------------------------------------------------------------------
(* The copies of purged content.                                           *)

INSTANCE FiniteSetTheorems

\* A purge that has got past its publication has erased every line it named.
THEOREM PurgeIsComplete == Spec => []PurgeErases
<1>1. ArchiveInv => PurgeErases
  <2> SUFFICES ASSUME ArchiveInv, purger.at = "media", NEW e \in purger.target
               PROVE  Copies(e) = 0
    BY Zenon DEF PurgeErases
  <2>1. e \notin EventsOf(file[File[e]])
    BY Zenon DEF ArchiveInv, PurgeInv
  <2>2. e # None
    BY ArchiveAssumption, ZenonT(30) DEF ArchiveInv, Types, Purgers
  <2>3. {i \in DOMAIN file[File[e]] : file[File[e]][i].ev = e} = {}
    BY <2>1, <2>2, ZenonT(30) DEF EventsOf
  <2> QED BY <2>3, FS_EmptySet, ZenonT(30) DEF Copies
<1> QED BY <1>1, ArchiveInvariance, PTL

\* From the AUDIT line on no drain, retry, redelivery or recovery adds a line of
\* purged content to a file.
THEOREM PurgedStaysPurged == Spec => NoResurrection
<1>1. ArchiveInv /\ [Next]_vars => \A e \in audit : Copies(e)' <= Copies(e)
  <2> SUFFICES ASSUME ArchiveInv, [Next]_vars, NEW e \in audit
               PROVE  Copies(e)' <= Copies(e)
    BY Zenon
  <2> DEFINE f == File[e]
             S == Places(e, file[f])
             T == Places(e, file'[f])
  <2>1. f \in Files
    BY ArchiveAssumption, ZenonT(30) DEF ArchiveInv, Types
  <2>2. T \subseteq S
    BY <2>1, ArchiveStep, ZenonT(30) DEF StepSafe, FilesSafe
  <2>3. IsFiniteSet(S)
    <3>1. DOMAIN file[f] = 1 .. Len(file[f]) /\ Len(file[f]) \in Nat
      BY <2>1, LinesTyped, ZenonT(30) DEF ArchiveInv, Types
    <3>2. IsFiniteSet(1 .. Len(file[f]))
      <4>1. \A n \in Nat : IsFiniteSet(1 .. n)
        BY FS_Interval
      <4> QED BY <3>1, <4>1, ZenonT(30)
    <3>3. S \subseteq 1 .. Len(file[f])
      BY <3>1, Zenon DEF Places
    <3> HIDE DEF S
    <3> QED BY <3>2, <3>3, FS_Subset, ZenonT(30)
  <2>4. Copies(e) = Cardinality(S) /\ Copies(e)' = Cardinality(T)
    BY Zenon DEF Copies, Places
  <2> HIDE DEF S, T, f
  <2>5. Cardinality(T) <= Cardinality(S)
    BY <2>2, <2>3, FS_Subset, ZenonT(30)
  <2> QED BY <2>4, <2>5, ZenonT(30)
<1> QED BY <1>1, ArchiveInvariance, PTL DEF Spec, NoResurrection
=============================================================================
