-------------------------- MODULE RawArchiveAppend --------------------------
(***************************************************************************)
(* The inductive invariant of the raw archive, what publishing a file and  *)
(* appending a line do to the lines of the archive, and that every step of *)
(* an append call keeps the invariant.                                     *)
(***************************************************************************)
EXTENDS RawArchive, SequenceTheorems, TLAPS

Entries == Lines \cup {Tombstone, Torn}

-----------------------------------------------------------------------------
(* Lines and sequences of lines.                                           *)

LEMMA EntryFacts ==
    /\ \A e \in Events, r \in BOOLEAN : Line(e, r) \in Lines
    /\ \A l \in Lines : /\ l.kind = "line" /\ l.ev \in Events
                        /\ l.ref \in BOOLEAN /\ l \in Entries
    /\ Tombstone \in Entries /\ Tombstone.ev = None /\ ~Tombstone.ref
    /\ Torn \in Entries /\ Torn.ev = None /\ ~Torn.ref
    /\ \A l \in Entries : l.ev \in Events \cup {None} /\ l.ref \in BOOLEAN
    /\ \A l \in Entries : l.ev = None => ~l.ref
<1>1. \A e \in Events, r \in BOOLEAN : Line(e, r) \in Lines
  BY DEF Lines
<1>2. ASSUME NEW l \in Lines
      PROVE  /\ l.kind = "line" /\ l.ev \in Events /\ l.ev # None
             /\ l.ref \in BOOLEAN
             /\ l \in Entries
  <2>1. PICK e \in Events, r \in BOOLEAN : l = Line(e, r)
    BY DEF Lines
  <2>2. l.kind = "line" /\ l.ev = e /\ l.ref = r
    BY <2>1, Zenon DEF Line
  <2> QED BY <2>2, ArchiveAssumption DEF Entries
<1>3. Tombstone.ev = None /\ Tombstone.ref = FALSE /\ Torn.ev = None /\ Torn.ref = FALSE
  BY Zenon DEF Tombstone, Torn
<1>4. Tombstone \in Entries /\ Torn \in Entries
  BY DEF Entries
<1>5. ASSUME NEW l \in Entries
      PROVE  /\ l.ev \in Events \cup {None} /\ l.ref \in BOOLEAN
             /\ l.ev = None => ~l.ref
  <2>1. CASE l \in Lines
    BY <2>1, <1>2
  <2>2. CASE l = Tombstone
    BY <2>2, <1>3, Zenon
  <2>3. CASE l = Torn
    BY <2>3, <1>3, Zenon
  <2> QED BY <2>1, <2>2, <2>3 DEF Entries
<1> QED BY <1>1, <1>2, <1>3, <1>4, <1>5

\* The events of a sequence are those of its set of lines.
LEMMA EventsOfLines ==
    ASSUME NEW s
    PROVE  EventsOf(s) = {l.ev : l \in Range(s)} \ {None}
BY DEF EventsOf, Range

LEMMA LinesTyped ==
    ASSUME NEW S, NEW s \in Seq(S)
    PROVE  /\ Range(s) \subseteq S
           /\ DOMAIN s = 1 .. Len(s)
           /\ Len(s) \in Nat
           /\ s \in [1 .. Len(s) -> S]
BY LenProperties DEF Range

LEMMA LinesOfConcat ==
    ASSUME NEW S, NEW s \in Seq(S), NEW t \in Seq(S)
    PROVE  /\ s \o t \in Seq(S)
           /\ Range(s \o t) = Range(s) \cup Range(t)
<1>1. s \o t \in Seq(S)
  BY ConcatProperties
<1>2. Range(s \o t) = Range(s) \cup Range(t)
  BY RangeConcatenation
<1> QED BY <1>1, <1>2

LEMMA LinesOfOne ==
    ASSUME NEW S, NEW l \in S
    PROVE  /\ <<l>> \in Seq(S) /\ Range(<<l>>) = {l} /\ Len(<<l>>) = 1
           /\ <<>> \in Seq(S) /\ Range(<<>>) = {} /\ Len(<<>>) = 0
BY DEF Range

LEMMA LinesOfAppended ==
    ASSUME NEW S, NEW s \in Seq(S), NEW l \in S
    PROVE  /\ s \o <<l>> \in Seq(S)
           /\ Range(s \o <<l>>) = Range(s) \cup {l}
<1> DEFINE t == <<l>>
<1>1. t \in Seq(S) /\ Range(t) = {l}
  BY LinesOfOne
<1> HIDE DEF t
<1>2. s \o t \in Seq(S) /\ Range(s \o t) = Range(s) \cup {l}
  BY <1>1, LinesOfConcat
<1> QED BY <1>2 DEF t

LEMMA LinesOfTail ==
    ASSUME NEW S, NEW s \in Seq(S), s # <<>>
    PROVE  /\ Head(s) \in S /\ Tail(s) \in Seq(S)
           /\ Len(Tail(s)) = Len(s) - 1
           /\ Range(s) = {Head(s)} \cup Range(Tail(s))
<1>1. /\ Head(s) \in S /\ Tail(s) \in Seq(S)
      /\ Len(Tail(s)) = Len(s) - 1
      /\ \A i \in 1 .. Len(Tail(s)) : Tail(s)[i] = s[i + 1]
      /\ Len(s) \in Nat \ {0}
  BY HeadTailProperties, EmptySeq
<1>2. s[1] = Head(s)
  BY <1>1
<1>3. /\ DOMAIN s = 1 .. Len(s)
      /\ DOMAIN Tail(s) = 1 .. Len(s) - 1
  BY <1>1, LinesTyped
<1>4. \A i \in DOMAIN s : s[i] = Head(s) \/ \E j \in DOMAIN Tail(s) : Tail(s)[j] = s[i]
  <2> SUFFICES ASSUME NEW i \in DOMAIN s, i # 1
               PROVE  \E j \in DOMAIN Tail(s) : Tail(s)[j] = s[i]
    BY <1>2
  <2>1. i - 1 \in DOMAIN Tail(s) /\ Tail(s)[i - 1] = s[i]
    BY <1>1, <1>3
  <2> QED BY <2>1
<1>5. \A j \in DOMAIN Tail(s) : \E i \in DOMAIN s : Tail(s)[j] = s[i]
  BY <1>1, <1>3
<1>6. \E i \in DOMAIN s : s[i] = Head(s)
  BY <1>1, <1>2, <1>3
<1>7. Range(s) = {Head(s)} \cup Range(Tail(s))
  <2> DEFINE t == Tail(s)
             h == Head(s)
  <2>1. /\ \A i \in DOMAIN s : s[i] = h \/ \E j \in DOMAIN t : t[j] = s[i]
        /\ \A j \in DOMAIN t : \E i \in DOMAIN s : t[j] = s[i]
        /\ \E i \in DOMAIN s : s[i] = h
    BY <1>4, <1>5, <1>6, Zenon
  <2> HIDE DEF t, h
  <2>2. Range(s) = {h} \cup Range(t)
    BY <2>1 DEF Range
  <2> QED BY <2>2 DEF t, h
<1> QED BY <1>1, <1>7

\* _defer_locked splits the memory queue.
LEMMA LinesOfSplit ==
    ASSUME NEW S, NEW s \in Seq(S), NEW k \in 0 .. Len(s)
    PROVE  /\ SubSeq(s, 1, k) \in Seq(S)
           /\ SubSeq(s, k + 1, Len(s)) \in Seq(S)
           /\ Len(SubSeq(s, k + 1, Len(s))) <= Len(s)
           /\ Range(s) = Range(SubSeq(s, 1, k)) \cup Range(SubSeq(s, k + 1, Len(s)))
<1>1. Len(s) \in Nat /\ \A i \in 1 .. Len(s) : s[i] \in S
  BY LinesTyped
<1>2. SubSeq(s, 1, k) \in Seq(S)
  BY <1>1, SubSeqProperties
<1>3. /\ SubSeq(s, k + 1, Len(s)) \in Seq(S)
      /\ Len(SubSeq(s, k + 1, Len(s))) = IF k + 1 <= Len(s) THEN Len(s) - (k + 1) + 1 ELSE 0
  BY <1>1, SubSeqProperties
<1>4. SubSeq(s, 1, k) \o SubSeq(s, k + 1, Len(s)) = s
  <2>1. SubSeq(s, 1, k) \o SubSeq(s, k + 1, Len(s)) = SubSeq(s, 1, Len(s))
    <3>1. 1 \in 1 .. Len(s) + 1 /\ k \in 1 - 1 .. Len(s) /\ Len(s) \in k .. Len(s)
      BY <1>1
    <3> QED BY <3>1, ConcatAdjacentSubSeq, Zenon
  <2> QED BY <2>1, SubSeqFull, Zenon
<1>5. Len(SubSeq(s, k + 1, Len(s))) <= Len(s)
  BY <1>1, <1>3
<1>6. Range(s) = Range(SubSeq(s, 1, k)) \cup Range(SubSeq(s, k + 1, Len(s)))
  <2>1. PICK a \in Seq(S), b \in Seq(S) : a = SubSeq(s, 1, k) /\ b = SubSeq(s, k + 1, Len(s))
    BY <1>2, <1>3, Zenon
  <2>2. a \o b = s
    BY <1>4, <2>1, Zenon
  <2>3. Range(a \o b) = Range(a) \cup Range(b)
    BY LinesOfConcat, ZenonT(30)
  <2> QED BY <2>1, <2>2, <2>3, ZenonT(30)
<1> QED BY <1>2, <1>3, <1>5, <1>6, Zenon

-----------------------------------------------------------------------------
(* The invariant.                                                          *)

Blobs == {Blob[e] : e \in Events}

Writers == [at : {"idle", "drain", "unlink", "defer"},
            ev : Events \cup {None}, ref : BOOLEAN, failing : BOOLEAN]
Purgers == [at : {"idle", "wait", "audit", "stage", "publish", "media"},
            target : SUBSET Events, guard : BOOLEAN, plan : SUBSET Blobs]
Sealers == [at : {"idle", "close", "record"}, f : Files \cup {None}]
BudgetType == [faults : Int, crashes : Int, purges : Int, seals : Int,
               events : SUBSET Events]

Types ==
    /\ file \in [Files -> Seq(Entries)]
    /\ readonly \subseteq MonthFiles
    /\ manifest \in [Files -> Seq(Entries)]
    /\ audit \subseteq Events
    /\ spool \in Seq(Lines) /\ memory \in Seq(Lines)
    /\ Len(memory) <= MaxPending
    /\ status \in BOOLEAN
    /\ writer \in Writers /\ purger \in Purgers /\ sealer \in Sealers
    /\ acked \subseteq observed /\ observed \subseteq Events
    /\ writer.ev \in observed \cup {None}
    /\ writer.at = "defer" => writer.ev # None
    /\ budget \in BudgetType

\* t is s with tombstones in the places of disposed lines.
Rewritten(s, t) ==
    /\ s \in Seq(Entries) /\ t \in Seq(Entries)
    /\ Len(t) = Len(s)
    /\ \A i \in 1 .. Len(s) : \/ t[i] = s[i]
                              \/ t[i] = Tombstone /\ s[i].ev \in audit

\* A pending operation rewrites what the AUDIT line covers and nothing else, and
\* nobody else has touched what it names.
JournalInv ==
    /\ DOMAIN journal \subseteq Files
    /\ \A f \in DOMAIN journal :
        /\ Rewritten(journal[f].before, journal[f].after)
        /\ journal[f].readonly => f \in MonthFiles
    /\ Recoverable

Archived(e) == e \in EventsOf(file[File[e]]) \cup audit

\* The spool file _drain_locked is about to remove has been appended.
UnlinkInv ==
    writer.at = "unlink" => spool # <<>> /\ Archived(Head(spool).ev)

Audited == purger.at \in {"stage", "publish", "media"}

\* What a purge still has to replace is journalled.
PurgeInv ==
    /\ Audited => purger.target \subseteq audit
    /\ purger.at = "publish" =>
        \A e \in purger.target :
            IF File[e] \in DOMAIN journal
            THEN e \notin EventsOf(journal[File[e]].after)
            ELSE e \notin EventsOf(file[File[e]])
    /\ purger.at = "media" =>
        \A e \in purger.target : e \notin EventsOf(file[File[e]])

AllLines ==
    Range(spool) \cup Range(memory) \cup UNION {Range(file[f]) : f \in Files}

\* A line that references a medium and that the owner has not disposed of.
Needs(l) == l.ref /\ l.ev \notin audit

\* A medium is deleted under the media guard, which excludes the calls that
\* bring media and the lines in memory that came with one.
MediaInv ==
    /\ \A l \in AllLines : Needs(l) => Blob[l.ev] \in media
    /\ \A l \in Range(memory) : l.ref => Blob[l.ev] # NoBlob
    /\ writer.ref => /\ writer.ev # None
                     /\ Blob[writer.ev] # NoBlob
                     /\ Blob[writer.ev] \in media
    /\ purger.guard => /\ writer.ev # None => Blob[writer.ev] = NoBlob
                       /\ \A l \in Range(memory) : Blob[l.ev] = NoBlob
    /\ Audited => /\ ~purger.guard => purger.plan = {}
                  /\ \A l \in AllLines : Needs(l) => Blob[l.ev] \notin purger.plan

ArchiveInv ==
    /\ Types /\ JournalInv /\ UnlinkInv /\ AckedIsDurable /\ PurgeInv /\ MediaInv

-----------------------------------------------------------------------------
(* Rewrites and publications.                                              *)

Places(e, s) == {i \in DOMAIN s : s[i].ev = e}

\* What may become of the file: no line is lost, none that is disposed of is
\* added, and none is added but those of L.
Kindly(s, t, L) ==
    /\ t \in Seq(Entries)
    /\ EventsOf(s) \ audit \subseteq EventsOf(t)
    /\ Range(t) \subseteq Range(s) \cup L \cup {Tombstone, Torn}
    /\ \A e \in audit : Places(e, t) \subseteq Places(e, s)

LEMMA KindlySame ==
    ASSUME NEW s \in Seq(Entries), NEW L
    PROVE  Kindly(s, s, L)
BY DEF Kindly

LEMMA RewriteIsKind ==
    ASSUME Types, NEW s, NEW t, Rewritten(s, t)
    PROVE  Kindly(s, t, {})
<1>1. /\ s \in Seq(Entries) /\ t \in Seq(Entries)
      /\ DOMAIN s = 1 .. Len(s) /\ DOMAIN t = 1 .. Len(s)
      /\ \A i \in 1 .. Len(s) : \/ t[i] = s[i]
                                \/ t[i] = Tombstone /\ s[i].ev \in audit
  BY LinesTyped DEF Rewritten
<1>2. Tombstone.ev = None /\ None \notin audit
  BY EntryFacts, ArchiveAssumption DEF Types
<1>3. EventsOf(s) \ audit \subseteq EventsOf(t)
  BY <1>1, <1>2 DEF EventsOf
<1>4. Range(t) \subseteq Range(s) \cup {Tombstone}
  BY <1>1 DEF Range
<1>5. \A e \in audit : Places(e, t) \subseteq Places(e, s)
  BY <1>1, <1>2 DEF Places
<1> QED BY <1>1, <1>3, <1>4, <1>5 DEF Kindly

\* _publish_pending replaces a file by a rewrite of it, or leaves it.
LEMMA PublishRewrites ==
    ASSUME JournalInv, NEW S \in SUBSET DOMAIN journal, NEW f \in Files
    PROVE  \/ PublishedFile(S)[f] = file[f]
           \/ Rewritten(file[f], PublishedFile(S)[f])
<1> SUFFICES ASSUME PublishedFile(S)[f] # file[f]
             PROVE  Rewritten(file[f], PublishedFile(S)[f])
  OBVIOUS
<1>1. f \in S /\ PublishedFile(S)[f] = journal[f].after
  BY DEF PublishedFile
<1>2. file[f] = journal[f].before
  BY <1>1 DEF JournalInv, Recoverable
<1> QED BY <1>1, <1>2 DEF JournalInv

LEMMA PublishIsKind ==
    ASSUME Types, JournalInv, NEW S \in SUBSET DOMAIN journal
    PROVE  /\ PublishedFile(S) \in [Files -> Seq(Entries)]
           /\ \A f \in Files : Kindly(file[f], PublishedFile(S)[f], {})
           /\ PublishedManifest(S) \in [Files -> Seq(Entries)]
           /\ PublishedMode(S) \subseteq MonthFiles
<1>1. ASSUME NEW f \in Files
      PROVE  Kindly(file[f], PublishedFile(S)[f], {})
  <2>1. file[f] \in Seq(Entries)
    BY DEF Types
  <2>2. CASE PublishedFile(S)[f] = file[f]
    BY <2>1, <2>2, KindlySame
  <2>3. CASE Rewritten(file[f], PublishedFile(S)[f])
    BY <2>3, RewriteIsKind, Zenon
  <2> QED BY <2>2, <2>3, PublishRewrites
<1>2. PublishedFile(S) \in [Files -> Seq(Entries)]
  <2>1. \A f \in Files : PublishedFile(S)[f] \in Seq(Entries)
    BY <1>1, Zenon DEF Kindly
  <2> QED BY <2>1, Zenon DEF PublishedFile
<1>3. PublishedManifest(S) \in [Files -> Seq(Entries)]
  BY DEF PublishedManifest, Types, JournalInv, Rewritten
<1>4. PublishedMode(S) \subseteq MonthFiles
  BY DEF PublishedMode, Types, JournalInv
<1> QED BY <1>1, <1>2, <1>3, <1>4

\* A line behind a file.
LEMMA AppendIsKind ==
    ASSUME Types, NEW s \in Seq(Entries), NEW t, NEW l \in Entries, l.ev \notin audit,
           t = s \o <<l>>
    PROVE  Kindly(s, t, {l}) /\ l \in Range(t)
<1>1. /\ t \in Seq(Entries)
      /\ Range(t) = Range(s) \cup {l}
  BY LinesOfAppended, ZenonT(30)
<1>2. EventsOf(s) \subseteq EventsOf(t)
  BY <1>1, EventsOfLines
<1>3. /\ <<l>> \in Seq(Entries) /\ Len(<<l>>) = 1
      /\ Len(s) \in Nat
  BY LinesOfOne, LinesTyped
<1>4. /\ Len(t) = Len(s) + 1
      /\ \A i \in 1 .. Len(s) + 1 : t[i] = IF i <= Len(s) THEN s[i] ELSE l
  BY <1>3, ConcatProperties
<1>5. DOMAIN s = 1 .. Len(s) /\ DOMAIN t = 1 .. Len(s) + 1
  BY <1>1, <1>4, LinesTyped
<1>6. \A e \in audit : Places(e, t) \subseteq Places(e, s)
  BY <1>3, <1>4, <1>5 DEF Places
<1> QED BY <1>1, <1>2, <1>6, Zenon DEF Kindly

LEMMA KindlyTwice ==
    ASSUME NEW s, NEW t, NEW u, NEW L, Kindly(s, t, {}), Kindly(t, u, L)
    PROVE  Kindly(s, u, L)
BY DEF Kindly

\* What append_line makes of the files, once they are settled.
LEMMA AppendLineForm ==
    ASSUME Types, JournalInv, NEW l \in Lines, NEW ok \in BOOLEAN, AppendLine(l, ok)
    PROVE  LET f == File[l.ev]
               before == PublishedFile(Settle(f))
           IN \E more \in {<<>>, <<Torn>>, <<l>>} :
                /\ file'[f] = before[f] \o more
                /\ \A g \in Files \ {f} : file'[g] = before[g]
                /\ file' = [g \in Files |-> file'[g]]
                /\ more = <<l>> => l.ev \notin audit
                /\ ok => more = <<l>> \/ l.ev \in audit
                /\ Refused(f) => more = <<>>
<1> DEFINE f == File[l.ev]
           settled == Settle(f)
           before == PublishedFile(settled)
<1>1. f \in Files /\ settled \in SUBSET DOMAIN journal
  BY EntryFacts, ArchiveAssumption DEF Settle
<1>2. before \in [Files -> Seq(Entries)]
  BY <1>1, PublishIsKind
<1>3. PICK more : /\ file' = [before EXCEPT ![f] = @ \o more]
                  /\ more \in {<<>>, <<Torn>>, <<l>>}
                  /\ more = <<l>> => l.ev \notin audit
                  /\ ok => more = <<l>> \/ l.ev \in audit
                  /\ Refused(f) => more = <<>>
  <2>1. PICK more \in (IF Refused(f) THEN {<<>>} ELSE Extensions(l, ok)) :
            file' = [before EXCEPT ![f] = @ \o more]
    BY Zenon DEF AppendLine
  <2>2. ok => ~Refused(f)
    BY Zenon DEF AppendLine
  <2>3. CASE Refused(f)
    <3>1. more = <<>> /\ ~ok
      BY <2>1, <2>2, <2>3, Zenon
    <3>2. <<>> # <<l>>
      BY ZenonT(30)
    <3> QED BY <2>1, <3>1, <3>2, Zenon
  <2>4. CASE ~Refused(f)
    <3>1. more \in Extensions(l, ok)
      BY <2>1, <2>4, Zenon
    <3>2. <<>> # <<l>>
      OBVIOUS
    <3>3. CASE l.ev \in audit
      <4>1. more = <<>>
        BY <3>1, <3>3, Zenon DEF Extensions, Disposed
      <4> QED BY <2>1, <2>4, <3>2, <3>3, <4>1, Zenon
    <3>4. CASE l.ev \notin audit
      <4>1. /\ more \in {<<>>, <<Torn>>, <<l>>}
            /\ ok => more = <<l>>
        BY <3>1, <3>4 DEF Extensions, Disposed
      <4> QED BY <2>1, <2>4, <3>4, <4>1, Zenon
    <3> QED BY <3>3, <3>4, Zenon
  <2> QED BY <2>3, <2>4, Zenon
<1>4. /\ file'[f] = before[f] \o more
      /\ \A g \in Files \ {f} : file'[g] = before[g]
      /\ file' = [g \in Files |-> file'[g]]
  <2> HIDE DEF f, before
  <2> QED BY <1>1, <1>2, <1>3, Zenon
<1> QED BY <1>3, <1>4, Zenon

LEMMA SpentFacts ==
    ASSUME budget \in BudgetType
    PROVE  /\ Spent("faults") \in BudgetType /\ Spent("faults").crashes = budget.crashes
           /\ Spent("purges") \in BudgetType /\ Spent("purges").crashes = budget.crashes
           /\ Spent("seals") \in BudgetType /\ Spent("seals").crashes = budget.crashes
           /\ Spent("crashes") \in BudgetType /\ Spent("crashes").crashes # budget.crashes
<1>1. /\ Spent("faults") = [budget EXCEPT !.faults = @ - 1]
      /\ Spent("purges") = [budget EXCEPT !.purges = @ - 1]
      /\ Spent("seals") = [budget EXCEPT !.seals = @ - 1]
      /\ Spent("crashes") = [budget EXCEPT !.crashes = @ - 1]
  BY Zenon DEF Spent
<1> QED BY <1>1 DEF BudgetType

\* append_line, with the recovery that comes before it.
LEMMA AppendLineFacts ==
    ASSUME Types, JournalInv, NEW l \in Lines, NEW ok \in BOOLEAN, AppendLine(l, ok)
    PROVE  /\ file' \in [Files -> Seq(Entries)]
           /\ \A f \in Files : Kindly(file[f], file'[f], {l})
           /\ ok => l.ev \in EventsOf(file'[File[l.ev]]) \cup audit
           /\ readonly' \subseteq MonthFiles
           /\ manifest' \in [Files -> Seq(Entries)]
           /\ budget' \in BudgetType /\ budget'.crashes = budget.crashes
           /\ audit' = audit /\ media' = media
           /\ ~DispositionLocked
           /\ JournalInv'
<1> DEFINE f == File[l.ev]
           settled == Settle(f)
           before == PublishedFile(settled)
<1>1. l.ev \in Events /\ l \in Entries /\ f \in Files /\ l.ev # None
  BY EntryFacts, ArchiveAssumption, Zenon
<1>2. settled \in SUBSET DOMAIN journal
  BY Zenon DEF Settle
<1>3. /\ before \in [Files -> Seq(Entries)]
      /\ \A g \in Files : Kindly(file[g], before[g], {})
      /\ PublishedManifest(settled) \in [Files -> Seq(Entries)]
      /\ PublishedMode(settled) \subseteq MonthFiles
  BY <1>2, PublishIsKind, Zenon
<1>4. PICK more \in {<<>>, <<Torn>>, <<l>>} :
                /\ file'[f] = before[f] \o more
                /\ \A g \in Files \ {f} : file'[g] = before[g]
                /\ file' = [g \in Files |-> file'[g]]
                /\ more = <<l>> => l.ev \notin audit
                /\ ok => more = <<l>> \/ l.ev \in audit
                /\ Refused(f) => more = <<>>
  BY AppendLineForm, ZenonT(30)
<1>6. /\ Kindly(before[f], file'[f], {l})
      /\ ok => l.ev \in EventsOf(file'[f]) \cup audit
  <2>1. before[f] \in Seq(Entries)
    BY <1>1, <1>3, Zenon
  <2>2. CASE more = <<>>
    <3>1. file'[f] = before[f]
      BY <1>4, <2>1, <2>2, ConcatEmptySeq, Zenon
    <3>2. <<>> # <<l>>
      BY ZenonT(30)
    <3> QED BY <2>1, <2>2, <3>1, <3>2, <1>4, KindlySame, Zenon
  <2>3. CASE more = <<Torn>>
    <3>1. Torn \in Entries /\ Torn.ev \notin audit /\ Torn # l
      BY EntryFacts, ArchiveAssumption, <1>1, Zenon DEF Types
    <3>2. Kindly(before[f], file'[f], {Torn})
      BY <1>4, <2>1, <2>3, <3>1, AppendIsKind, ZenonT(30)
    <3>3. Kindly(before[f], file'[f], {l})
      BY <3>2, Zenon DEF Kindly
    <3>4. <<Torn>> # <<l>>
      BY <3>1, Zenon
    <3> QED BY <2>3, <3>3, <3>4, <1>4, Zenon
  <2>4. CASE more = <<l>>
    <3>1. Kindly(before[f], file'[f], {l})
      BY <1>1, <1>4, <2>1, <2>4, AppendIsKind, ZenonT(30)
    <3>2. l \in Range(file'[f])
      BY <1>1, <1>4, <2>1, <2>4, AppendIsKind, Zenon
    <3>3. l.ev \in EventsOf(file'[f])
      BY <1>1, <3>2, EventsOfLines, Zenon
    <3> QED BY <3>1, <3>3, Zenon
  <2> QED BY <1>4, <2>2, <2>3, <2>4, Zenon
<1>7. \A g \in Files : Kindly(file[g], file'[g], {l})
  <2> TAKE g \in Files
  <2>1. Kindly(file[g], before[g], {})
    BY <1>3
  <2>2. CASE g = f
    BY <1>6, <2>1, <2>2, KindlyTwice
  <2>3. CASE g # f
    <3>1. file'[g] = before[g] /\ before[g] \in Seq(Entries)
      BY <1>3, <1>4, <2>3
    <3>2. Kindly(before[g], before[g], {l})
      BY <3>1, KindlySame, Zenon
    <3> QED BY <2>1, <3>1, <3>2, KindlyTwice, SMTT(30)
  <2> QED BY <2>2, <2>3, Zenon
<1>8. file' \in [Files -> Seq(Entries)]
  <2>1. \A g \in Files : file'[g] \in Seq(Entries)
    BY <1>7, Zenon DEF Kindly
  <2>2. file' = [g \in Files |-> file'[g]]
    BY <1>4, ZenonT(30)
  <2> QED BY <2>1, <2>2, Zenon
<1>9. budget' \in BudgetType /\ budget'.crashes = budget.crashes
  <2>1. budget' = budget \/ budget' = Spent("faults")
    BY Zenon DEF AppendLine
  <2>2. budget \in BudgetType
    BY Zenon DEF Types
  <2> QED BY <2>1, <2>2, SpentFacts, Zenon
<1>10. /\ audit' = audit /\ media' = media /\ ~DispositionLocked
       /\ readonly' \subseteq MonthFiles
       /\ manifest' \in [Files -> Seq(Entries)]
  BY <1>3 DEF AppendLine
<1>11. JournalInv'
  <2>1. CASE settled # {}
    <3>1. journal' = <<>>
      BY <2>1, Zenon DEF AppendLine, NoOperation
    <3>2. DOMAIN journal' = {}
      BY <3>1
    <3> QED BY <3>2, Zenon DEF JournalInv, Recoverable
  <2>2. CASE settled = {}
    <3>1. f \in DOMAIN journal => file'[f] = before[f]
      <4> SUFFICES ASSUME f \in DOMAIN journal
                   PROVE  file'[f] = before[f]
        BY Zenon
      <4>1. DOMAIN journal # {} /\ Recoverable
        BY Zenon DEF JournalInv
      <4>2. Refused(f)
        BY <2>2, <4>1, Zenon DEF Settle, Settleable, Refused
      <4>3. before[f] \in Seq(Entries)
        BY <1>1, <1>3, Zenon
      <4> QED BY <1>4, <4>2, <4>3, ConcatEmptySeq, Zenon
    <3>2. journal' = journal /\ manifest' = PublishedManifest({}) /\ before = PublishedFile({})
      BY <2>2, Zenon DEF AppendLine
    <3>3. \A g \in Files : before[g] = file[g] /\ manifest'[g] = manifest[g]
      BY <3>2, ZenonT(30) DEF PublishedFile, PublishedManifest
    <3>4. \A g \in DOMAIN journal : file'[g] = file[g] /\ manifest'[g] = manifest[g]
      BY <1>4, <3>1, <3>3, Zenon DEF JournalInv
    <3> QED BY <3>2, <3>4, <1>10, SMTT(30) DEF JournalInv, Recoverable, Rewritten
  <2> QED BY <2>1, <2>2, Zenon
<1> QED BY <1>6, <1>7, <1>8, <1>9, <1>10, <1>11, ZenonT(30)

-----------------------------------------------------------------------------
(* What every step keeps.                                                  *)

FilesSafe ==
    /\ audit \subseteq audit'
    /\ \A f \in Files : EventsOf(file[f]) \ audit \subseteq EventsOf(file'[f])
    /\ \A f \in Files : \A e \in audit : Places(e, file'[f]) \subseteq Places(e, file[f])

\* What leaves the spool is in its file, and only a crash empties the memory.
StepSafe ==
    /\ FilesSafe
    /\ \A l \in Range(spool) :
        l.ev \in EventsOf(file'[File[l.ev]]) \cup EventsOf(spool') \cup audit'
    /\ budget'.crashes = budget.crashes =>
        \A l \in Range(memory) :
            l.ev \in EventsOf(file'[File[l.ev]]) \cup EventsOf(spool')
                        \cup EventsOf(memory') \cup audit'

LEMMA LineIsPresent ==
    ASSUME NEW s \in Seq(Lines), NEW l \in Range(s)
    PROVE  l.ev \in EventsOf(s) /\ l.ev \in Events
<1>1. l \in Lines
  BY LinesTyped, Zenon
<1>2. l.ev \in Events /\ l.ev # None
  BY <1>1, EntryFacts, ArchiveAssumption, Zenon
<1> QED BY <1>2, EventsOfLines, Zenon

LEMMA EventHasLine ==
    ASSUME NEW s, NEW e \in EventsOf(s)
    PROVE  \E l \in Range(s) : l.ev = e
BY EventsOfLines, Zenon

\* A step that leaves the lines alone.
LEMMA StoresKept ==
    ASSUME Types, UNCHANGED <<file, audit, spool, memory>>
    PROVE  StepSafe
<1>1. \A l \in Range(spool) : l.ev \in EventsOf(spool')
  BY LineIsPresent, Zenon DEF Types
<1>2. \A l \in Range(memory) : l.ev \in EventsOf(memory')
  BY LineIsPresent DEF Types
<1> QED BY <1>1, <1>2, Zenon DEF StepSafe, FilesSafe

LEMMA JournalKept ==
    ASSUME JournalInv, UNCHANGED <<file, journal, manifest>>, audit \subseteq audit'
    PROVE  JournalInv'
BY Zenon DEF JournalInv, Recoverable, Rewritten

LEMMA UnlinkKept ==
    ASSUME Types, UnlinkInv, FilesSafe, spool' = spool,
           writer'.at = "unlink" => writer.at = "unlink"
    PROVE  UnlinkInv'
<1> SUFFICES ASSUME writer'.at = "unlink"
             PROVE  spool # <<>> /\ Archived(Head(spool).ev)'
  BY Zenon DEF UnlinkInv
<1>1. /\ spool # <<>>
      /\ Head(spool).ev \in EventsOf(file[File[Head(spool).ev]]) \cup audit
  BY Zenon DEF UnlinkInv, Archived
<1>2. Head(spool) \in Lines
  BY <1>1, LinesOfTail, Zenon DEF Types
<1>3. File[Head(spool).ev] \in Files
  BY <1>2, EntryFacts, ArchiveAssumption, Zenon
<1> QED BY <1>1, <1>3, Zenon DEF FilesSafe, Archived

LEMMA AckKept ==
    ASSUME Types, AckedIsDurable, StepSafe,
           \A e \in acked' \ acked :
               e \in EventsOf(file'[File[e]]) \cup EventsOf(spool') \cup audit'
    PROVE  AckedIsDurable'
<1> SUFFICES ASSUME NEW e \in acked
             PROVE  e \in EventsOf(file'[File[e]]) \cup EventsOf(spool') \cup audit'
  BY Zenon DEF AckedIsDurable
<1>1. File[e] \in Files
  BY ArchiveAssumption, Zenon DEF Types
<1>2. CASE e \in EventsOf(file[File[e]]) \cup audit
  BY <1>1, <1>2, Zenon DEF StepSafe, FilesSafe
<1>3. CASE e \in EventsOf(spool)
  <2>1. PICK l \in Range(spool) : l.ev = e
    BY <1>3, EventHasLine, Zenon
  <2> QED BY <2>1, Zenon DEF StepSafe
<1> QED BY <1>2, <1>3, Zenon DEF AckedIsDurable

LEMMA PurgeKept ==
    ASSUME PurgeInv, UNCHANGED <<purger, journal, file, audit>>
    PROVE  PurgeInv'
BY DEF PurgeInv, Audited

\* While an append may run no purge is past its lock.
LEMMA PurgeWaits ==
    ASSUME ~DispositionLocked, purger' = purger
    PROVE  PurgeInv'
BY Zenon DEF DispositionLocked, PurgeInv, Audited

\* The call of the writer goes on or ends.
CallGoesOn ==
    /\ writer'.ev \in {writer.ev, None}
    /\ writer'.ref => writer.ref /\ writer'.ev = writer.ev

\* The guard and the plan of the purge are not touched.
PurgeGoesOn ==
    /\ purger'.guard => purger.guard
    /\ Audited' => /\ Audited
                   /\ purger'.plan = purger.plan
                   /\ purger.guard => purger'.guard

\* Lines and media: the call of the writer adds its own line at most, and the
\* guard keeps what it protects.
LEMMA MediaKept ==
    ASSUME Types, MediaInv,
           NEW L \in SUBSET {Line(writer.ev, writer.ref)}, L # {} => writer.ev # None,
           AllLines' \subseteq AllLines \cup L \cup {Tombstone, Torn},
           Range(memory') \subseteq Range(memory) \cup L,
           audit' = audit, media' = media, CallGoesOn, PurgeGoesOn
    PROVE  MediaInv'
<1>1. ~Tombstone.ref /\ ~Torn.ref
  BY EntryFacts
<1>2. \A l \in L : /\ l.ev = writer.ev
                   /\ l.ref => writer.ref
                   /\ writer.ev # None
  <2> TAKE l \in L
  <2>1. l = Line(writer.ev, writer.ref) /\ writer.ev # None
    OBVIOUS
  <2>2. l.ev = writer.ev /\ l.ref = writer.ref
    BY <2>1, Zenon DEF Line
  <2> QED BY <2>1, <2>2, Zenon
<1>3. ASSUME NEW l \in L, l.ref
      PROVE  /\ Blob[l.ev] \in media /\ Blob[l.ev] # NoBlob
             /\ ~purger.guard
             /\ Audited => purger.plan = {}
  <2>1. writer.ref
    BY <1>2, <1>3, Zenon
  <2>2. Blob[l.ev] = Blob[writer.ev]
    BY <1>2, Zenon
  <2> QED BY <1>2, <2>1, <2>2, Zenon DEF MediaInv
<1>4. \A l \in AllLines' : Needs(l)' => Blob[l.ev] \in media'
  BY <1>1, <1>3, Zenon DEF MediaInv, Needs
<1>5. \A l \in Range(memory') : l.ref => Blob[l.ev] # NoBlob
  BY <1>3, Zenon DEF MediaInv
<1>6. writer'.ref => /\ writer'.ev # None
                     /\ Blob[writer'.ev] # NoBlob
                     /\ Blob[writer'.ev] \in media'
  BY Zenon DEF MediaInv, CallGoesOn
<1>7. purger'.guard => /\ writer'.ev # None => Blob[writer'.ev] = NoBlob
                       /\ \A l \in Range(memory') : Blob[l.ev] = NoBlob
  <2> SUFFICES ASSUME purger'.guard
               PROVE  /\ writer'.ev # None => Blob[writer'.ev] = NoBlob
                      /\ \A l \in Range(memory') : Blob[l.ev] = NoBlob
    BY Zenon
  <2>1. /\ writer.ev # None => Blob[writer.ev] = NoBlob
        /\ \A l \in Range(memory) : Blob[l.ev] = NoBlob
    BY DEF MediaInv, PurgeGoesOn
  <2>2. \A l \in L : Blob[l.ev] = NoBlob
    BY <1>2, <2>1, Zenon
  <2> QED BY <2>1, <2>2, Zenon DEF CallGoesOn
<1>8. Audited' => /\ ~purger'.guard => purger'.plan = {}
                  /\ \A l \in AllLines' : Needs(l)' => Blob[l.ev] \notin purger'.plan
  <2> SUFFICES ASSUME Audited'
               PROVE  /\ ~purger'.guard => purger'.plan = {}
                      /\ \A l \in AllLines' : Needs(l)' => Blob[l.ev] \notin purger'.plan
    BY Zenon
  <2>1. ~purger'.guard => purger'.plan = {}
    BY Zenon DEF MediaInv, PurgeGoesOn
  <2>2. \A l \in AllLines' : Needs(l)' => Blob[l.ev] \notin purger'.plan
    BY <1>1, <1>3, Zenon DEF MediaInv, Needs, PurgeGoesOn
  <2> QED BY <2>1, <2>2, Zenon
<1> QED BY <1>4, <1>5, <1>6, <1>7, <1>8, Zenon DEF MediaInv

-----------------------------------------------------------------------------
(* The writer.                                                             *)

LEMMA LinesUnchanged ==
    ASSUME UNCHANGED <<file, spool, memory>>
    PROVE  /\ AllLines' \subseteq AllLines \cup {} \cup {Tombstone, Torn}
           /\ Range(memory') \subseteq Range(memory) \cup {}
BY Zenon DEF AllLines

\* Steps that change neither the lines nor what depends on them.
LEMMA QuietStep ==
    ASSUME ArchiveInv, Types',
           UNCHANGED <<file, manifest, audit, journal, media, spool, memory, purger, acked>>,
           writer'.at = "unlink" => writer.at = "unlink", CallGoesOn
    PROVE  ArchiveInv' /\ StepSafe
<1> USE DEF ArchiveInv
<1>1. StepSafe
  BY StoresKept, Zenon
<1>2. JournalInv' /\ PurgeInv'
  BY JournalKept, PurgeKept, Zenon
<1>3. UnlinkInv'
  BY <1>1, UnlinkKept, Zenon DEF StepSafe
<1>4. AckedIsDurable'
  BY <1>1, AckKept, Zenon
<1>5. MediaInv'
  <2>1. {} \in SUBSET {Line(writer.ev, writer.ref)}
    BY Zenon
  <2>2. PurgeGoesOn
    BY DEF PurgeGoesOn, Audited
  <2> QED BY <2>1, <2>2, LinesUnchanged, MediaKept, Zenon
<1> QED BY <1>1, <1>2, <1>3, <1>4, <1>5, Zenon

LEMMA ObserveStep ==
    ASSUME ArchiveInv, NEW e \in Events, Observe(e)
    PROVE  ArchiveInv' /\ StepSafe
<1>1. Types'
  BY Zenon DEF ArchiveInv, Types, Observe, storage
<1>2. CallGoesOn
  BY Zenon DEF Observe, CallGoesOn
<1> QED BY <1>1, <1>2, QuietStep, Zenon DEF Observe, storage

LEMMA NoCallFacts ==
    ASSUME NEW at \in {"idle", "drain"},
           writer' = [at |-> at, ev |-> None, ref |-> FALSE, failing |-> FALSE]
    PROVE  /\ writer' \in Writers /\ writer'.at = at /\ writer'.ev = None
           /\ CallGoesOn
<1>1. writer'.at = at /\ writer'.ev = None
  BY Zenon
<1>2. FALSE \in BOOLEAN
  BY Zenon
<1>3. writer' \in Writers
  BY <1>2, Zenon DEF Writers
<1>4. writer'.ref = FALSE
  BY Zenon
<1> QED BY <1>1, <1>3, <1>4, Zenon DEF CallGoesOn

LEMMA DrainSpoolStep ==
    ASSUME ArchiveInv, DrainSpool
    PROVE  ArchiveInv' /\ StepSafe
<1>1. /\ writer' \in Writers /\ writer'.at = "drain" /\ writer'.ev = None
      /\ CallGoesOn
  <2>1. writer' = [NoCall EXCEPT !.at = "drain"]
    BY DEF DrainSpool
  <2>2. writer' = [at |-> "drain", ev |-> None, ref |-> FALSE, failing |-> FALSE]
    BY <2>1, Zenon DEF NoCall
  <2> QED BY <2>2, NoCallFacts, Zenon
<1>2. Types'
  BY <1>1, Zenon DEF ArchiveInv, Types, DrainSpool, storage, world
<1> QED BY <1>1, <1>2, QuietStep, Zenon DEF DrainSpool, storage

LEMMA EndCallFacts ==
    ASSUME EndCall
    PROVE  /\ writer' \in Writers /\ writer'.at = "idle" /\ writer'.ev = None
           /\ CallGoesOn
           /\ status' \in BOOLEAN
<1>1. writer' = [at |-> "idle", ev |-> None, ref |-> FALSE, failing |-> FALSE]
  BY Zenon DEF EndCall, NoCall
<1>2. status' \in BOOLEAN
  BY Zenon DEF EndCall
<1> QED BY <1>1, <1>2, NoCallFacts, Zenon

LEMMA DrainStopsFacts ==
    ASSUME Types, DrainStops
    PROVE  /\ writer' \in Writers /\ writer'.at \in {"idle", "defer"}
           /\ CallGoesOn
           /\ writer'.at = "defer" => writer'.ev # None
           /\ status' \in BOOLEAN
<1>1. CASE writer.ev = None
  <2>1. EndCall
    BY <1>1, Zenon DEF DrainStops
  <2> QED BY <2>1, EndCallFacts, Zenon
<1>2. CASE writer.ev # None
  <2>1. /\ writer' = [writer EXCEPT !.at = "defer", !.failing = (budget' # budget)]
        /\ status' = status
    BY <1>2, Zenon DEF DrainStops
  <2>2. writer \in Writers /\ (budget' # budget) \in BOOLEAN
    BY DEF Types
  <2>3. /\ writer' \in Writers
        /\ writer'.at = "defer" /\ writer'.ev = writer.ev
    BY <2>1, <2>2, Zenon DEF Writers
  <2>4. writer'.ref = writer.ref
    BY <2>1, <2>2, Zenon DEF Writers
  <2>5. status' \in BOOLEAN
    BY <2>1, Zenon DEF Types
  <2> QED BY <1>2, <2>3, <2>4, <2>5, Zenon DEF CallGoesOn
<1> QED BY <1>1, <1>2, Zenon

LEMMA DrainEndsStep ==
    ASSUME ArchiveInv, DrainEnds
    PROVE  ArchiveInv' /\ StepSafe
<1>1. /\ writer' \in Writers /\ writer'.at = "idle" /\ writer'.ev = None
      /\ CallGoesOn
      /\ status' \in BOOLEAN
  BY EndCallFacts, Zenon DEF DrainEnds
<1>2. Types'
  BY <1>1, Zenon DEF ArchiveInv, Types, DrainEnds, storage, world
<1> QED BY <1>1, <1>2, QuietStep, Zenon DEF DrainEnds, storage

\* A step that appends l leaves no line behind and adds l at most.
LEMMA AppendedFacts ==
    ASSUME Types, JournalInv, NEW l \in Lines, NEW ok \in BOOLEAN, AppendLine(l, ok)
    PROVE  /\ FilesSafe
           /\ \A f \in Files :
                 Range(file'[f]) \subseteq Range(file[f]) \cup {l} \cup {Tombstone, Torn}
<1>1. audit' = audit /\ \A f \in Files : Kindly(file[f], file'[f], {l})
  BY AppendLineFacts, Zenon
<1> QED BY <1>1, Zenon DEF FilesSafe, Kindly

LEMMA StayedInSpool ==
    ASSUME Types, spool' = spool
    PROVE  \A l \in Range(spool) : l.ev \in EventsOf(spool')
BY LineIsPresent, Zenon DEF Types

LEMMA StayedInMemory ==
    ASSUME Types, memory' = memory
    PROVE  \A l \in Range(memory) : l.ev \in EventsOf(memory')
BY LineIsPresent, Zenon DEF Types

LEMMA WriterUpdate ==
    ASSUME Types, NEW at \in {"drain", "unlink"}, writer' = [writer EXCEPT !.at = at]
    PROVE  /\ writer' \in Writers /\ writer'.at = at /\ writer'.ev = writer.ev
           /\ CallGoesOn
<1>1. writer \in Writers
  BY DEF Types
<1>2. writer' \in Writers /\ writer'.at = at /\ writer'.ev = writer.ev
  BY <1>1, Zenon DEF Writers
<1>3. writer'.ref = writer.ref
  BY <1>1, Zenon DEF Writers
<1> QED BY <1>2, <1>3, Zenon DEF CallGoesOn

LEMMA PurgerUnchanged ==
    ASSUME purger' = purger
    PROVE  PurgeGoesOn
BY DEF PurgeGoesOn, Audited

LEMMA DrainAppendStep ==
    ASSUME ArchiveInv, DrainAppend
    PROVE  ArchiveInv' /\ StepSafe
<1> USE DEF ArchiveInv
<1>1. /\ writer.at = "drain" /\ spool # <<>> /\ spool' = spool /\ memory' = memory
      /\ UNCHANGED <<purger, sealer, observed, acked>>
  BY Zenon DEF DrainAppend, world
<1> DEFINE l == Head(spool)
<1>2. l \in Lines /\ l \in Range(spool)
  BY <1>1, LinesOfTail, Zenon DEF Types
<1>3. PICK ok \in BOOLEAN :
        /\ AppendLine(l, ok)
        /\ IF ok THEN writer' = [writer EXCEPT !.at = "unlink"] /\ UNCHANGED status
                 ELSE DrainStops
  BY DEF DrainAppend
<1> HIDE DEF l
<1>4. /\ file' \in [Files -> Seq(Entries)]
      /\ ok => l.ev \in EventsOf(file'[File[l.ev]]) \cup audit
      /\ readonly' \subseteq MonthFiles
      /\ manifest' \in [Files -> Seq(Entries)]
      /\ budget' \in BudgetType
      /\ audit' = audit /\ media' = media
      /\ ~DispositionLocked
      /\ JournalInv'
  BY <1>2, <1>3, AppendLineFacts, Zenon
<1>5. /\ FilesSafe
      /\ \A f \in Files : Range(file'[f]) \subseteq Range(file[f]) \cup {l} \cup {Tombstone, Torn}
  BY <1>2, <1>3, AppendedFacts, Zenon
<1>6. /\ writer' \in Writers /\ status' \in BOOLEAN
      /\ CallGoesOn
      /\ writer'.at = "defer" => writer'.ev # None
      /\ writer'.at = "unlink" => ok
  <2>1. CASE ok
    <3>1. writer' = [writer EXCEPT !.at = "unlink"] /\ status' = status
      BY <1>3, <2>1, Zenon
    <3>2. /\ writer' \in Writers /\ writer'.at = "unlink" /\ CallGoesOn
      BY <3>1, WriterUpdate, Zenon
    <3> QED BY <2>1, <3>1, <3>2, Zenon DEF Types
  <2>2. CASE ~ok
    <3>1. DrainStops
      BY <1>3, <2>2, Zenon
    <3>2. /\ writer' \in Writers /\ writer'.at \in {"idle", "defer"}
          /\ CallGoesOn
          /\ writer'.at = "defer" => writer'.ev # None
          /\ status' \in BOOLEAN
      BY <3>1, DrainStopsFacts, Zenon
    <3> QED BY <3>2, Zenon
  <2> QED BY <2>1, <2>2, Zenon
<1>7. Types'
  <2>1. writer'.ev \in observed \cup {None}
    BY <1>6, Zenon DEF Types, CallGoesOn
  <2> QED BY <1>1, <1>4, <1>6, <2>1, Zenon DEF Types
<1>8. StepSafe
  BY <1>1, <1>5, StayedInSpool, StayedInMemory, Zenon DEF StepSafe
<1>9. UnlinkInv'
  BY <1>1, <1>4, <1>6, Zenon DEF UnlinkInv, Archived, l
<1>10. AckedIsDurable'
  BY <1>1, <1>8, AckKept, ZenonT(30)
<1>11. PurgeInv'
  BY <1>1, <1>4, PurgeWaits, Zenon
<1>12. MediaInv'
  <2>1. /\ AllLines' \subseteq AllLines \cup {} \cup {Tombstone, Torn}
        /\ Range(memory') \subseteq Range(memory) \cup {}
    BY <1>1, <1>2, <1>5 DEF AllLines
  <2>2. {} \in SUBSET {Line(writer.ev, writer.ref)}
    BY Zenon
  <2>3. PurgeGoesOn
    BY <1>1, PurgerUnchanged, Zenon
  <2> QED BY <1>4, <1>6, <2>1, <2>2, <2>3, MediaKept, Zenon
<1> QED BY <1>4, <1>7, <1>8, <1>9, <1>10, <1>11, <1>12, Zenon

LEMMA DrainUnlinkStep ==
    ASSUME ArchiveInv, DrainUnlink
    PROVE  ArchiveInv' /\ StepSafe
<1> USE DEF ArchiveInv
<1>1. /\ writer.at = "unlink"
      /\ UNCHANGED <<file, readonly, manifest, audit, journal, media, memory,
                     purger, sealer, observed, acked>>
      /\ spool # <<>> /\ Archived(Head(spool).ev)
  BY Zenon DEF DrainUnlink, world, UnlinkInv
<1>2. /\ Tail(spool) \in Seq(Lines)
      /\ Head(spool) \in Lines
      /\ Range(spool) = {Head(spool)} \cup Range(Tail(spool))
  BY <1>1, LinesOfTail, Zenon DEF Types
<1>3. /\ spool' \in Seq(Lines)
      /\ Range(spool') \subseteq Range(spool)
      /\ \A l \in Range(spool) : l.ev \in EventsOf(file'[File[l.ev]]) \cup EventsOf(spool') \cup audit'
  <2>1. CASE spool' = Tail(spool)
    <3>1. \A l \in Range(Tail(spool)) : l.ev \in EventsOf(spool')
      BY <1>2, <2>1, LineIsPresent, ZenonT(30)
    <3> QED BY <1>1, <1>2, <2>1, <3>1, Zenon DEF Archived
  <2>2. CASE spool' = spool
    BY <2>2, StayedInSpool, Zenon DEF Types
  <2> QED BY <2>1, <2>2, Zenon DEF DrainUnlink
<1>4. /\ writer' \in Writers /\ status' \in BOOLEAN
      /\ CallGoesOn
      /\ writer'.at = "defer" => writer'.ev # None
      /\ writer'.at # "unlink"
      /\ budget' \in BudgetType
  <2>1. CASE writer' = [writer EXCEPT !.at = "drain"] /\ UNCHANGED <<status, budget>>
    <3>1. writer' \in Writers /\ writer'.at = "drain" /\ CallGoesOn
      BY <2>1, WriterUpdate, Zenon
    <3> QED BY <2>1, <3>1, Zenon DEF Types
  <2>2. CASE DrainStops /\ budget' = Spent("faults")
    <3>1. /\ writer' \in Writers /\ writer'.at \in {"idle", "defer"}
          /\ CallGoesOn
          /\ writer'.at = "defer" => writer'.ev # None
          /\ status' \in BOOLEAN
      BY <2>2, DrainStopsFacts, Zenon
    <3>2. budget' \in BudgetType
      BY <2>2, SpentFacts, ZenonT(30) DEF Types
    <3> QED BY <3>1, <3>2, Zenon
  <2> QED BY <2>1, <2>2, Zenon DEF DrainUnlink
<1>5. Types'
  <2>1. writer'.ev \in observed \cup {None}
    BY <1>4, ZenonT(30) DEF Types, CallGoesOn
  <2> QED BY <1>1, <1>3, <1>4, <2>1, Zenon DEF Types
<1>6. StepSafe
  BY <1>1, <1>3, StayedInMemory, Zenon DEF StepSafe, FilesSafe
<1>7. JournalInv' /\ PurgeInv'
  BY <1>1, JournalKept, PurgeKept, Zenon
<1>8. UnlinkInv'
  BY <1>4, Zenon DEF UnlinkInv
<1>9. AckedIsDurable'
  BY <1>1, <1>6, AckKept, Zenon
<1>10. MediaInv'
  <2>1. /\ AllLines' \subseteq AllLines \cup {} \cup {Tombstone, Torn}
        /\ Range(memory') \subseteq Range(memory) \cup {}
    BY <1>1, <1>3, Zenon DEF AllLines
  <2>2. {} \in SUBSET {Line(writer.ev, writer.ref)}
    OBVIOUS
  <2>3. PurgeGoesOn
    BY <1>1, PurgerUnchanged, ZenonT(30)
  <2> QED BY <1>1, <1>4, <2>1, <2>2, <2>3, MediaKept, ZenonT(30)
<1> QED BY <1>5, <1>6, <1>7, <1>8, <1>9, <1>10, Zenon

LEMMA DrainMemoryStep ==
    ASSUME ArchiveInv, DrainMemory
    PROVE  ArchiveInv' /\ StepSafe
<1> USE DEF ArchiveInv
<1>1. /\ writer.at = "drain" /\ memory # <<>> /\ spool' = spool
      /\ UNCHANGED <<purger, sealer, observed, acked>>
  BY Zenon DEF DrainMemory, world
<1> DEFINE l == Head(memory)
<1>2. /\ l \in Lines /\ l \in Range(memory)
      /\ Tail(memory) \in Seq(Lines) /\ Len(Tail(memory)) = Len(memory) - 1
      /\ Range(memory) = {l} \cup Range(Tail(memory))
      /\ Len(memory) \in Nat
  BY <1>1, LinesOfTail, LinesTyped DEF Types
<1>3. PICK ok \in BOOLEAN :
        /\ AppendLine(l, ok)
        /\ memory' = IF ok THEN Tail(memory) ELSE memory
        /\ IF ok THEN UNCHANGED <<writer, status>> ELSE DrainStops
  BY Zenon DEF DrainMemory
<1> HIDE DEF l
<1>4. /\ file' \in [Files -> Seq(Entries)]
      /\ ok => l.ev \in EventsOf(file'[File[l.ev]]) \cup audit
      /\ readonly' \subseteq MonthFiles
      /\ manifest' \in [Files -> Seq(Entries)]
      /\ budget' \in BudgetType
      /\ audit' = audit /\ media' = media
      /\ ~DispositionLocked
      /\ JournalInv'
  BY <1>2, <1>3, AppendLineFacts, Zenon
<1>5. /\ FilesSafe
      /\ \A f \in Files : Range(file'[f]) \subseteq Range(file[f]) \cup {l} \cup {Tombstone, Torn}
  BY <1>2, <1>3, AppendedFacts, Zenon
<1>6. /\ writer' \in Writers /\ status' \in BOOLEAN
      /\ CallGoesOn
      /\ writer'.at = "defer" => writer'.ev # None
      /\ writer'.at # "unlink"
  <2>1. CASE ok
    <3>1. writer' = writer /\ status' = status
      BY <1>3, <2>1, Zenon
    <3> QED BY <1>1, <3>1, Zenon DEF Types, CallGoesOn
  <2>2. CASE ~ok
    <3>1. DrainStops
      BY <1>3, <2>2, Zenon
    <3>2. /\ writer' \in Writers /\ writer'.at \in {"idle", "defer"}
          /\ CallGoesOn
          /\ writer'.at = "defer" => writer'.ev # None
          /\ status' \in BOOLEAN
      BY <3>1, DrainStopsFacts, Zenon
    <3> QED BY <3>2, Zenon
  <2> QED BY <2>1, <2>2, Zenon
<1>7. /\ memory' \in Seq(Lines) /\ Len(memory') <= MaxPending
      /\ Range(memory') \subseteq Range(memory)
      /\ \A m \in Range(memory) : m.ev \in EventsOf(file'[File[m.ev]]) \cup EventsOf(memory') \cup audit
  <2>1. CASE ok
    <3>1. memory' = Tail(memory)
      BY <1>3, <2>1, Zenon
    <3>2. \A m \in Range(Tail(memory)) : m.ev \in EventsOf(memory')
      BY <1>2, <3>1, LineIsPresent, Zenon
    <3>3. memory' \in Seq(Lines) /\ Len(memory') <= MaxPending
      BY <1>2, <3>1, ArchiveAssumption DEF Types
    <3> QED BY <1>2, <1>4, <2>1, <3>1, <3>2, <3>3, Zenon
  <2>2. CASE ~ok
    <3>1. memory' = memory
      BY <1>3, <2>2, ZenonT(30)
    <3> QED BY <3>1, StayedInMemory, Zenon DEF Types
  <2> QED BY <2>1, <2>2, Zenon
<1>8. Types'
  <2>1. writer'.ev \in observed \cup {None}
    BY <1>6, ZenonT(30) DEF Types, CallGoesOn
  <2> QED BY <1>1, <1>4, <1>6, <1>7, <2>1, Zenon DEF Types
<1>9. StepSafe
  BY <1>1, <1>4, <1>5, <1>7, StayedInSpool, Zenon DEF StepSafe
<1>10. UnlinkInv'
  BY <1>6, Zenon DEF UnlinkInv
<1>11. AckedIsDurable'
  BY <1>1, <1>9, AckKept, Zenon
<1>12. PurgeInv'
  BY <1>1, <1>4, PurgeWaits, Zenon
<1>13. MediaInv'
  <2>1. /\ AllLines' \subseteq AllLines \cup {} \cup {Tombstone, Torn}
        /\ Range(memory') \subseteq Range(memory) \cup {}
    <3>1. Range(spool') = Range(spool) /\ Range(memory') \subseteq Range(memory)
      BY <1>1, <1>7, Zenon
    <3>2. l \in Range(memory)
      BY <1>2, Zenon
    <3>3. \A f \in Files : Range(file'[f]) \subseteq AllLines \cup {Tombstone, Torn}
      BY <1>5, <3>2, Zenon DEF AllLines
    <3>4. AllLines' \subseteq AllLines \cup {Tombstone, Torn}
      BY <3>1, <3>3, Zenon DEF AllLines
    <3> QED BY <3>1, <3>4, Zenon
  <2>2. {} \in SUBSET {Line(writer.ev, writer.ref)}
    OBVIOUS
  <2>3. PurgeGoesOn
    BY <1>1, PurgerUnchanged, Zenon
  <2> QED BY <1>4, <1>6, <2>1, <2>2, <2>3, MediaKept, Zenon
<1> QED BY <1>4, <1>8, <1>9, <1>10, <1>11, <1>12, <1>13, Zenon

\* The line the call brings.
LEMMA CallLine ==
    ASSUME Types, writer.ev # None
    PROVE  /\ Line(writer.ev, writer.ref) \in Lines
           /\ Line(writer.ev, writer.ref).ev = writer.ev
           /\ writer.ev \in observed
<1>1. writer.ev \in Events /\ writer.ref \in BOOLEAN /\ writer.ev \in observed
  BY Zenon DEF Types, Writers
<1>2. Line(writer.ev, writer.ref) \in Lines
  BY <1>1 DEF Lines
<1>3. Line(writer.ev, writer.ref).ev = writer.ev
  BY ZenonT(30) DEF Line
<1> QED BY <1>1, <1>2, <1>3, Zenon

LEMMA WriteStep ==
    ASSUME ArchiveInv, Write
    PROVE  ArchiveInv' /\ StepSafe
<1> USE DEF ArchiveInv
<1>1. /\ writer.at = "drain" /\ writer.ev # None /\ spool' = spool /\ memory' = memory
      /\ UNCHANGED <<purger, sealer, observed>>
  BY Zenon DEF Write, world
<1> DEFINE l == Line(writer.ev, writer.ref)
<1>2. /\ l \in Lines /\ l.ev = writer.ev /\ writer.ev \in observed
  BY <1>1, CallLine, Zenon
<1>3. PICK ok \in BOOLEAN :
        /\ AppendLine(l, ok)
        /\ IF ok THEN EndCall /\ acked' = Acknowledged(writer.ev)
                 ELSE DrainStops /\ UNCHANGED acked
  BY Zenon DEF Write
<1>a. l \in {Line(writer.ev, writer.ref)}
  OBVIOUS
<1> HIDE DEF l
<1>4. /\ file' \in [Files -> Seq(Entries)]
      /\ ok => l.ev \in EventsOf(file'[File[l.ev]]) \cup audit
      /\ readonly' \subseteq MonthFiles
      /\ manifest' \in [Files -> Seq(Entries)]
      /\ budget' \in BudgetType
      /\ audit' = audit /\ media' = media
      /\ ~DispositionLocked
      /\ JournalInv'
  BY <1>2, <1>3, AppendLineFacts, Zenon
<1>5. /\ FilesSafe
      /\ \A f \in Files : Range(file'[f]) \subseteq Range(file[f]) \cup {l} \cup {Tombstone, Torn}
  BY <1>2, <1>3, AppendedFacts, Zenon
<1>6. /\ writer' \in Writers /\ status' \in BOOLEAN
      /\ CallGoesOn
      /\ writer'.at = "defer" => writer'.ev # None
      /\ writer'.at # "unlink"
      /\ acked' \subseteq acked \cup {writer.ev}
      /\ acked' # acked => ok
  <2>1. CASE ok
    <3>1. EndCall /\ acked' = Acknowledged(writer.ev)
      BY <1>3, <2>1, Zenon
    <3>2. /\ writer' \in Writers /\ writer'.at = "idle"
          /\ CallGoesOn /\ status' \in BOOLEAN
      BY <3>1, EndCallFacts, Zenon
    <3>3. acked' \subseteq acked \cup {writer.ev}
      BY <3>1, Zenon DEF Acknowledged
    <3> QED BY <2>1, <3>2, <3>3, Zenon
  <2>2. CASE ~ok
    <3>1. DrainStops /\ acked' = acked
      BY <1>3, <2>2, Zenon
    <3>2. /\ writer' \in Writers /\ writer'.at \in {"idle", "defer"}
          /\ CallGoesOn
          /\ writer'.at = "defer" => writer'.ev # None
          /\ status' \in BOOLEAN
      BY <3>1, DrainStopsFacts, ZenonT(30)
    <3> QED BY <3>1, <3>2, Zenon
  <2> QED BY <2>1, <2>2, Zenon
<1>7. Types'
  <2>1. writer'.ev \in observed \cup {None}
    BY <1>6, Zenon DEF Types, CallGoesOn
  <2>2. acked' \subseteq observed
    BY <1>2, <1>6, Zenon DEF Types
  <2> QED BY <1>1, <1>4, <1>6, <2>1, <2>2, ZenonT(30) DEF Types
<1>8. StepSafe
  BY <1>1, <1>5, StayedInSpool, StayedInMemory, Zenon DEF StepSafe
<1>9. UnlinkInv'
  BY <1>6, Zenon DEF UnlinkInv
<1>10. AckedIsDurable'
  <2>1. \A e \in acked' \ acked :
           e \in EventsOf(file'[File[e]]) \cup EventsOf(spool') \cup audit'
    BY <1>2, <1>4, <1>6, ZenonT(30)
  <2> QED BY <1>8, <2>1, AckKept, ZenonT(30)
<1>11. PurgeInv'
  BY <1>1, <1>4, PurgeWaits, Zenon
<1>12. MediaInv'
  <2>1. /\ AllLines' \subseteq AllLines \cup {l} \cup {Tombstone, Torn}
        /\ Range(memory') \subseteq Range(memory) \cup {l}
    BY <1>1, <1>5 DEF AllLines
  <2>2. {l} \in SUBSET {Line(writer.ev, writer.ref)}
    BY <1>a, Zenon
  <2>3. PurgeGoesOn
    BY <1>1, PurgerUnchanged, Zenon
  <2> QED BY <1>1, <1>4, <1>6, <2>1, <2>2, <2>3, MediaKept, ZenonT(30)
<1> QED BY <1>4, <1>7, <1>8, <1>9, <1>10, <1>11, <1>12

LEMMA LineRemembered ==
    \A s \in Seq(Lines), m \in Lines :
        s \o <<m>> \in Seq(Lines) /\ Range(s \o <<m>>) = Range(s) \cup {m}
<1> SUFFICES ASSUME NEW s \in Seq(Lines), NEW m \in Lines
             PROVE  s \o <<m>> \in Seq(Lines) /\ Range(s \o <<m>>) = Range(s) \cup {m}
  OBVIOUS
<1> QED BY LinesOfAppended

\* What _defer_locked makes of the spool and the memory: every line is in one of
\* them, the queue keeps to its capacity, and only what is spooled is reported.
LEMMA DeferFacts ==
    ASSUME Types, Defer
    PROVE  /\ spool' \in Seq(Lines) /\ memory' \in Seq(Lines)
           /\ Len(memory') <= MaxPending
           /\ budget' \in BudgetType
           /\ Range(spool) \subseteq Range(spool')
           /\ Range(memory) \subseteq Range(spool') \cup Range(memory')
           /\ Range(spool') \subseteq Range(spool) \cup Range(memory)
                                        \cup {Line(writer.ev, writer.ref)}
           /\ Range(memory') \subseteq Range(memory) \cup {Line(writer.ev, writer.ref)}
           /\ acked' \subseteq acked \cup {writer.ev}
           /\ acked' # acked => Line(writer.ev, writer.ref) \in Range(spool')
<1> DEFINE l == Line(writer.ev, writer.ref)
<1>1. writer.ev # None
  BY Zenon DEF Types, Defer
<1>2. l \in Lines
  BY <1>1, CallLine, Zenon
<1>3. PICK k \in 0 .. Len(memory), spooled \in BOOLEAN, failed \in BOOLEAN :
        LET older == SubSeq(memory, k + 1, Len(memory)) IN
        /\ budget' = IF failed /\ ~writer.failing THEN Spent("faults") ELSE budget
        /\ spool' = spool \o SubSeq(memory, 1, k) \o (IF spooled THEN <<l>> ELSE <<>>)
        /\ memory' = IF Retains(writer.ev) /\ ~spooled
                     THEN Remember(older, <<l>>) ELSE older
        /\ acked' = Reported(writer.ev, spooled)
  <2>1. PICK k \in 0 .. Len(memory), written \in BOOLEAN :
          LET e == writer.ev
              older == SubSeq(memory, k + 1, Len(memory))
              enters == EntersSpool(older, e)
              spooled == enters /\ written
              line == <<Line(e, writer.ref)>>
              failed == older # <<>> \/ (enters /\ ~written)
          IN /\ budget' = IF failed /\ ~writer.failing THEN Spent("faults") ELSE budget
             /\ spool' = spool \o SubSeq(memory, 1, k)
                          \o (IF spooled THEN line ELSE <<>>)
             /\ memory' = IF Retains(e) /\ ~spooled
                          THEN Remember(older, line) ELSE older
             /\ acked' = Reported(e, spooled)
    BY ZenonT(30) DEF Defer
  <2> DEFINE older == SubSeq(memory, k + 1, Len(memory))
             enters == EntersSpool(older, writer.ev)
             spooled == enters /\ written
             failed == older # <<>> \/ (enters /\ ~written)
  <2>2. spooled \in BOOLEAN /\ failed \in BOOLEAN
    OBVIOUS
  <2> QED BY <2>1, <2>2, Zenon
<1> DEFINE older == SubSeq(memory, k + 1, Len(memory))
           first == SubSeq(memory, 1, k)
           last == IF spooled THEN <<l>> ELSE <<>>
<1>4. /\ first \in Seq(Lines) /\ older \in Seq(Lines)
      /\ Len(older) <= Len(memory)
      /\ Range(memory) = Range(first) \cup Range(older)
  BY LinesOfSplit DEF Types
<1>5. last \in Seq(Lines) /\ Range(last) = IF spooled THEN {l} ELSE {}
  <2>1. /\ <<l>> \in Seq(Lines) /\ Range(<<l>>) = {l}
        /\ <<>> \in Seq(Lines) /\ Range(<<>>) = {}
    BY <1>2, LinesOfOne, Zenon
  <2> QED BY <2>1, Zenon
<1>6. /\ spool' = (spool \o first) \o last
      /\ memory' = IF Retains(writer.ev) /\ ~spooled THEN Remember(older, <<l>>) ELSE older
  BY <1>3, Zenon
<1> HIDE DEF older, first, last, l
<1>7. spool' \in Seq(Lines) /\ Range(spool') = Range(spool) \cup Range(first) \cup Range(last)
  <2>1. spool \o first \in Seq(Lines) /\ Range(spool \o first) = Range(spool) \cup Range(first)
    BY <1>4, LinesOfConcat DEF Types
  <2> DEFINE most == spool \o first
  <2>2. /\ most \in Seq(Lines) /\ Range(most) = Range(spool) \cup Range(first)
        /\ spool' = most \o last
    BY <1>6, <2>1, Zenon
  <2> HIDE DEF most
  <2>3. most \o last \in Seq(Lines) /\ Range(most \o last) = Range(most) \cup Range(last)
    BY <1>5, <2>2, LinesOfConcat
  <2> QED BY <2>2, <2>3, Zenon
<1>8. /\ memory' \in Seq(Lines) /\ Len(memory') <= MaxPending
      /\ Range(older) \subseteq Range(memory')
      /\ Range(memory') \subseteq Range(older) \cup {l}
  <2>1. Len(older) \in Nat /\ Len(memory) \in Nat /\ Len(older) <= MaxPending /\ MaxPending \in Nat
    BY <1>4, LinesTyped, ArchiveAssumption DEF Types
  <2>2. CASE memory' = older
    BY <1>4, <2>1, <2>2, Zenon
  <2>3. CASE memory' = older \o <<l>> /\ Len(older) < MaxPending
    <3>1. memory' \in Seq(Lines) /\ Range(memory') = Range(older) \cup {l}
      BY <1>2, <1>4, <2>3, LineRemembered, Zenon
    <3>2. Len(memory') = Len(older) + 1
      <4>1. <<l>> \in Seq(Lines) /\ Len(<<l>>) = 1
        BY <1>2, LinesOfOne, Zenon
      <4> QED BY <1>4, <2>3, <4>1, ConcatProperties
    <3> QED BY <2>1, <2>3, <3>1, <3>2, ArchiveAssumption
  <2> QED BY <1>6, <2>2, <2>3, ZenonT(30) DEF Remember
<1>9. budget' \in BudgetType
  <2>1. budget' \in {budget, Spent("faults")}
    BY <1>3, Zenon
  <2> QED BY <2>1, SpentFacts, Zenon DEF Types
<1>10. /\ acked' \subseteq acked \cup {writer.ev}
       /\ acked' # acked => spooled
  BY <1>3, ZenonT(30) DEF Reported, Acknowledged
<1> QED BY <1>4, <1>5, <1>7, <1>8, <1>9, <1>10, ZenonT(30) DEF l

LEMMA DeferStep ==
    ASSUME ArchiveInv, Defer
    PROVE  ArchiveInv' /\ StepSafe
<1> USE DEF ArchiveInv
<1>1. /\ writer.ev # None
      /\ UNCHANGED <<file, readonly, manifest, audit, journal, media,
                     purger, sealer, observed>>
  BY Zenon DEF Defer, world, Types
<1> DEFINE l == Line(writer.ev, writer.ref)
<1>2. l \in Lines /\ l.ev = writer.ev /\ writer.ev \in observed
  BY <1>1, CallLine, Zenon
<1>3. /\ spool' \in Seq(Lines) /\ memory' \in Seq(Lines)
      /\ Len(memory') <= MaxPending
      /\ budget' \in BudgetType
      /\ Range(spool) \subseteq Range(spool')
      /\ Range(memory) \subseteq Range(spool') \cup Range(memory')
      /\ Range(spool') \subseteq Range(spool) \cup Range(memory) \cup {l}
      /\ Range(memory') \subseteq Range(memory) \cup {l}
      /\ acked' \subseteq acked \cup {writer.ev}
      /\ acked' # acked => l \in Range(spool')
  BY DeferFacts, ZenonT(30)
<1>4. /\ writer' \in Writers /\ writer'.at = "idle" /\ writer'.ev = None
      /\ CallGoesOn
      /\ status' \in BOOLEAN
  BY EndCallFacts, Zenon DEF Defer
<1>5. {l} \in SUBSET {Line(writer.ev, writer.ref)}
  BY Zenon
<1> HIDE DEF l
<1>6. Types'
  <2>1. acked' \subseteq observed
    BY <1>2, <1>3, Zenon DEF Types
  <2> QED BY <1>1, <1>3, <1>4, <2>1, Zenon DEF Types
<1>7. StepSafe
  <2>1. \A m \in Range(spool') : m.ev \in EventsOf(spool')
    BY <1>3, LineIsPresent, Zenon
  <2>2. \A m \in Range(memory') : m.ev \in EventsOf(memory')
    BY <1>3, LineIsPresent, Zenon
  <2>3. FilesSafe
    BY <1>1, Zenon DEF FilesSafe
  <2> QED BY <1>3, <2>1, <2>2, <2>3, Zenon DEF StepSafe
<1>8. JournalInv' /\ PurgeInv'
  BY <1>1, JournalKept, PurgeKept, Zenon
<1>9. UnlinkInv'
  BY <1>4, Zenon DEF UnlinkInv
<1>10. AckedIsDurable'
  <2>1. \A e \in acked' \ acked : e \in EventsOf(spool')
    BY <1>2, <1>3, LineIsPresent, Zenon
  <2> QED BY <1>7, <2>1, AckKept, ZenonT(30)
<1>11. MediaInv'
  <2>1. AllLines' \subseteq AllLines \cup {l} \cup {Tombstone, Torn}
    BY <1>1, <1>3, Zenon DEF AllLines
  <2>2. PurgeGoesOn
    BY <1>1, PurgerUnchanged, Zenon
  <2> QED BY <1>1, <1>3, <1>4, <1>5, <2>1, <2>2, MediaKept, ZenonT(30)
<1> QED BY <1>6, <1>7, <1>8, <1>9, <1>10, <1>11

LEMMA WriterCrashStep ==
    ASSUME ArchiveInv, WriterCrash
    PROVE  ArchiveInv' /\ StepSafe
<1> USE DEF ArchiveInv
<1>1. /\ memory' = <<>> /\ writer' = NoCall /\ budget' = Spent("crashes")
      /\ UNCHANGED <<file, readonly, manifest, audit, journal, media, spool,
                     status, purger, sealer, observed, acked>>
  BY Zenon DEF WriterCrash, storage, world
<1>2. /\ writer' \in Writers /\ writer'.at = "idle" /\ writer'.ev = None
      /\ CallGoesOn
  <2>1. writer' = [at |-> "idle", ev |-> None, ref |-> FALSE, failing |-> FALSE]
    BY <1>1, Zenon DEF NoCall
  <2> QED BY <2>1, NoCallFacts, Zenon
<1>3. budget' \in BudgetType /\ budget'.crashes # budget.crashes
  BY <1>1, SpentFacts, Zenon DEF Types
<1>4. /\ memory' \in Seq(Lines) /\ Len(memory') <= MaxPending
      /\ Range(memory') = {}
  BY <1>1, ArchiveAssumption, SMTT(30) DEF Range
<1>5. Types'
  BY <1>1, <1>2, <1>3, <1>4, ZenonT(30) DEF Types
<1>6. StepSafe
  BY <1>1, <1>3, StayedInSpool, Zenon DEF StepSafe, FilesSafe
<1>7. JournalInv' /\ PurgeInv'
  BY <1>1, JournalKept, PurgeKept, Zenon
<1>8. UnlinkInv'
  BY <1>2, Zenon DEF UnlinkInv
<1>9. AckedIsDurable'
  BY <1>1, <1>6, AckKept, Zenon
<1>10. MediaInv'
  <2>1. /\ AllLines' \subseteq AllLines \cup {} \cup {Tombstone, Torn}
        /\ Range(memory') \subseteq Range(memory) \cup {}
    BY <1>1, <1>4, Zenon DEF AllLines
  <2>2. {} \in SUBSET {Line(writer.ev, writer.ref)}
    OBVIOUS
  <2>3. PurgeGoesOn
    BY <1>1, PurgerUnchanged, Zenon
  <2> QED BY <1>1, <1>2, <2>1, <2>2, <2>3, MediaKept, ZenonT(30)
<1> QED BY <1>5, <1>6, <1>7, <1>8, <1>9, <1>10

LEMMA AppendCallStep ==
    ASSUME ArchiveInv, NEW e \in Events, AppendCall(e)
    PROVE  ArchiveInv' /\ StepSafe
<1> USE DEF ArchiveInv
<1>1. /\ observed' = observed \cup {e}
      /\ UNCHANGED <<file, readonly, manifest, audit, journal, spool, memory,
                     status, purger, sealer, acked>>
      /\ Blob[e] # NoBlob => ~purger.guard
  BY DEF AppendCall
<1>2. PICK stored \in IF Blob[e] = NoBlob THEN {FALSE} ELSE BOOLEAN :
        /\ writer' = [at |-> "drain", ev |-> e, ref |-> stored, failing |-> FALSE]
        /\ media' = IF stored THEN media \cup {Blob[e]} ELSE media
        /\ budget' \in {budget, Spent("faults")}
  <2>1. PICK stored \in IF Blob[e] = NoBlob THEN {FALSE} ELSE BOOLEAN :
          /\ writer' = [at |-> "drain", ev |-> e, ref |-> stored, failing |-> FALSE]
          /\ media' = IF stored THEN media \cup {Blob[e]} ELSE media
          /\ IF stored \/ Blob[e] = NoBlob
             THEN UNCHANGED budget
             ELSE MayFail /\ budget' = Spent("faults")
    BY Zenon DEF AppendCall
  <2>2. budget' \in {budget, Spent("faults")}
    BY <2>1, Zenon
  <2> QED BY <2>1, <2>2, Zenon
<1>3. /\ stored \in BOOLEAN
      /\ stored => Blob[e] # NoBlob
  BY <1>2, Zenon
<1>4. /\ writer'.ev = e /\ writer'.at = "drain"
      /\ writer' \in Writers
  <2>1. FALSE \in BOOLEAN
    OBVIOUS
  <2> QED BY <1>2, <1>3, <2>1, Zenon DEF Writers
<1>5. writer'.ref = stored
  BY <1>2, ZenonT(30)
<1>6. budget' \in BudgetType
  BY <1>2, SpentFacts, Zenon DEF Types
<1>7. e # None
  BY ArchiveAssumption, Zenon
<1>8. Types'
  BY <1>1, <1>4, <1>6, <1>7, Zenon DEF Types
<1>9. StepSafe
  BY <1>1, StoresKept, Zenon
<1>10. JournalInv' /\ PurgeInv'
  BY <1>1, JournalKept, PurgeKept, ZenonT(30)
<1>11. UnlinkInv'
  BY <1>4, Zenon DEF UnlinkInv
<1>12. AckedIsDurable'
  BY <1>1, <1>9, AckKept, ZenonT(30)
<1>13. MediaInv'
  <2>1. AllLines' = AllLines /\ media \subseteq media'
    BY <1>1, <1>2, Zenon DEF AllLines
  <2>2. stored => Blob[e] \in media'
    BY <1>2, Zenon
  <2>3. writer'.ref => /\ writer'.ev # None
                       /\ Blob[writer'.ev] # NoBlob
                       /\ Blob[writer'.ev] \in media'
    BY <1>3, <1>4, <1>5, <1>7, <2>2, ZenonT(30)
  <2>4. purger.guard => Blob[writer'.ev] = NoBlob
    BY <1>1, <1>4, Zenon
  <2> QED BY <1>1, <2>1, <2>3, <2>4, ZenonT(30) DEF MediaInv, Needs, Audited
<1> QED BY <1>8, <1>9, <1>10, <1>11, <1>12, <1>13, ZenonT(30)

=============================================================================
