----------------------------- MODULE RawArchive -----------------------------
(***************************************************************************)
(* The raw message archive (yeoman_shared/raw_archive): the writer of the  *)
(* gateway with its spool and its memory queue (writer.py), the owner's    *)
(* purge with its AUDIT line, its publication journal and its recovery     *)
(* (purge.py), and the sealing of finished months (verify.py).  They run   *)
(* in three processes and meet in the files of data/raw.                   *)
(*                                                                         *)
(* A step of the writer is one locked append, one unlink, or the end of a  *)
(* call; purge and seal advance one file operation at a time.  A line that *)
(* is appended is abstracted to the event it records and to whether it     *)
(* references a stored medium; the digest of a file is its contents.       *)
(***************************************************************************)
EXTENDS Integers, Sequences, FiniteSets, Functions

CONSTANTS
    Events,         \* events adapters hand to the archive
    Files,          \* month files and derived files
    MonthFiles,     \* those whose name is a month: they can be sealed
    File,           \* the file an event belongs to (_month_file, destination)
    Chat,           \* the chat an event belongs to
    Blob,           \* the medium of an event, or NoBlob
    NoBlob,
    Source,         \* the message a derived event (a transcript) was made of,
                    \* otherwise the event itself
    Kind,           \* "durable": append_durable; "retained": append;
                    \* "reported": append_media_transcript
    None,
    MaxPending,     \* MAX_MEMORY_PENDING
    Purgeable,      \* events the owner may select
    Budgets         \* bounds: in how many calls the disk may fail, how many
                    \* crashes, purges and verify runs there are, and which
                    \* events happen

ASSUME ArchiveAssumption ==
    /\ MonthFiles \subseteq Files
    /\ File \in [Events -> Files]
    /\ DOMAIN Blob = Events
    /\ Source \in [Events -> Events]
    /\ Kind \in [Events -> {"durable", "retained", "reported"}]
    /\ MaxPending \in Nat \ {0}
    /\ Budgets \subseteq [faults : Nat, crashes : Nat, purges : Nat, seals : Nat,
                         events : SUBSET Events]
    /\ Purgeable \subseteq Events
    /\ None \notin Events

VARIABLES
    file,           \* lines of each file; <<>> where the file does not exist
    readonly,       \* files of mode 0444
    manifest,       \* contents the latest MANIFEST entry vouches for, or <<>>
    audit,          \* events covered by a disposition of AUDIT
    journal,        \* the pending operation of .purge-publications.jsonl
    torn,           \* those of AUDIT and the journal with a fragment in them
    media,          \* stored media
    spool,          \* lines of data/raw-spool, in the order of their names
    memory,         \* self._pending
    status,         \* backlog reported by the last published status file
    writer,         \* the call that runs under self._lock
    purger,         \* the owner's purge
    sealer,         \* yeoman raw verify
    intake,         \* the WhatsApp channel runs (self._running)
    observed,       \* events the Bridge has persisted
    ended,          \* months that are over
    acked,          \* events reported as durably archived
    redelivered,    \* events handed in again after they were reported
    taken,          \* history: pairs of events, the first of which had a line
                    \* no later than the second
    budget          \* faults, crashes, purges and verify runs left

storage == <<file, readonly, manifest, audit, journal, torn, media, spool>>
world == <<intake, observed, ended, redelivered>>
vars == <<file, readonly, manifest, audit, journal, torn, media, spool, memory,
          status, writer, purger, sealer, intake, observed, ended, acked,
          redelivered, taken, budget>>

Line(e, r) == [kind |-> "line", ev |-> e, ref |-> r]
Tombstone == [kind |-> "tombstone", ev |-> None, ref |-> FALSE]
Torn == [kind |-> "torn", ev |-> None, ref |-> FALSE]
Lines == {Line(e, r) : e \in Events, r \in BOOLEAN}

NoCall == [at |-> "idle", ev |-> None, ref |-> FALSE, failing |-> FALSE]
NoPurge == [at |-> "idle", target |-> {}, guard |-> FALSE, plan |-> {}]
NoSeal == [at |-> "idle", f |-> None]
NoOperation == <<>>

Spent(what) == [budget EXCEPT ![what] = @ - 1]
MayFail == budget.faults > 0
MayCrash == budget.crashes > 0

IsSeqOf(s, S) == \A i \in DOMAIN s : s[i] \in S

(* The stores hold lines of events, the writer and the other processes are *)
(* in a state of theirs, and the memory queue respects its capacity.       *)
TypeOK ==
    /\ \A f \in Files :
        IsSeqOf(file[f], Lines \cup {Tombstone, Torn})
    /\ readonly \subseteq MonthFiles
    /\ DOMAIN manifest = Files
    /\ audit \subseteq Events
    /\ DOMAIN journal \subseteq Files
    /\ torn \subseteq {"AUDIT", "journal"} /\ intake \in BOOLEAN
    /\ IsSeqOf(spool, Lines) /\ IsSeqOf(memory, Lines)
    /\ Len(memory) <= MaxPending
    /\ status \in BOOLEAN
    /\ writer \in [at : {"idle", "drain", "unlink", "defer"},
                   ev : Events \cup {None}, ref : BOOLEAN, failing : BOOLEAN]
    /\ purger.at \in {"idle", "wait", "audit", "stage", "publish", "media"}
    /\ sealer \in [at : {"idle", "close", "record"}, f : Files \cup {None}]
    /\ acked \subseteq observed /\ observed \subseteq Events

Init ==
    /\ file = [f \in Files |-> <<>>]
    /\ readonly = {} /\ manifest = [f \in Files |-> <<>>]
    /\ audit = {} /\ journal = NoOperation /\ torn = {} /\ intake = TRUE
    /\ media = {} /\ spool = <<>> /\ memory = <<>> /\ status = FALSE
    /\ writer = NoCall /\ purger = NoPurge /\ sealer = NoSeal
    /\ observed = {} /\ ended = {} /\ acked = {} /\ redelivered = {}
    /\ taken = {}
    /\ budget \in Budgets

(***************************************************************************)
(* What a store holds.                                                     *)
(***************************************************************************)
EventsOf(s) == {s[i].ev : i \in DOMAIN s} \ {None}

(* The media that lines of a set reference.                                *)
References(L) == {Blob[l.ev] : l \in {m \in L : m.kind = "line" /\ m.ref}}

Present(e) ==
    e \in EventsOf(file[File[e]]) \cup EventsOf(spool) \cup EventsOf(memory)

Copies(e) == Cardinality({i \in DOMAIN file[File[e]] : file[File[e]][i].ev = e})

(* The disposition lock: the purge holds it from "audit" on.  An append    *)
(* takes and releases it within one step.                                  *)
DispositionLocked == purger.at \in {"audit", "stage", "publish", "media"}

(* The media guard: the lease of the running call, that of the spool file  *)
(* being drained, and one per line in memory that came with a medium       *)
(* (_MediaPurgeGuard counts them).                                         *)
WriterHoldsGuard ==
    \/ writer.ev # None /\ Blob[writer.ev] # NoBlob
    \/ writer.at = "unlink" /\ Head(spool).ref
    \/ \E i \in DOMAIN memory : Blob[memory[i].ev] # NoBlob

(***************************************************************************)
(* The publication of a purge (_publish_pending): each file is replaced by *)
(* its staged rewrite, and a file that was sealed when it was staged gets  *)
(* a new MANIFEST entry.                                                   *)
(***************************************************************************)
Recoverable ==
    \A f \in DOMAIN journal :
        /\ file[f] \in {journal[f].before, journal[f].after}
        /\ journal[f].sealed =>
            manifest[f] \in {journal[f].before, journal[f].after}

(* _pending_publications reads the journal first; a line of it that is no  *)
(* entry raises, and _publish_pending raises on bytes the entry does not   *)
(* name.                                                                   *)
Settleable == "journal" \notin torn /\ Recoverable

PublishedFile(S) ==
    [f \in Files |-> IF f \in S THEN journal[f].after ELSE file[f]]

PublishedManifest(S) ==
    [f \in Files |->
        IF f \in S /\ journal[f].sealed THEN journal[f].after ELSE manifest[f]]

(* os.replace installs the mode the file had when it was staged.           *)
PublishedMode(S) ==
    (readonly \ {f \in S : file[f] # journal[f].after})
        \cup {f \in S : journal[f].readonly}

(* recover_pending_append: an append settles the pending operation that    *)
(* names its file before it writes.  It is one step: a crash or a fault    *)
(* between two files leaves what a purge that stops there leaves.          *)
SettleNothing(f) == {}
Settle(f) == IF f \in DOMAIN journal /\ Settleable THEN DOMAIN journal ELSE {}

(* What makes append_line raise before it writes: a fragment in the journal *)
(* or in AUDIT (_record_is_disposed), whichever file the line is for, a    *)
(* pending operation of the file that cannot be settled, and mode 0444.    *)
Refused(f) ==
    \/ torn # {}
    \/ f \in DOMAIN journal /\ ~Recoverable
    \/ f \in PublishedMode(Settle(f))

(* append_is_disposed over the AUDIT lines.                                *)
DisposedNever(e) == FALSE
Disposed(e) == e \in audit

(* What append_line leaves at the end of the file: nothing for a disposed  *)
(* record, the line, or, when a write or the fsync fails, nothing, a torn  *)
(* line that the next append separates, or a whole line.                   *)
Extensions(l, ok) ==
    IF Disposed(l.ev) THEN {<<>>}
    ELSE IF ok THEN {<<l>>} ELSE {<<>>, <<Torn>>, <<l>>}

(* append_line under the disposition lock.                                 *)
AppendLine(l, ok) ==
    LET f == File[l.ev]
        settled == Settle(f)
        refused == Refused(f)
    IN /\ ~DispositionLocked
       /\ IF ok THEN ~refused ELSE refused \/ MayFail
       /\ \E more \in (IF refused THEN {<<>>} ELSE Extensions(l, ok)) :
            file' = [PublishedFile(settled) EXCEPT ![f] = @ \o more]
       /\ budget' = IF ok \/ refused THEN budget ELSE Spent("faults")
       /\ manifest' = PublishedManifest(settled)
       /\ readonly' = PublishedMode(settled)
       /\ journal' = IF settled = {} THEN journal ELSE NoOperation
       /\ UNCHANGED <<audit, torn, media>>

(* The history of first lines: the event of which a store now holds one.   *)
Taken(e) == <<e, e>> \in taken

NoteTaken ==
    \E e \in {writer.ev} :
        taken' = IF ~Taken(e) /\ Present(e)'
                 THEN taken \cup {<<d, e>> : d \in {c \in Events : Taken(c)} \cup {e}}
                 ELSE taken

(***************************************************************************)
(* The writer.                                                             *)
(***************************************************************************)
Retains(e) == Kind[e] # "durable"
Reports(e) == Kind[e] # "retained"

(* The Bridge persists an event of the current month in its outbox         *)
(* (broadcastReplayable), where it stays until it is acknowledged.         *)
Observe(e) ==
    /\ Kind[e] = "durable" /\ e \in budget.events \ observed
    /\ File[e] \notin ended
    /\ observed' = observed \cup {e}
    /\ UNCHANGED <<storage, memory, status, writer, purger, sealer, intake,
                   ended, acked, redelivered, taken, budget>>

(* While the channel runs, a durable event is handed in until it is        *)
(* acknowledged (_retry_raw_work, or the replay after a new subscription), *)
(* and once more when the acknowledgement is lost; the other callers hand  *)
(* an event in as it happens, until the archive has taken it, a transcript *)
(* after its message was acknowledged.  The media guard is acquired for    *)
(* the whole call, and a medium that cannot be copied is marked unstored.  *)
AppendCall(e) ==
    /\ writer.at = "idle" /\ e \in budget.events
    /\ IF Kind[e] = "durable"
       THEN intake /\ e \in observed \ redelivered
       ELSE ~Taken(e) /\ File[e] \notin ended /\ Source[e] \in acked \cup {e}
    /\ observed' = observed \cup {e}
    /\ redelivered' = IF e \in acked THEN redelivered \cup {e} ELSE redelivered
    /\ Blob[e] # NoBlob => ~purger.guard
    /\ \E stored \in IF Blob[e] = NoBlob THEN {FALSE} ELSE BOOLEAN :
        /\ writer' = [at |-> "drain", ev |-> e, ref |-> stored, failing |-> FALSE]
        /\ media' = IF stored THEN media \cup {Blob[e]} ELSE media
        /\ IF stored \/ Blob[e] = NoBlob
           THEN UNCHANGED budget
           ELSE MayFail /\ budget' = Spent("faults")
    /\ UNCHANGED <<file, readonly, manifest, audit, journal, torn, spool,
                   memory, status, purger, sealer, intake, ended, acked,
                   taken>>

DrainSpool ==
    /\ writer.at = "idle"
    /\ writer' = [NoCall EXCEPT !.at = "drain"]
    /\ UNCHANGED <<storage, memory, status, purger, sealer, world, acked,
                   taken, budget>>

(* The end of a call: _publish_status_locked, then the lock is released.   *)
EndCall ==
    /\ writer' = NoCall
    /\ status' = (spool' \o memory' # <<>>)

(* After a drain that stopped early a backlog is left: the event of the    *)
(* call is deferred behind it.  A disk that has failed the call may fail   *)
(* its other operations too.                                               *)
DrainStops ==
    IF writer.ev = None THEN EndCall
    ELSE /\ writer' = [writer EXCEPT !.at = "defer", !.failing = budget' # budget]
         /\ UNCHANGED status

(* _drain_locked, first loop: the oldest spool file is appended and, in    *)
(* a step of its own, removed.                                             *)
DrainAppend ==
    /\ writer.at = "drain" /\ spool # <<>>
    /\ UNCHANGED <<spool, memory>>
    /\ \E ok \in BOOLEAN :
        /\ AppendLine(Head(spool), ok)
        /\ IF ok THEN writer' = [writer EXCEPT !.at = "unlink"] /\ UNCHANGED status
                 ELSE DrainStops
    /\ UNCHANGED <<purger, sealer, world, acked, taken>>

DrainUnlink ==
    /\ writer.at = "unlink"
    /\ UNCHANGED <<file, readonly, manifest, audit, journal, torn, media, memory>>
    /\ \/ /\ spool' = Tail(spool)
          /\ writer' = [writer EXCEPT !.at = "drain"]
          /\ UNCHANGED <<status, budget>>
       \/ /\ MayFail /\ budget' = Spent("faults")
          /\ UNCHANGED spool
          /\ DrainStops
    /\ UNCHANGED <<purger, sealer, world, acked, taken>>

(* Second loop: the memory queue, once the spool is empty.                 *)
DrainMemory ==
    /\ writer.at = "drain" /\ spool = <<>> /\ memory # <<>>
    /\ UNCHANGED spool
    /\ \E ok \in BOOLEAN :
        /\ AppendLine(Head(memory), ok)
        /\ memory' = IF ok THEN Tail(memory) ELSE memory
        /\ IF ok THEN UNCHANGED <<writer, status>> ELSE DrainStops
    /\ UNCHANGED <<purger, sealer, world, acked, taken>>

DrainEnds ==
    /\ writer.at = "drain" /\ writer.ev = None /\ spool \o memory = <<>>
    /\ UNCHANGED <<storage, memory>>
    /\ EndCall
    /\ UNCHANGED <<purger, sealer, world, acked, taken, budget>>

(* What a caller that asked for it is told.  A mutated append_durable_async *)
(* loses the result.                                                       *)
AcknowledgedElsewhere(e) == IF Kind[e] = "reported" THEN acked \cup {e} ELSE acked
Acknowledged(e) == IF Reports(e) THEN acked \cup {e} ELSE acked

(* Without a backlog the event goes to its file.                           *)
Write ==
    /\ writer.at = "drain" /\ writer.ev # None /\ spool \o memory = <<>>
    /\ UNCHANGED <<spool, memory>>
    /\ \E ok \in BOOLEAN :
        /\ AppendLine(Line(writer.ev, writer.ref), ok)
        /\ IF ok THEN EndCall /\ acked' = Acknowledged(writer.ev)
                 ELSE DrainStops /\ UNCHANGED acked
    /\ NoteTaken
    /\ UNCHANGED <<purger, sealer, world>>

(* _defer_locked.  The older lines in memory go to the spool first, k of   *)
(* them before a spool write fails.  A line may enter the spool itself     *)
(* only where no older one waits in memory; otherwise it is remembered,    *)
(* unless the caller retries or the queue is full (RawArchiveCapacity-     *)
(* Error).                                                                 *)
EntersSpoolAlways(older, e) == TRUE
EntersSpool(older, e) == older = <<>> /\ (memory = <<>> \/ ~Retains(e))

(* What the call tells its caller: a line in memory is not durable.        *)
ReportedDeferred(e, spooled) == Acknowledged(e)
Reported(e, spooled) == IF spooled THEN Acknowledged(e) ELSE acked

(* _remember_locked: a full queue takes nothing and raises RawArchive-     *)
(* CapacityError.                                                          *)
RememberEvicting(older, line) ==
    IF Len(older) < MaxPending THEN older \o line ELSE Tail(older) \o line
Remember(older, line) ==
    IF Len(older) < MaxPending THEN older \o line ELSE older

(* Who records an outgoing command (_send_command) stops the channel on    *)
(* that error (_stop_for_raw_archive_capacity); around a transcript it     *)
(* only ends the projection of its message.                                *)
StopsIntake(e, older) == Kind[e] = "retained" /\ Len(older) >= MaxPending

Defer ==
    /\ writer.at = "defer"
    /\ \E k \in 0 .. Len(memory), written \in BOOLEAN :
        LET e == writer.ev
            older == SubSeq(memory, k + 1, Len(memory))
            enters == EntersSpool(older, e)
            spooled == enters /\ written
            line == <<Line(e, writer.ref)>>
            failed == older # <<>> \/ (enters /\ ~written)
        IN /\ enters \/ written
           /\ failed => writer.failing \/ MayFail
           /\ budget' = IF failed /\ ~writer.failing THEN Spent("faults") ELSE budget
           /\ spool' = spool \o SubSeq(memory, 1, k)
                        \o (IF spooled THEN line ELSE <<>>)
           /\ memory' = IF Retains(e) /\ ~spooled
                        THEN Remember(older, line) ELSE older
           /\ intake' = (intake /\ (spooled \/ ~StopsIntake(e, older)))
           /\ acked' = Reported(e, spooled)
    /\ UNCHANGED <<file, readonly, manifest, audit, journal, torn, media>>
    /\ NoteTaken
    /\ EndCall
    /\ UNCHANGED <<purger, sealer, observed, ended, redelivered>>

(* The gateway stops and is started again: what only its memory held is    *)
(* gone, and the channel runs and subscribes anew.  Nothing else starts a  *)
(* channel that has stopped.                                               *)
WriterCrash ==
    /\ MayCrash /\ (writer.at # "idle" \/ memory # <<>> \/ ~intake)
    /\ budget' = Spent("crashes")
    /\ memory' = <<>> /\ writer' = NoCall /\ intake' = TRUE
    /\ UNCHANGED <<storage, status, purger, sealer, observed, ended,
                   redelivered, acked>>
    /\ taken' = {p \in taken : \A i \in {1, 2} : Present(p[i])' \/ p[i] \in audit}

(***************************************************************************)
(* The owner's purge.                                                      *)
(***************************************************************************)
OthersUnchanged ==
    UNCHANGED <<spool, memory, status, writer, sealer, world, acked, taken>>

(* derived_from_disposed: what was made of a message goes with it, also    *)
(* when it is made after the cutoff.                                       *)
WithDerived(T, S) == T \cup {e \in Events : Source[e] \in T \cap S}

(* A chat purge is cut off at the time of the call; a message purge names  *)
(* one message.                                                            *)
Targets ==
    {{e \in observed : Chat[e] = Chat[o]} : o \in observed \cap Purgeable}
        \cup {WithDerived({o}, Events) : o \in observed \cap Purgeable}

PurgeCall(T) ==
    /\ purger.at = "idle" /\ budget.purges > 0
    /\ purger' = [NoPurge EXCEPT !.at = "wait", !.target = T]
    /\ budget' = Spent("purges")
    /\ UNCHANGED <<file, readonly, manifest, audit, journal, torn, media>>
    /\ OthersUnchanged

(* The disposition lock, try_lock_media_purge, _recover_pending over every *)
(* file, and _build_predicate: a chat purge learns the identities of its   *)
(* messages from the files.                                                *)
PurgeLock ==
    /\ purger.at = "wait" /\ Settleable
    /\ file' = PublishedFile(DOMAIN journal)
    /\ purger' = [purger EXCEPT
            !.at = "audit", !.guard = ~WriterHoldsGuard,
            !.target = WithDerived(@, UNION {EventsOf(file'[f]) : f \in Files})]
    /\ manifest' = PublishedManifest(DOMAIN journal)
    /\ readonly' = PublishedMode(DOMAIN journal)
    /\ journal' = NoOperation
    /\ UNCHANGED <<audit, torn, media, budget>>
    /\ OthersUnchanged

(* _recover_pending raises.                                                *)
PurgeRefused ==
    /\ purger.at = "wait" /\ ~Settleable
    /\ purger' = NoPurge
    /\ UNCHANGED <<file, readonly, manifest, audit, journal, torn, media, budget>>
    /\ OthersUnchanged

(* _unreferenced_media_locked: media of the selected lines that no other   *)
(* line of the archive or of the spool references; a line that cannot be   *)
(* parsed keeps everything.                                                *)
Selected(f) == {l \in Range(file[f]) : l.ev \in purger.target}
Kept(f) == {l \in Range(file[f]) : l.ev \notin purger.target}

UnreferencedInFiles ==
    (UNION {References(Selected(f)) : f \in Files})
        \ (UNION {References(Kept(f)) : f \in Files})

UnreferencedMedia ==
    IF \/ ~purger.guard
       \/ \E f \in Files : Torn \in Range(file[f])
    THEN {}
    ELSE (UNION {References(Selected(f)) : f \in Files})
            \ (References(Range(spool))
                  \cup UNION {References(Kept(f)) : f \in Files})

(* The AUDIT line is written before any file changes.                      *)
PurgeAudit ==
    /\ purger.at = "audit"
    /\ audit' = audit \cup purger.target
    /\ purger' = [purger EXCEPT !.at = "stage", !.plan = UnreferencedMedia]
    /\ UNCHANGED <<file, readonly, manifest, journal, torn, media, budget>>
    /\ OthersUnchanged

(* _stage_rewrite: a tombstone in the slot of every selected line.         *)
Erased(s) ==
    [i \in DOMAIN s |-> IF s[i].ev \in purger.target THEN Tombstone ELSE s[i]]

(* The files a purge rewrites.                                             *)
HitsInMonths == {f \in MonthFiles : Selected(f) # {}}
Hits == {f \in Files : Selected(f) # {}}

SealBroken == \E f \in Hits : manifest[f] \notin {<<>>, file[f]}

(* The rewrites are staged and journalled; a sealed file whose bytes are   *)
(* not those of its MANIFEST entry stops the purge.  MANIFEST, modes and   *)
(* bytes are read one after the other, but the bytes are locked and a file *)
(* sealed meanwhile is as good as sealed afterwards.                       *)
PurgeStage ==
    /\ purger.at = "stage"
    /\ IF SealBroken
       THEN purger' = NoPurge /\ UNCHANGED journal
       ELSE /\ purger' = [purger EXCEPT
                    !.at = IF Hits = {} THEN "media" ELSE "publish"]
            /\ journal' =
                [f \in Hits |-> [before |-> file[f], after |-> Erased(file[f]),
                                 sealed |-> manifest[f] # <<>>,
                                 readonly |-> f \in readonly]]
    /\ UNCHANGED <<file, readonly, manifest, audit, torn, media, budget>>
    /\ OthersUnchanged

(* _publish_pending: os.replace, then the new MANIFEST entry, per file.    *)
PurgeReplace(f) ==
    /\ purger.at = "publish" /\ Recoverable
    /\ file[f] # journal[f].after
    /\ file' = PublishedFile({f})
    /\ readonly' = PublishedMode({f})
    /\ UNCHANGED <<manifest, audit, journal, torn, media, budget, purger>>
    /\ OthersUnchanged

PurgeRecord(f) ==
    /\ purger.at = "publish" /\ file[f] = journal[f].after
    /\ manifest # PublishedManifest({f})
    /\ manifest' = PublishedManifest({f})
    /\ UNCHANGED <<file, readonly, audit, journal, torn, media, budget, purger>>
    /\ OthersUnchanged

Published ==
    /\ file = PublishedFile(DOMAIN journal)
    /\ manifest = PublishedManifest(DOMAIN journal)

PurgeComplete ==
    /\ purger.at = "publish" /\ Published
    /\ journal' = NoOperation
    /\ purger' = [purger EXCEPT !.at = "media"]
    /\ UNCHANGED <<file, readonly, manifest, audit, torn, media, budget>>
    /\ OthersUnchanged

PurgeMedia ==
    /\ purger.at = "media"
    /\ media' = media \ purger.plan
    /\ purger' = NoPurge
    /\ UNCHANGED <<file, readonly, manifest, audit, journal, torn, budget>>
    /\ OthersUnchanged

(* The bookkeeping file the purge is appending to (append_protected).      *)
Appending ==
    CASE purger.at = "audit" -> {"AUDIT"}
      [] purger.at = "stage" /\ Hits # {} /\ ~SealBroken -> {"journal"}
      [] purger.at = "publish" /\ Published -> {"journal"}
      [] OTHER -> {}

(* A crash, or an operation of its own that fails, ends the purge; one in  *)
(* the middle of an append leaves a fragment.                              *)
PurgeCrash ==
    /\ MayCrash /\ purger.at \notin {"idle", "wait"}
    /\ purger' = NoPurge
    /\ \E fragment \in {{}, Appending} : torn' = torn \cup fragment
    /\ budget' = Spent("crashes")
    /\ UNCHANGED <<file, readonly, manifest, audit, journal, media>>
    /\ OthersUnchanged

(***************************************************************************)
(* Sealing, which takes none of the locks.                                 *)
(***************************************************************************)
SealUnchanged ==
    UNCHANGED <<file, audit, journal, torn, media, spool, memory, status,
                writer, purger, intake, observed, redelivered, acked, taken>>

Unsealed == {f \in ended : file[f] # <<>> /\ manifest[f] = <<>>}

(* verify_archive seals only without a backlog, as the spool directory and *)
(* the published status tell.  The months that are over by now are those   *)
(* it may seal.                                                            *)
SealCheck ==
    /\ sealer.at = "idle" /\ budget.seals > 0
    /\ spool = <<>> /\ ~status
    /\ ended' = MonthFiles
    /\ sealer' = [sealer EXCEPT !.at = "close"]
    /\ budget' = Spent("seals")
    /\ UNCHANGED <<readonly, manifest>>
    /\ SealUnchanged

(* close_months: chmod 0444, then record_closed digests the file.          *)
SealChmod(f) ==
    /\ sealer.at = "close" /\ f \in Unsealed
    /\ readonly' = readonly \cup {f}
    /\ sealer' = [at |-> "record", f |-> f]
    /\ UNCHANGED <<manifest, ended, budget>>
    /\ SealUnchanged

SealRecord ==
    /\ sealer.at = "record"
    /\ manifest' = [manifest EXCEPT ![sealer.f] = file[sealer.f]]
    /\ sealer' = [at |-> "close", f |-> None]
    /\ UNCHANGED <<readonly, ended, budget>>
    /\ SealUnchanged

SealEnds ==
    /\ sealer.at = "close" /\ Unsealed = {}
    /\ sealer' = NoSeal
    /\ UNCHANGED <<readonly, manifest, ended, budget>>
    /\ SealUnchanged

SealCrash ==
    /\ MayCrash /\ sealer.at = "record"
    /\ sealer' = NoSeal
    /\ budget' = Spent("crashes")
    /\ UNCHANGED <<readonly, manifest, ended>>
    /\ SealUnchanged

WriterStep ==
    \/ DrainAppend \/ DrainUnlink \/ DrainMemory \/ DrainEnds
    \/ Write \/ Defer

PurgeStep ==
    \/ PurgeLock \/ PurgeRefused \/ PurgeAudit \/ PurgeStage
    \/ PurgeComplete \/ PurgeMedia
    \/ \E f \in DOMAIN journal : PurgeReplace(f) \/ PurgeRecord(f)

SealStep == SealRecord \/ SealEnds \/ \E f \in MonthFiles : SealChmod(f)

Next ==
    \/ \E e \in Events : Observe(e) \/ AppendCall(e)
    \/ DrainSpool \/ WriterStep \/ WriterCrash
    \/ \E T \in Targets : PurgeCall(T)
    \/ PurgeStep \/ PurgeCrash
    \/ SealCheck \/ SealStep \/ SealCrash

Spec == Init /\ [][Next]_vars

(* A call that holds the writer's lock, a purge and a verify run go on,    *)
(* and the history projector drains the spool at every fence.  While the   *)
(* channel runs it tries an event again until it is acknowledged, and the  *)
(* lock of the writer lets it through in the end.  Nobody has to start a   *)
(* channel that has stopped.                                               *)
FairSpec ==
    /\ Spec
    /\ WF_vars(WriterStep) /\ WF_vars(PurgeStep) /\ WF_vars(SealStep)
    /\ WF_vars(DrainSpool)
    /\ \A e \in {d \in Events : Kind[d] = "durable"} : SF_vars(AppendCall(e))

(***************************************************************************)
(* Properties.                                                             *)
(***************************************************************************)

(* An event the archive has reported as durable (append_durable, append_-  *)
(* media_transcript returned true, and the Bridge has dropped its copy) is *)
(* in its file, in the spool, or disposed by the owner; whatever crashed   *)
(* in between.                                                             *)
AckedIsDurable ==
    \A e \in acked :
        \/ e \in EventsOf(file[File[e]]) \cup EventsOf(spool)
        \/ e \in audit

(* A line is never lost except by the owner's disposition or by a crash    *)
(* that empties the memory: a purge that rewrites a file loses no          *)
(* concurrent append, and a full queue evicts nothing.                     *)
NothingDropped ==
    [][\A e \in Events :
        Present(e) => \/ Present(e)'
                      \/ e \in audit'
                      \/ budget'.crashes # budget.crashes]_vars

(* "Both drain, oldest first": two events of one file stand in the order   *)
(* in which the archive took them, wherever each of them is by now.        *)
Ahead(s, d, e) ==
    \E i \in DOMAIN s : s[i].ev = d /\ \A j \in 1 .. i : s[j].ev # e

Before(d, e) == Ahead(file[File[d]] \o spool \o memory, d, e)

OrderKept ==
    \A d, e \in Events :
        /\ <<d, e>> \in taken /\ d # e
        /\ File[d] = File[e] /\ {d, e} \cap audit = {}
        => Before(d, e) /\ Present(e)

(* Content the owner has purged does not come back: from the moment the    *)
(* AUDIT line is written no drain, retry or redelivery adds a line of it   *)
(* to a file.                                                              *)
NoResurrection ==
    [][\A e \in audit : Copies(e)' <= Copies(e)]_vars

(* When a purge gets past its publication no line of its target is left in *)
(* any file, also where it had to finish another purge that had crashed.   *)
(* (A torn line has no identity that the purge could match: it stays.)     *)
PurgeErases ==
    purger.at = "media" => \A e \in purger.target : Copies(e) = 0

(* The digests that _publish_pending compares agree as long as an          *)
(* operation is pending: whatever appends, drains, seals, crashes and      *)
(* other purges come between its journalling and its recovery, the files   *)
(* and MANIFEST entries it names have their old or their new contents.     *)
(* (What can keep it from being settled is a fragment in the journal:      *)
(* then every append is refused and spooled, and every purge raises.)      *)
PendingUntouched == Recoverable

(* No line that is in a file, in the spool or in memory, and that the      *)
(* owner has not purged, references a medium that is gone.                 *)
ReferencesExist ==
    LET lines == Range(spool) \cup Range(memory)
                    \cup UNION {Range(file[f]) : f \in Files}
    IN References({l \in lines : l.ev \notin audit}) \subseteq media

(* What the Bridge holds back is archived in the end, provided that a      *)
(* channel that a full memory queue has stopped is started again some day. *)
DurableIsAcked ==
    []<>intake =>
        \A e \in {d \in Events : Kind[d] = "durable"} :
            e \in observed ~> e \in acked

(* A file with a MANIFEST entry has the contents the entry vouches for,    *)
(* except while a purge that knows of the seal is replacing it.            *)
SealedMatches ==
    \A f \in MonthFiles :
        \/ manifest[f] \in {<<>>, file[f]}
        \/ f \in DOMAIN journal /\ journal[f].sealed

(* The spool "drains, oldest first, on the next append" (writer.py) or at   *)
(* the next fence of the projector: it does not stay filled for ever.      *)
BacklogDrains == [](spool # <<>> => <>(spool = <<>>))

=============================================================================
