---------------------------- MODULE MCRawArchive ----------------------------
(***************************************************************************)
(* Events for the raw archive: a WhatsApp event and an outgoing command of *)
(* the same month that share a medium but not a chat, the transcript of    *)
(* the first in the derived file, and the result of the second.            *)
(***************************************************************************)
EXTENDS RawArchive, TLC

CONSTANTS wa, out, res, tr, month, derived, blob, ann, ben

Budget(f, c, p, s) ==
    [faults |-> f, crashes |-> c, purges |-> p, seals |-> s,
     events |-> {wa, out, tr}]

(* Which faults are combined: two calls with a failing disk, enough to     *)
(* fill the memory queue and to stop the channel, and a crash; a fault, a  *)
(* crash and a purge; two purges of which one may crash; a month sealed    *)
(* beside two purges; a crash or a fault while a month is sealed.          *)
MCBudgets ==
    {[Budget(2, 1, 0, 0) EXCEPT !.events = {wa, out, res}],
     Budget(2, 1, 0, 0), Budget(1, 1, 1, 0), Budget(0, 1, 2, 0),
     Budget(0, 0, 2, 1), Budget(0, 1, 1, 1), Budget(1, 1, 0, 1)}

(* More of each, for the safety properties.                                *)
WideBudgets ==
    {Budget(2, 0, 1, 0), Budget(1, 0, 1, 1)}

SealBesidePurge == {Budget(0, 0, 1, 1)}
SealOnly == {Budget(0, 0, 0, 1)}

MCFile == (wa :> month) @@ (out :> month) @@ (res :> month) @@ (tr :> derived)
MCChat == (wa :> ann) @@ (out :> ben) @@ (res :> ben) @@ (tr :> ann)
MCBlob == (wa :> blob) @@ (out :> blob) @@ (res :> NoBlob) @@ (tr :> NoBlob)
MCSource == (wa :> wa) @@ (out :> out) @@ (res :> res) @@ (tr :> wa)
MCKind ==
    (wa :> "durable") @@ (out :> "retained") @@ (res :> "retained") @@ (tr :> "reported")

=============================================================================
