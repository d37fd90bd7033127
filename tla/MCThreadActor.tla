---------------------------- MODULE MCThreadActor -----------------------------
(* ThreadActor for TLC: the threads of a chat are interchangeable, and so are *)
(* the messages that make the same tool calls.                               *)
EXTENDS ThreadActor, TLC

Symmetry == Permutations(Threads) \cup Permutations(Senders)
                                    \cup Permutations(Events \ Senders)

=============================================================================
