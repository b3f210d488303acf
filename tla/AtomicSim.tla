----------------------------- MODULE AtomicSim -----------------------------
(***************************************************************************)
(* What a simulation promises to concurrent callers of the API: it is one  *)
(* history, and a request either adds its whole block of events to that    *)
(* history in one step and is answered "ok", or adds nothing and is        *)
(* answered otherwise.  No copy, version or retry is visible.  What a      *)
(* reader is shown is the history as some whole operation left it: the     *)
(* present one, unless a request that had nothing to add has put an older  *)
(* one back.                                                               *)
(***************************************************************************)
EXTENDS Commands

CONSTANTS Clients, Answers

VARIABLES
  hist,   \* the history
  shown,  \* what readers are shown of it
  cuts,   \* the lengths it had between operations
  asked,  \* asked[c]: the kind of client c's latest request
  resp    \* resp[c]: the latest answer to client c, "none" while it waits

\* Block b as client c adds it to history h.
Stamp(c, h, b) ==
  [i \in 1..Len(b) |-> [kind |-> b[i], by |-> c, at |-> Len(h) + i - 1]]

Init ==
  /\ hist = <<>> /\ shown = <<>> /\ cuts = {0}
  /\ asked = [c \in Clients |-> "create"]
  /\ resp = [c \in Clients |-> "none"]

Ask(c) ==
  /\ \E r \in Requests : asked' = [asked EXCEPT ![c] = r]
  /\ resp' = [resp EXCEPT ![c] = "none"]
  /\ UNCHANGED <<hist, shown, cuts>>

\* The precondition and the block are those of the history, not of what
\* happens to be shown.
Serve(c) ==
  /\ Allowed(asked[c], hist)
  /\ \E b \in Blocks(asked[c], hist) : hist' = hist \o Stamp(c, hist, b)
  /\ shown' = hist'
  /\ cuts' = cuts \cup {Len(hist')}
  /\ resp' = [resp EXCEPT ![c] = "ok"]
  /\ UNCHANGED asked

\* A decompose that found nothing: served, and an older state shown.
Miss(c) ==
  /\ asked[c] = "decompose"
  /\ \E n \in cuts \ {0} : shown' = SubSeq(hist, 1, n)
  /\ resp' = [resp EXCEPT ![c] = "ok"]
  /\ UNCHANGED <<hist, cuts, asked>>

Decline(c) ==
  /\ \E a \in Answers \ {"none", "ok"} : resp' = [resp EXCEPT ![c] = a]
  /\ UNCHANGED <<hist, shown, cuts, asked>>

Next == \E c \in Clients : Ask(c) \/ Serve(c) \/ Miss(c) \/ Decline(c)

Spec == Init /\ [][Next]_<<hist, shown, cuts, asked, resp>>
=============================================================================
