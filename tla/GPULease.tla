------------------------------ MODULE GPULease ------------------------------
(***************************************************************************)
(* What the Dispatcher promises its clients, without queue, worker, clock, *)
(* services or engines: one GPU, held by at most one request at a time.    *)
(*                                                                         *)
(* A request waits, may come to hold the GPU, and ends; an ended request   *)
(* stays ended until it is forgotten.  The GPU has a holder or none.  When *)
(* it can no longer be told whether the holder is gone, the GPU is lost:   *)
(* its holder stays its holder and nobody else gets it until the service   *)
(* is reset, which ends every lease at once.  GPUDispatcher implements     *)
(* this specification under the mapping given there.                       *)
(***************************************************************************)
CONSTANTS Requests, NoRequest

VARIABLES
  phase,   \* of each request: unknown, waiting, holding, ended
  holder,  \* who has the GPU
  gpu      \* checking (not known to be free yet), usable, lost

vars == <<phase, holder, gpu>>

\* What may happen to a request other than being admitted or served: a
\* waiting one ends, an ended one is forgotten unless it is the holder.
Tidied(r, before, after) ==
  \/ after = before
  \/ before = "waiting" /\ after = "ended"
  \/ before = "ended" /\ after = "unknown" /\ r # holder

Tidy(Others) == \A r \in Others : Tidied(r, phase[r], phase'[r])

PhaseIsTotal ==
  phase' \in [Requests -> {"unknown", "waiting", "holding", "ended"}]

\* Requests end while they wait, and old ones are forgotten.
Housekeeping ==
  /\ PhaseIsTotal
  /\ Tidy(Requests)
  /\ UNCHANGED <<holder, gpu>>

\* A request is admitted only while the GPU is usable.
Admit(r) ==
  /\ gpu = "usable"
  /\ phase[r] = "unknown"
  /\ PhaseIsTotal
  /\ phase'[r] = "waiting"
  /\ Tidy(Requests \ {r})
  /\ UNCHANGED <<holder, gpu>>

\* A request that was cancelled before it arrived.
Refuse(r) ==
  /\ phase[r] = "unknown"
  /\ PhaseIsTotal
  /\ phase'[r] = "ended"
  /\ Tidy(Requests \ {r})
  /\ UNCHANGED <<holder, gpu>>

\* The GPU goes to a waiting request, and only when nobody has it.
Grant(r) ==
  /\ gpu = "usable"
  /\ holder = NoRequest
  /\ phase[r] = "waiting"
  /\ PhaseIsTotal
  /\ phase'[r] = "holding"
  /\ Tidy(Requests \ {r})
  /\ holder' = r
  /\ UNCHANGED gpu

GiveBack ==
  /\ holder # NoRequest
  /\ phase[holder] = "holding"
  /\ phase' = [phase EXCEPT ![holder] = "ended"]
  /\ holder' = NoRequest
  /\ UNCHANGED gpu

\* The holder cannot be shown to be gone.  Its request may end, the GPU does
\* not become free.
Lose ==
  /\ gpu = "usable"
  /\ holder # NoRequest
  /\ phase[holder] = "holding"
  /\ \/ UNCHANGED phase
     \/ phase' = [phase EXCEPT ![holder] = "ended"]
  /\ gpu' = "lost"
  /\ UNCHANGED holder

\* The check that comes first finds the GPU free, or cannot tell.
Checked ==
  /\ gpu = "checking"
  /\ gpu' \in {"usable", "lost"}
  /\ UNCHANGED <<phase, holder>>

Reset ==
  /\ phase' = [r \in Requests |-> "unknown"]
  /\ holder' = NoRequest
  /\ gpu' = "checking"

Init ==
  /\ phase = [r \in Requests |-> "unknown"]
  /\ holder = NoRequest
  /\ gpu = "checking"

Next ==
  \/ Housekeeping
  \/ \E r \in Requests : Admit(r) \/ Refuse(r) \/ Grant(r)
  \/ GiveBack \/ Lose \/ Checked \/ Reset

Spec == Init /\ [][Next]_vars

=============================================================================
