------------------------------ MODULE FrameQueue ------------------------------
(***************************************************************************)
(* What the capture path of a VIN video node promises its application: a     *)
(* pool of buffers, each with one owner at a time, where the hardware writes  *)
(* only into buffers the driver holds, and buffers filled by the driver are   *)
(* taken out in the order they were finished.                               *)
(***************************************************************************)
EXTENDS Sequences, FiniteSets

CONSTANT Buffers

VARIABLES
  owner,    (* who holds each buffer                                        *)
  writing,  (* the buffers the hardware writes to now or next                *)
  ready     (* finished buffers, oldest first                               *)

vars == <<owner, writing, ready>>

Owners == {"none", "app", "waiting", "driver", "ready", "returned"}

Owned(o) == {b \in Buffers : owner[b] = o}

Init ==
  /\ owner = [b \in Buffers |-> "none"]
  /\ writing = {} /\ ready = <<>>

(* The buffers are allocated together, when none of them exists.             *)
Allocate ==
  /\ Owned("none") = Buffers
  /\ owner' = [b \in Buffers |-> "app"]
  /\ UNCHANGED <<writing, ready>>

(* The application gives a buffer to a stream that has not started yet, or    *)
(* to one that runs; starting the stream passes the waiting ones on.          *)
Give(b, to) ==
  /\ owner[b] = "app" /\ to \in {"waiting", "driver"}
  /\ owner' = [owner EXCEPT ![b] = to]
  /\ UNCHANGED <<writing, ready>>

Start ==
  /\ owner' = [b \in Buffers |-> IF owner[b] = "waiting" THEN "driver" ELSE owner[b]]
  /\ UNCHANGED <<writing, ready>>

(* The driver points the hardware at buffers it holds, or at none.           *)
Aim ==
  /\ writing' \in SUBSET Owned("driver")
  /\ UNCHANGED <<owner, ready>>

(* A buffer is finished only when the hardware has left it.                  *)
Finish(b) ==
  /\ owner[b] = "driver" /\ b \notin writing
  /\ owner' = [owner EXCEPT ![b] = "ready"]
  /\ ready' = Append(ready, b)
  /\ UNCHANGED writing

(* The application takes finished buffers in order, during the stream or not. *)
Take ==
  /\ ready # <<>>
  /\ owner' = [owner EXCEPT ![Head(ready)] = "app"]
  /\ ready' = Tail(ready)
  /\ UNCHANGED writing

(* The end of a stream: the hardware has stopped, the driver returns all it   *)
(* holds, and then every buffer is freed.                                    *)
Return ==
  /\ writing = {}
  /\ owner' = [b \in Buffers |-> IF owner[b] = "driver" THEN "returned" ELSE owner[b]]
  /\ UNCHANGED <<writing, ready>>

Free ==
  /\ writing = {} /\ Owned("driver") = {}
  /\ owner' = [b \in Buffers |-> "none"]
  /\ ready' = <<>>
  /\ UNCHANGED writing

Next ==
  \/ Allocate \/ Start \/ Aim \/ Take \/ Return \/ Free
  \/ \E b \in Buffers : Finish(b) \/ \E to \in {"waiting", "driver"} : Give(b, to)

Spec == Init /\ [][Next]_vars
=============================================================================
