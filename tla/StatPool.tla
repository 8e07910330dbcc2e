------------------------------- MODULE StatPool -------------------------------
(***************************************************************************)
(* What the statistics buffers promise an application: it is given the whole  *)
(* statistics of one frame, each of them once, and keeps them untouched for   *)
(* as long as it copies, while the ISP fills the other buffers.               *)
(***************************************************************************)
CONSTANTS
  Buffers,
  None,     (* no buffer                                                    *)
  Strays    (* whether the driver may lose track of a buffer                *)

VARIABLES
  filling,  (* the buffer that the ISP fills, or None                       *)
  taken,    (* the buffer that an application copies, or None               *)
  whole,    (* the buffers with the statistics of one whole frame           *)
  stray     (* the buffers that the driver has lost track of: for them       *)
            (* nothing is promised                                          *)

vars == <<filling, taken, whole, stray>>

Init == filling = None /\ taken = None /\ whole = {} /\ stray = {}

(* The driver finds a stray buffer again: one that is being copied only when   *)
(* it keeps the promise from then on.                                        *)
Settle ==
  /\ stray' \in SUBSET stray
  /\ taken \in stray \ stray' => taken \in whole' /\ taken # filling'

(* A frame begins.                                                          *)
Begin(b) ==
  /\ filling = None /\ (b # taken \/ b \in stray)
  /\ filling' = b /\ whole' = whole \ {b}
  /\ UNCHANGED <<taken, stray>>

(* It ends, or is cut off with the stream.                                   *)
Complete ==
  /\ filling # None
  /\ filling' = None /\ whole' = whole \cup {filling}
  /\ Settle /\ UNCHANGED taken

Stop ==
  /\ filling # None
  /\ filling' = None
  /\ UNCHANGED <<taken, whole, stray>>

(* The application takes whole statistics that are not written over, copies    *)
(* them and gives the buffer back: nobody gets them a second time.            *)
Take(b) ==
  /\ taken = None /\ (b \in whole \ {filling} \/ b \in stray)
  /\ taken' = b
  /\ UNCHANGED <<filling, whole, stray>>

Return ==
  /\ taken # None
  /\ taken' = None /\ whole' = whole \ {taken}
  /\ UNCHANGED <<filling, stray>>

(* The driver gives statistics up, but not those that are being copied.        *)
Discard ==
  /\ whole' \in SUBSET whole /\ taken \notin whole \ whole'
  /\ Settle /\ UNCHANGED <<filling, taken>>

Lose(b) ==
  /\ Strays /\ b # taken
  /\ stray' = stray \cup {b}
  /\ UNCHANGED <<filling, taken, whole>>

Next ==
  \/ Complete \/ Stop \/ Return \/ Discard
  \/ \E b \in Buffers : Begin(b) \/ Take(b) \/ Lose(b)

Spec == Init /\ [][Next]_vars

(* What is being copied stays the statistics of one whole frame.               *)
TakenIsWhole == taken \notin stray \cup {None} => taken \in whole \ {filling}
=============================================================================
