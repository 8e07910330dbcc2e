----------------------------- MODULE IspStatPool -----------------------------
(***************************************************************************)
(* IspStat seen as a StatPool: the buffer that a request has locked is the one  *)
(* taken, the address that the ISP has latched names the one it fills, and the  *)
(* driver loses track of a buffer when a PARA_LOAD overtakes the handler.      *)
(***************************************************************************)
EXTENDS IspStat

StatPool == INSTANCE StatPool WITH
  None <- NoBuf, Strays <- "overtake" \in Faults,
  filling <- writing, taken <- locked_buf, stray <- abandoned

(* The interrupts, the ioctls and the calls of the subdevice together keep the  *)
(* promise of StatPool: each of their steps is one of its steps or changes      *)
(* nothing it sees, so statistics are whole when they are taken, written over    *)
(* by nobody while they are copied, and taken once only.                       *)
ImplementsStatPool == StatPool!Spec
=============================================================================
