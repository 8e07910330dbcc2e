------------------------------- MODULE MCIspStat -------------------------------
(***************************************************************************)
(* IspStat with small constants for TLC.  The imx477 has modes of 30 and of 60 *)
(* frames per second, for which isp_stat_config takes 3 and 4 buffers.        *)
(***************************************************************************)
EXTENDS IspStatPool
=============================================================================
