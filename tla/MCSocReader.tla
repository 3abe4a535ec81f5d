---------------------------- MODULE MCSocReader ----------------------------
(***************************************************************************)
(* SocReader with three messages: one contains a start byte, and one does  *)
(* not fit rspBuf.                                                         *)
(***************************************************************************)
EXTENDS SocReader

MCMessage == {<<SOF, 1>>, <<3, 4, 5>>, <<6, 7, 8, 9>>}

(* What an earlier message left there.                                      *)
MCStack == {<<SOF, 1>>}
=============================================================================
