----------------------------- MODULE MCAppStream -----------------------------
(***************************************************************************)
(* AppStream with commands of every length that matters: without operands, *)
(* with operands, one of them a start byte, and as long as the buffer.     *)
(***************************************************************************)
EXTENDS AppStream

MCCommand == {<<APP_CMD_SOF, 0, 7>>,                       \* heartbeat
              <<APP_CMD_SOF, 2>>,                          \* query
              <<APP_CMD_SOF, 8, 2, APP_CMD_SOF, 2, 1>>,    \* light
              <<APP_CMD_SOF, 9, 2, 10, 0, 0, 8, 5, 0>>,    \* level
              <<APP_CMD_SOF, CMD_CLOSE>>}

(* The stack holds an earlier level command.                                *)
MCStack == {<<APP_CMD_SOF, 9, 1, 11, 0, 0, 6, 4, 0>>}
=============================================================================
