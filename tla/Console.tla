------------------------------- MODULE Console -------------------------------
(***************************************************************************)
(* The gateway's command line (src/gateway_forSDK/cli.c).  A line typed at *)
(* the terminal is a sequence of chunks, what one read(0) takes of it: at  *)
(* most 49 characters.  A chunk is a record: word, the first command of    *)
(* the else-if chain that it contains; args, the parameters it gives, each *)
(* a number or text that sscanf cannot convert; left, the characters from  *)
(* its first to the newline of the line.                                   *)
(***************************************************************************)
EXTENDS SocCmd

CONSTANTS Line,      \* the lines the user may type, perhaps EOF
          Garbage    \* what an uninitialised uint32_t may hold

ASSUME GarbageAssumption == Garbage \subseteq Nat

JUNK == -1      \* a parameter whose text is not a number
EOF  == <<[word |-> "eof", args |-> << >>, left |-> 0]>>   \* stdin has ended

VARIABLES stdin,      \* the lines the kernel holds for read(0)
          stdioBuf,   \* the characters left in the buffer of getc(stdin)
          saved,      \* the saved parameters
          cliPc       \* "read", waiting in "getc", or after "exit"

cliVars == <<stdin, stdioBuf, saved, cliPc>>

Params == <<"n", "m", "e", "v", "t", "g">>

(* savedAddrMode, savedEp and savedValue are u8, the others u16. *)
Width(p) == IF Params[p] \in {"m", "e", "v"} THEN 256 ELSE 65536

Given(chunk, p) == Params[p] \in DOMAIN chunk.args

(* The chunks of the lines.                                                 *)
Chunk == UNION {{line[k] : k \in DOMAIN line} : line \in Line \ {EOF}}

ASSUME LineAssumption == Line \ {EOF} \subseteq Seq(Chunk) \ {<< >>}
ASSUME ChunkAssumption ==
  \A c \in Chunk :
    /\ c.left \in Nat \ {0}
    /\ \A p \in 1 .. Len(Params) :
          Given(c, p) => c.args[Params[p]] \in Nat \cup {JUNK}

CliTypeOK ==
  /\ stdin \in Seq((Seq(Chunk) \ {<< >>}) \cup {EOF})
  /\ stdioBuf \in Nat
  /\ saved \in [1 .. Len(Params) -> Nat]
  /\ \A p \in 1 .. Len(Params) : saved[p] < Width(p)
  /\ cliPc \in {"read", "getc", "exit"}

CliInit == /\ stdin = << >>
           /\ stdioBuf = 0
           /\ saved = [p \in 1 .. Len(Params) |-> 0]
           /\ cliPc = "read"

(* Fault: a byte parameter kept in 16 bits.                                 *)
NarrowTo16(p, x) == x % 65536

Narrow(p, x) == x % Width(p)

(* Fault: forgetting the saved parameters.                                  *)
ParamsOfLineOnly(chunk, garbage) ==
  [p \in 1 .. Len(Params) |->
     IF Given(chunk, p) /\ chunk.args[Params[p]] # JUNK
     THEN Narrow(p, chunk.args[Params[p]]) ELSE 0]

(* getParam for each parameter in turn.  tmp[p] is tmpInt after the call for *)
(* parameter p: a text that is no number leaves it as it was, and yet the    *)
(* call reports success.                                                     *)
getConsoleCommandParams(chunk, garbage) ==
  LET tmp[p \in 0 .. Len(Params)] ==
        CASE p = 0 -> garbage
          [] p > 0 /\ Given(chunk, p) /\ chunk.args[Params[p]] # JUNK
               -> chunk.args[Params[p]]
          [] OTHER -> tmp[p - 1]
  IN  [p \in 1 .. Len(Params) |->
         IF Given(chunk, p) THEN Narrow(p, tmp[p]) ELSE saved[p]]

(* The else-if chain.  The value of p is that of the saved parameters after  *)
(* the chunk's own.                                                          *)
Dispatch(word, p) ==
  LET n == p[1]  m == p[2]  v == p[4]  t == p[5]  g == p[6]
  IN  \/ word \in {"touchlink", "sendresettofn"} /\ zllSocTouchLink
      \/ word = "resettofn"   /\ zllSocResetToFn
      \/ word = "setonoff"    /\ zllSocSetState(v, n, m)
      \/ word = "setlevel"    /\ zllSocSetLevel(v, t, n, m)
      \/ word = "sethue"      /\ zllSocSetHue(v, t, n, m)
      \/ word = "setsat"      /\ zllSocSetSat(v, t, n, m)
      \/ word = "getstate"    /\ zllSocGetState(n, m)
      \/ word = "getlevel"    /\ zllSocGetLevel(n, m)
      \/ word = "gethue"      /\ zllSocGetHue(n, m)
      \/ word = "getsat"      /\ zllSocGetSat(n, m)
      \/ word = "getnodes"    /\ zllSocGetNodes
      \/ word = "addgroup"    /\ zllSocAddGroup(g, n, m)
      \/ word = "setbind"     /\ zllSocDemoBind(m, n)
      \/ word = "resetflash"  /\ zllSocFlashReset(n, m)
      \/ word = "enddevbind"  /\ zllSocEndDevBind
      \/ word = "selectlight" /\ zllSocIdentify(t, n, m)
      \/ word \in {"exit", "invalid"} /\ UNCHANGED socVars

(* read(0) takes a chunk of the first line, a whole line as a rule; at the  *)
(* end of stdin it takes nothing and the empty command is invalid.          *)
processConsoleCommand ==
  LET line == Head(stdin)  chunk == Head(line)
  IN  /\ cliPc = "read" /\ stdin # << >>
      /\ UNCHANGED stdioBuf
      /\ \/ line = EOF /\ UNCHANGED <<stdin, saved, cliPc, socVars>>
         \/ /\ line # EOF
            /\ stdin' = IF Len(line) = 1 THEN Tail(stdin)
                                        ELSE [stdin EXCEPT ![1] = Tail(line)]
            /\ \E garbage \in Garbage :
                 saved' = getConsoleCommandParams(chunk, garbage)
            /\ Dispatch(chunk.word, saved')
            /\ cliPc' = CASE chunk.word = "sendresettofn" -> "getc"
                          [] chunk.word = "exit"          -> "exit"
                          [] OTHER                        -> "read"

(* getc(stdin) and what follows it: a character from the buffer of the C    *)
(* library, or the first of what is left of the next line: the rest of it,  *)
(* however long, is buffered.                                               *)
getcReturns ==
  /\ cliPc = "getc"
  /\ \/ stdioBuf > 0 /\ stdioBuf' = stdioBuf - 1 /\ UNCHANGED stdin
     \/ /\ stdioBuf = 0 /\ stdin # << >> /\ Head(stdin) # EOF
        /\ stdioBuf' = Head(stdin)[1].left - 1
        /\ stdin' = Tail(stdin)
     \/ /\ stdioBuf = 0 /\ stdin # << >> /\ Head(stdin) = EOF
        /\ UNCHANGED <<stdin, stdioBuf>>
  /\ zllSocSendResetToFn
  /\ cliPc' = "read"
  /\ UNCHANGED saved

(* The user types a line, or closes the terminal. *)
UserTypes(line) ==
  /\ EOF \notin {stdin[k] : k \in 1 .. Len(stdin)}
  /\ stdin' = Append(stdin, line)
  /\ UNCHANGED <<stdioBuf, saved, cliPc>>

-----------------------------------------------------------------------------
(* "sending of reset to fn must happen within a touchlink": the frame that  *)
(* was written before a reset for a device is the touchlink command, for    *)
(* nothing else is sent while the program waits for the key.                *)
ResetFollowsTouchlink ==
  \A k \in 1 .. Len(uart) :
    uart[k].frame.cluster = NoCluster /\ uart[k].frame.cmdID = 6 =>
      /\ k > 1
      /\ uart[k - 1].frame.cluster = NoCluster
      /\ uart[k - 1].frame.cmdID = 1
=============================================================================
