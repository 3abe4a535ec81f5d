----------------------------- MODULE MCConsole -----------------------------
(***************************************************************************)
(* The command line under every sequence of at most MaxLines lines, typed  *)
(* while the program reads them.                                           *)
(***************************************************************************)
EXTENDS Console

CONSTANTS MaxLines,   \* bound on the lines typed, the end of stdin included
          Words,      \* the commands typed
          LongWords   \* those typed in lines that two reads take

VARIABLES typed,   \* history: the lines typed, EOF included
          read     \* history: the chunks that processConsoleCommand, not
                   \* getc, has taken

mcVars == <<cliVars, socVars, typed, read>>

(* Lines as a user types them: parameters out of order, some left out, one  *)
(* too wide for a byte, one mistyped.                                       *)
MCArgs == {<< >>,
           [n |-> 1, v |-> 1],
           [n |-> 2, v |-> 300, g |-> 7],
           [n |-> 3, v |-> JUNK]}

Short == {<<[word |-> w, args |-> a, left |-> 12]>> : w \in Words, a \in MCArgs}
            \cup {<<[word |-> "invalid", args |-> << >>, left |-> c]>> : c \in {1, 2}}

(* A line of 60 characters: the second read(0) takes the last 11 of them.   *)
Long == {<<[word |-> w, args |-> [n |-> 2, v |-> 1], left |-> 60],
           [word |-> x, args |-> [t |-> 5], left |-> 11]>> :
             w \in LongWords, x \in LongWords \cup {"invalid"}}

MCLine == Short \cup IF LongWords = {} THEN {} ELSE Long

MCInit == CliInit /\ SocInit /\ typed = << >> /\ read = << >>

Type == \E l \in Line \cup {EOF} :
          /\ Len(typed) < MaxLines
          /\ UserTypes(l)
          /\ typed' = Append(typed, l)
          /\ UNCHANGED <<socVars, read>>

Read == /\ processConsoleCommand
        /\ read' = IF stdin' = stdin THEN read ELSE Append(read, Head(Head(stdin)))
        /\ UNCHANGED typed

Getc == getcReturns /\ UNCHANGED <<typed, read>>

MCNext == Type \/ Read \/ Getc

MCSpec == MCInit /\ [][MCNext]_mcVars

-----------------------------------------------------------------------------
(* A parameter that a command leaves out has the value of the last line     *)
(* that gave one as a number, cut to the width of its variable, and 0 if    *)
(* there was none: no other line, and no line taken as a key press, touches *)
(* it.  (Of a mistyped parameter the code promises nothing.)                *)
GivenIn(p) == {k \in 1 .. Len(read) : Given(read[k], p)}

ParamsAreLastGiven ==
  \A p \in 1 .. Len(Params) :
    \/ GivenIn(p) = {} /\ saved[p] = 0
    \/ \E k \in GivenIn(p) :
         LET x == read[k].args[Params[p]]
         IN  /\ \A j \in GivenIn(p) : j <= k
             /\ x = JUNK \/ saved[p] = Narrow(p, x)

(* The prompt "press a key when device identyfies": a reset is sent to a    *)
(* device only after a line has been typed for it (while stdin lasts and    *)
(* no line is long).                                                        *)
Resets == {k \in 1 .. Len(uart) : uart[k].frame.seq = -1 /\ uart[k].frame.cmdID = 6}

KeyPressAwaited ==
  EOF \notin {typed[k] : k \in 1 .. Len(typed)} =>
    Cardinality(Resets) <= Len(typed) - Len(stdin) - Len(read)
=============================================================================
