---------------------------- MODULE ConsoleProofs ----------------------------
(***************************************************************************)
(* Theorems about the command line, for every set of lines, any contents   *)
(* of an uninitialised variable and any number of lines.                   *)
(***************************************************************************)
EXTENDS MCConsole, SocCmdProofs

LEMMA ParamsHasSix == Len(Params) = 6
  BY DEF Params

(* Of a parameter of a chunk of a line: what getConsoleCommandParams finds  *)
(* in tmpInt when the calls of getParam before it have left garbage there.  *)
Found(chunk, p, before) ==
  IF Given(chunk, p) /\ chunk.args[Params[p]] # JUNK
  THEN chunk.args[Params[p]] ELSE before

LEMMA FoundType ==
  ASSUME NEW chunk \in Chunk, NEW p \in 1 .. 6, NEW before \in Nat
  PROVE  Found(chunk, p, before) \in Nat
  BY ChunkAssumption, ParamsHasSix DEF Found

(* The values a saved parameter can hold.                                   *)
Fits(p, y) == y \in Nat /\ y < Width(p)

(* Cutting a value to the width of a parameter.                             *)
LEMMA NarrowType ==
  ASSUME NEW p, NEW x \in Nat
  PROVE  Fits(p, Narrow(p, x))
<1>1. Width(p) \in Nat \ {0}
  BY DEF Width
<1> QED
  BY <1>1 DEF Fits, Narrow

(* What the saved parameter p may be after a chunk.                         *)
Follows(chunk, p, y) ==
  IF Given(chunk, p)
  THEN /\ Fits(p, y)
       /\ \/ chunk.args[Params[p]] = JUNK
          \/ y = Narrow(p, chunk.args[Params[p]])
  ELSE y = saved[p]

(* What getConsoleCommandParams makes of the saved parameters: the ones a   *)
(* chunk gives as numbers are taken from it, the ones it does not give are  *)
(* kept.                                                                    *)
LEMMA ParamsSpec ==
  ASSUME NEW chunk \in Chunk, NEW garbage \in Nat
  PROVE  LET v == getConsoleCommandParams(chunk, garbage)
         IN  /\ v = [p \in 1 .. 6 |-> v[p]]
             /\ \A p \in 1 .. 6 : Follows(chunk, p, v[p])
<1> DEFINE step(f, p) ==
             CASE p = 0 -> garbage
               [] p > 0 /\ Given(chunk, p) /\ chunk.args[Params[p]] # JUNK
                    -> chunk.args[Params[p]]
               [] OTHER -> f[p - 1]
           IsTmp(f) == f = [p \in 0 .. Len(Params) |-> step(f, p)]
           tmp == CHOOSE f : IsTmp(f)
           x1 == Found(chunk, 1, garbage)
           x2 == Found(chunk, 2, x1)
           x3 == Found(chunk, 3, x2)
           x4 == Found(chunk, 4, x3)
           x5 == Found(chunk, 5, x4)
           x6 == Found(chunk, 6, x5)
           w == [p \in 0 .. 6 |-> CASE p = 0 -> garbage [] p = 1 -> x1
                                    [] p = 2 -> x2 [] p = 3 -> x3
                                    [] p = 4 -> x4 [] p = 5 -> x5
                                    [] OTHER -> x6]
<1>1. /\ x1 \in Nat /\ x2 \in Nat /\ x3 \in Nat
      /\ x4 \in Nat /\ x5 \in Nat /\ x6 \in Nat
  <2>1. x1 \in Nat
    BY FoundType
  <2> HIDE DEF x1
  <2>2. x2 \in Nat
    BY <2>1, FoundType
  <2> HIDE DEF x2
  <2>3. x3 \in Nat
    BY <2>2, FoundType
  <2> HIDE DEF x3
  <2>4. x4 \in Nat
    BY <2>3, FoundType
  <2> HIDE DEF x4
  <2>5. x5 \in Nat
    BY <2>4, FoundType
  <2> HIDE DEF x5
  <2>6. x6 \in Nat
    BY <2>5, FoundType
  <2> QED
    BY <2>1, <2>2, <2>3, <2>4, <2>5, <2>6
<1>2. IsTmp(w)
  <2>1. /\ w[0] = garbage /\ w[1] = x1 /\ w[2] = x2 /\ w[3] = x3
        /\ w[4] = x4 /\ w[5] = x5 /\ w[6] = x6
    <3> HIDE DEF x1, x2, x3, x4, x5, x6
    <3> QED BY SMT
  <2>2. /\ x1 = Found(chunk, 1, w[0]) /\ x2 = Found(chunk, 2, w[1])
        /\ x3 = Found(chunk, 3, w[2]) /\ x4 = Found(chunk, 4, w[3])
        /\ x5 = Found(chunk, 5, w[4]) /\ x6 = Found(chunk, 6, w[5])
    <3> HIDE DEF w
    <3> QED BY <2>1, Zenon
  <2>3. w = [p \in 0 .. 6 |-> w[p]]
    <3> HIDE DEF x1, x2, x3, x4, x5, x6
    <3> QED OBVIOUS
  <2> HIDE DEF w, x1, x2, x3, x4, x5, x6
  <2>4. \A p \in 1 .. 6 : w[p] = Found(chunk, p, w[p - 1])
    BY <2>1, <2>2, SMT
  <2>5. \A p \in 0 .. 6 : w[p] = step(w, p)
    BY <2>1, <2>4, SMT DEF Found
  <2> QED
    BY <2>3, <2>5, ParamsHasSix, Zenon
<1>3. IsTmp(tmp)
  <2> HIDE DEF IsTmp, w
  <2> QED BY <1>2, Zenon
<1> HIDE DEF tmp
<1>4. \A p \in 0 .. 6 : tmp[p] = step(tmp, p)
  BY <1>3, ParamsHasSix
<1>5. /\ tmp[0] = garbage
      /\ \A p \in 1 .. 6 : tmp[p] = Found(chunk, p, tmp[p - 1])
  BY <1>4, SMT DEF Found
<1>6. \A p \in 1 .. 6 : tmp[p] \in Nat
  <2>1. \A p \in 1 .. 6 : tmp[p - 1] \in Nat => tmp[p] \in Nat
    BY <1>5, FoundType
  <2> QED
    BY <1>5, <2>1, SMT
<1> DEFINE v == [p \in 1 .. Len(Params) |->
                   IF Given(chunk, p) THEN Narrow(p, tmp[p]) ELSE saved[p]]
<1>7. getConsoleCommandParams(chunk, garbage) = v
  BY Zenon DEF getConsoleCommandParams, tmp
<1>8. v = [p \in 1 .. 6 |-> v[p]]
  BY ParamsHasSix
<1>9. \A p \in 1 .. 6 : Follows(chunk, p, v[p])
  <2> SUFFICES ASSUME NEW p \in 1 .. 6 PROVE Follows(chunk, p, v[p])
    OBVIOUS
  <2>1. v[p] = IF Given(chunk, p) THEN Narrow(p, tmp[p]) ELSE saved[p]
    BY ParamsHasSix
  <2>2. Fits(p, Narrow(p, tmp[p]))
    <3>1. tmp[p] \in Nat
      BY <1>6
    <3> QED
      BY <3>1, NarrowType
  <2>3. Given(chunk, p) /\ chunk.args[Params[p]] # JUNK
        => tmp[p] = chunk.args[Params[p]]
    BY <1>5 DEF Found
  <2> HIDE DEF v
  <2> QED
    BY <2>1, <2>2, <2>3, Zenon DEF Follows
<1> HIDE DEF v
<1> QED
  BY <1>7, <1>8, <1>9

-----------------------------------------------------------------------------
(* CliTypeOK of the values of the variables.                                *)
Lines == (Seq(Chunk) \ {<< >>}) \cup {EOF}

AllFit(s) == s = [p \in 1 .. 6 |-> s[p]] /\ \A p \in 1 .. 6 : Fits(p, s[p])

Typed(in, buf, s, pc) == /\ in \in Seq(Lines)
                         /\ buf \in Nat
                         /\ AllFit(s)
                         /\ pc \in {"read", "getc", "exit"}

LEMMA TypedMeans == Typed(stdin, stdioBuf, saved, cliPc) => CliTypeOK
  BY ParamsHasSix DEF Typed, CliTypeOK, Lines, AllFit, Fits

(* ParamsAreLastGiven of the values of the variables.                       *)
GivenBy(r, p) == {k \in 1 .. Len(r) : Given(r[k], p)}

LastGiven(r, s) ==
  \A p \in 1 .. 6 :
    \/ GivenBy(r, p) = {} /\ s[p] = 0
    \/ \E k \in GivenBy(r, p) :
         /\ \A j \in GivenBy(r, p) : j <= k
         /\ \/ r[k].args[Params[p]] = JUNK
            \/ s[p] = Narrow(p, r[k].args[Params[p]])

LEMMA LastGivenMeans == LastGiven(read, saved) => ParamsAreLastGiven
  BY ParamsHasSix DEF LastGiven, GivenBy, ParamsAreLastGiven, GivenIn

(* The types, with those of the history of the chunks read, and what is     *)
(* proved from them.                                                        *)
ConsoleInv == /\ Typed(stdin, stdioBuf, saved, cliPc)
              /\ read \in Seq(Chunk)
              /\ LastGiven(read, saved)

(* One command of the console has the saved parameters follow its chunk.    *)
LEMMA ReadStep ==
  ASSUME ConsoleInv, NEW chunk \in Chunk, NEW garbage \in Garbage, NEW r, NEW s,
         s = getConsoleCommandParams(chunk, garbage),
         r = Append(read, chunk)
  PROVE  AllFit(s) /\ r \in Seq(Chunk) /\ LastGiven(r, s)
<1>1. /\ s = [p \in 1 .. 6 |-> s[p]]
      /\ \A p \in 1 .. 6 : Follows(chunk, p, s[p])
  BY GarbageAssumption, ParamsSpec
<1>2. PICK N : N = Len(read) + 1
  OBVIOUS
<1>3. /\ N \in Nat /\ N - 1 = Len(read) /\ Len(r) = N
      /\ r[N] = chunk
      /\ \A k \in 1 .. N - 1 : r[k] = read[k]
      /\ r \in Seq(Chunk)
  BY <1>2 DEF ConsoleInv
<1>4. AllFit(s)
  <2> SUFFICES ASSUME NEW p \in 1 .. 6 PROVE Fits(p, s[p])
    BY <1>1 DEF AllFit
  <2>1. Fits(p, saved[p])
    BY DEF ConsoleInv, Typed, AllFit
  <2> QED
    BY <1>1, <2>1 DEF Follows
<1>5. ASSUME NEW p \in 1 .. 6
      PROVE  \/ GivenBy(r, p) = {} /\ s[p] = 0
             \/ \E k \in GivenBy(r, p) :
                  /\ \A j \in GivenBy(r, p) : j <= k
                  /\ \/ r[k].args[Params[p]] = JUNK
                     \/ s[p] = Narrow(p, r[k].args[Params[p]])
  <2>1. /\ GivenBy(read, p) = {k \in 1 .. N - 1 : Given(read[k], p)}
        /\ GivenBy(r, p) = {k \in 1 .. N : Given(r[k], p)}
    BY <1>3 DEF GivenBy
  <2>2. \A k : k \in 1 .. N <=> k \in 1 .. N - 1 \/ k = N
    BY <1>3
  <2>3. CASE Given(chunk, p)
    <3>1. N \in GivenBy(r, p) /\ \A j \in GivenBy(r, p) : j <= N
      BY <1>3, <2>1, <2>2, <2>3
    <3>2. chunk.args[Params[p]] = JUNK \/ s[p] = Narrow(p, chunk.args[Params[p]])
      BY <1>1, <2>3 DEF Follows
    <3> QED
      BY <1>3, <3>1, <3>2
  <2>4. CASE ~ Given(chunk, p)
    <3>1. GivenBy(r, p) = GivenBy(read, p)
      BY <1>3, <2>1, <2>2, <2>4
    <3>2. s[p] = saved[p]
      BY <1>1, <2>4 DEF Follows
    <3>3. \A k \in GivenBy(read, p) : r[k] = read[k]
      BY <1>3, <2>1
    <3> QED
      BY <3>1, <3>2, <3>3 DEF ConsoleInv, LastGiven
  <2> QED
    BY <2>3, <2>4
<1> QED
  BY <1>3, <1>4, <1>5 DEF LastGiven

LEMMA ConsoleInit == MCInit => ConsoleInv
<1> SUFFICES ASSUME MCInit PROVE ConsoleInv
  OBVIOUS
<1>1. /\ stdin = << >> /\ stdioBuf = 0 /\ cliPc = "read" /\ read = << >>
      /\ saved = [p \in 1 .. 6 |-> 0]
  BY ParamsHasSix DEF MCInit, CliInit
<1>2. Typed(stdin, stdioBuf, saved, cliPc)
  BY <1>1 DEF Typed, AllFit, Fits, Width
<1>3. \A p : GivenBy(read, p) = {}
  BY <1>1, SMT DEF GivenBy
<1> QED
  BY <1>1, <1>2, <1>3 DEF ConsoleInv, LastGiven

(* The lines the kernel holds, after the first or its first chunk is taken. *)
LEMMA TakenLines ==
  ASSUME stdin \in Seq(Lines), stdin # << >>
  PROVE  LET line == Head(stdin)
         IN  /\ line \in Lines
             /\ Tail(stdin) \in Seq(Lines)
             /\ Tail(stdin) # stdin
             /\ line # EOF =>
                  /\ Head(line) \in Chunk
                  /\ line[1] = Head(line)
                  /\ Len(line) # 1 =>
                       LET rest == [stdin EXCEPT ![1] = Tail(line)]
                       IN  /\ rest \in Seq(Lines)
                           /\ rest # stdin
<1> DEFINE line == Head(stdin)
<1>2. line \in Seq(Chunk) \ {<< >>} \/ line = EOF
  <2>1. line \in Lines
    OBVIOUS
  <2> QED
    BY <2>1 DEF Lines
<1>3. ASSUME line # EOF
      PROVE  /\ Head(line) \in Chunk
             /\ line[1] = Head(line)
             /\ Len(line) # 1 => Tail(line) \in Seq(Chunk) \ {<< >>}
             /\ Tail(line) # line
  <2>1. line \in Seq(Chunk) /\ line # << >>
    BY <1>2, <1>3
  <2> HIDE DEF line
  <2>2. Len(line) \in Nat /\ Len(line) > 0 /\ Len(Tail(line)) = Len(line) - 1
    BY <2>1
  <2>3. Tail(line) \in Seq(Chunk) /\ (Len(line) # 1 => Tail(line) # << >>)
    <3>1. Len(line) # 1 => Len(Tail(line)) # 0
      BY <2>2
    <3>2. Len(<< >>) = 0
      OBVIOUS
    <3>3. Tail(line) = << >> => Len(Tail(line)) = 0
      BY <3>2, Zenon
    <3> QED
      BY <2>1, <3>1, <3>3
  <2>4. Tail(line) # line
    BY <2>2
  <2> QED
    BY <2>1, <2>3, <2>4
<1>4. \A x \in Seq(Chunk) \ {<< >>} : x \in Lines
  BY DEF Lines
<1>5. Tail(stdin) \in Seq(Lines) /\ Tail(stdin) # stdin
  <2>1. PICK n \in Nat : n = Len(stdin) /\ Len(Tail(stdin)) = n - 1
    OBVIOUS
  <2>2. n - 1 # n
    OBVIOUS
  <2>3. Tail(stdin) # stdin
    BY <2>1, <2>2, Zenon
  <2> QED
    BY <2>3
<1>6. ASSUME NEW x \in Lines, x # line
      PROVE  [stdin EXCEPT ![1] = x] \in Seq(Lines) /\ [stdin EXCEPT ![1] = x] # stdin
  <2>1. 1 \in 1 .. Len(stdin) /\ stdin[1] = line
    OBVIOUS
  <2>2. [stdin EXCEPT ![1] = x][1] = x
    BY <2>1
  <2> QED
    BY <1>6, <2>1, <2>2, ExceptSeq
<1>7. line \in Lines
  OBVIOUS
<1> QED
  BY <1>3, <1>4, <1>5, <1>6, <1>7

LEMMA ConsoleStep == ConsoleInv /\ [MCNext]_mcVars => ConsoleInv'
<1> SUFFICES ASSUME ConsoleInv, [MCNext]_mcVars
             PROVE  /\ Typed(stdin', stdioBuf', saved', cliPc')
                    /\ read' \in Seq(Chunk)
                    /\ LastGiven(read', saved')
  BY DEF ConsoleInv
<1>0. /\ stdin \in Seq(Lines) /\ stdioBuf \in Nat /\ AllFit(saved)
      /\ cliPc \in {"read", "getc", "exit"}
      /\ read \in Seq(Chunk) /\ LastGiven(read, saved)
  BY DEF ConsoleInv, Typed
<1> USE DEF Typed
<1>1. CASE UNCHANGED mcVars
  BY <1>0, <1>1 DEF mcVars, cliVars
<1>2. CASE Type
  <2>1. PICK l \in Line \cup {EOF} :
           /\ stdin' = Append(stdin, l)
           /\ UNCHANGED <<stdioBuf, saved, cliPc, read>>
    BY <1>2 DEF Type, UserTypes
  <2>2. l \in Lines
    BY LineAssumption DEF Lines
  <2> QED
    BY <1>0, <2>1, <2>2
<1>3. CASE Read
  <2>1. stdin # << >> /\ processConsoleCommand
    BY <1>3 DEF Read, processConsoleCommand
  <2> DEFINE line == Head(stdin)
  <2>2. CASE line = EOF /\ UNCHANGED <<stdin, saved, cliPc, stdioBuf>>
    <3>1. read' = read
      BY <1>3, <2>2 DEF Read
    <3> QED
      BY <1>0, <2>2, <3>1
  <2>3. CASE /\ line # EOF
             /\ stdioBuf' = stdioBuf
             /\ stdin' = IF Len(line) = 1 THEN Tail(stdin)
                                        ELSE [stdin EXCEPT ![1] = Tail(line)]
             /\ \E garbage \in Garbage :
                  saved' = getConsoleCommandParams(Head(line), garbage)
             /\ cliPc' = CASE Head(line).word = "sendresettofn" -> "getc"
                           [] Head(line).word = "exit"          -> "exit"
                           [] OTHER                             -> "read"
    <3>1. /\ stdin' \in Seq(Lines)
          /\ stdin' # stdin
          /\ Head(line) \in Chunk
      BY <1>0, <2>1, <2>3, TakenLines, Zenon
    <3>2. read' = Append(read, Head(line))
      BY <1>3, <3>1 DEF Read
    <3>3. PICK garbage \in Garbage :
             saved' = getConsoleCommandParams(Head(line), garbage)
      BY <2>3
    <3>4. cliPc' \in {"read", "getc", "exit"}
      BY <2>3, Zenon
    <3>5. PICK chunk \in Chunk : chunk = Head(line)
      BY <3>1
    <3> HIDE DEF line
    <3>6. AllFit(saved') /\ read' \in Seq(Chunk) /\ LastGiven(read', saved')
      <4>1. saved' = getConsoleCommandParams(chunk, garbage)
        BY <3>3, <3>5
      <4>2. read' = Append(read, chunk)
        BY <3>2, <3>5
      <4> QED
        BY <4>1, <4>2, ReadStep
    <3> QED
      BY <1>0, <2>3, <3>1, <3>4, <3>6
  <2> QED
    BY <2>1, <2>2, <2>3 DEF processConsoleCommand
<1>4. CASE Getc
  <2>1. /\ cliPc' = "read" /\ UNCHANGED <<saved, read>>
    BY <1>4 DEF Getc, getcReturns
  <2>2. /\ stdin' \in Seq(Lines)
        /\ stdioBuf' \in Nat
    <3>1. CASE stdioBuf > 0 /\ stdioBuf' = stdioBuf - 1 /\ UNCHANGED stdin
      BY <1>0, <3>1
    <3>2. CASE /\ stdin # << >> /\ Head(stdin) # EOF
               /\ stdioBuf' = Head(stdin)[1].left - 1
               /\ stdin' = Tail(stdin)
      <4>1. /\ stdin' \in Seq(Lines)
            /\ Head(stdin)[1] \in Chunk
        BY <1>0, <3>2, TakenLines
      <4>2. PICK c \in Chunk : c = Head(stdin)[1]
        BY <4>1
      <4>3. c.left - 1 \in Nat
        BY ChunkAssumption
      <4> QED
        BY <3>2, <4>1, <4>2, <4>3
    <3>3. CASE UNCHANGED <<stdin, stdioBuf>>
      BY <1>0, <3>3
    <3> QED
      BY <1>4, <3>1, <3>2, <3>3 DEF Getc, getcReturns
  <2> QED
    BY <1>0, <2>1, <2>2
<1> QED
  BY <1>1, <1>2, <1>3, <1>4 DEF MCNext

LEMMA ConsoleInvariance == MCSpec => []ConsoleInv
BY ConsoleInit, ConsoleStep, PTL DEF MCSpec

(* The parameters kept between lines fit their variables, a buffer of       *)
(* getc() never runs below empty, and no line is left half read without its *)
(* rest.                                                                    *)
THEOREM ConsoleTypeCorrect == MCSpec => []CliTypeOK
<1>1. ConsoleInv => CliTypeOK
  BY TypedMeans DEF ConsoleInv
<1> QED
  BY <1>1, ConsoleInvariance, PTL

(* The parameters a command uses without giving them are those last given   *)
(* as numbers, whatever lines were typed, read and taken as key presses.    *)
THEOREM ConsoleKeepsParams == MCSpec => []ParamsAreLastGiven
<1>1. ConsoleInv => ParamsAreLastGiven
  BY LastGivenMeans DEF ConsoleInv
<1> QED
  BY <1>1, ConsoleInvariance, PTL
=============================================================================
