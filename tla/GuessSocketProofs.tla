------------------------- MODULE GuessSocketProofs --------------------------
(***************************************************************************)
(* Theorems about GuessSocket, for any number of clients, range of numbers *)
(* and winning score.                                                      *)
(***************************************************************************)
EXTENDS GuessSocket, SequenceTheorems, TLAPS

(***************************************************************************)
(* Words in a stream                                                       *)
(***************************************************************************)

\* One word
LEMMA OneWord ==
  ASSUME NEW S, NEW w \in S
  PROVE  /\ <<w>> \in Seq(S) /\ Len(<<w>>) = 1 /\ <<w>> # <<>> /\ <<>> \in Seq(S) /\ Len(<<>>) = 0
         /\ Head(<<w>>) = w /\ Tail(<<w>>) = <<>> /\ Append(<<>>, w) = <<w>> /\ <<>> \o <<w>> = <<w>>
OBVIOUS

\* A message of three words
LEMMA ThreeWords ==
  ASSUME NEW S, NEW a \in S, NEW b \in S, NEW d \in S, NEW m, m = <<a, b, d>>
  PROVE  /\ m \in Seq(S) /\ Len(m) = 3 /\ m # <<>> /\ m[1] = a /\ m[2] = b /\ m[3] = d
         /\ Head(m) = a /\ Tail(m) = <<b, d>> /\ <<b, d>> \in Seq(S)
         /\ Len(<<b, d>>) = 2 /\ Head(<<b, d>>) = b /\ Tail(<<b, d>>) = <<d>> /\ <<b, d>> # <<>>
         /\ SubSeq(m, 1, 3) = m /\ SubSeq(m, 4, 3) = <<>> /\ <<>> \o m = m
<1>1. m \in Seq(S) /\ Len(m) = 3 /\ m # <<>> /\ m[1] = a /\ m[2] = b /\ m[3] = d
  OBVIOUS
<1>2. Head(m) = a /\ Tail(m) = <<b, d>> /\ <<b, d>> \in Seq(S)
  OBVIOUS
<1>3. Len(<<b, d>>) = 2 /\ Head(<<b, d>>) = b /\ Tail(<<b, d>>) = <<d>> /\ <<b, d>> # <<>>
  OBVIOUS
<1>4. SubSeq(m, 1, 3) = m
  <2>1. SubSeq(m, 1, Len(m)) = m
    BY <1>1, SubSeqFull
  <2> QED BY <1>1, <2>1
<1>5. SubSeq(m, 4, 3) = <<>>
  <2>1. 4 \in Int /\ 3 \in Int /\ 3 < 4
    OBVIOUS
  <2> QED BY <2>1, SubSeqEmpty
<1>6. <<>> \o m = m
  BY <1>1, ConcatEmptySeq
<1> QED BY <1>1, <1>2, <1>3, <1>4, <1>5, <1>6

\* A message with another one behind it
LEMMA MoreWords ==
  ASSUME NEW S, NEW m \in Seq(S), NEW n \in Seq(S), Len(m) = 3
  PROVE  /\ m \o n \in Seq(S) /\ Len(m \o n) = 3 + Len(n)
         /\ SubSeq(m \o n, 1, 3) = m /\ SubSeq(m \o n, 4, Len(m \o n)) = n
<1>1. /\ m \o n \in Seq(S) /\ Len(m \o n) = Len(m) + Len(n)
      /\ Len(n) \in Nat /\ Len(m) \in Nat
  BY ConcatProperties, LenProperties
<1>2. SubSeq(m \o n, 1, 3) = m
  <2>1. 1 \in 1..Len(m) /\ 3 \in 1..Len(m)
    OBVIOUS
  <2>2. SubSeq(m \o n, 1, 3) = SubSeq(m, 1, 3)
    BY <2>1, SubSeqOfConcat1
  <2>3. SubSeq(m, 1, Len(m)) = m
    BY SubSeqFull
  <2> QED BY <2>2, <2>3
<1>3. SubSeq(m \o n, 4, Len(m \o n)) = n
  <2>1. CASE n = <<>>
    BY <1>1, <2>1, SubSeqEmpty, EmptySeq
  <2>2. CASE n # <<>>
    <3>1. Len(n) >= 1
      BY <2>2, <1>1, EmptySeq
    <3>2. SubSeq(m \o n, 4, 3 + Len(n)) = SubSeq(n, 1, Len(n))
      <4>1. 4 \in Len(m) + 1 .. Len(m) + Len(n) /\ 3 + Len(n) \in Len(m) + 1 .. Len(m) + Len(n)
        BY <1>1, <3>1
      <4>2. SubSeq(m \o n, 4, 3 + Len(n)) = SubSeq(n, 4 - Len(m), (3 + Len(n)) - Len(m))
        BY <4>1, SubSeqOfConcat2
      <4> QED BY <1>1, <4>2
    <3> QED BY <1>1, <3>2, SubSeqFull
  <2> QED BY <2>1, <2>2
<1> QED BY <1>1, <1>2, <1>3
-----------------------------------------------------------------------------
(***************************************************************************)
(* Types                                                                   *)
(***************************************************************************)
LEMMA Words ==
  /\ {WON, LOSE, TIE} \subseteq Word /\ ScoreWord \subseteq Word /\ 1..MaxRand \subseteq Word
  /\ 1 \in Word /\ Uninit \in Word /\ \A c \in Clients : PidOf(c) \in Word
  /\ RoundResults \subseteq Seq(Word) /\ Unready \in Seq(Word) /\ Len(Unready) = 3
  /\ \A r \in RoundResults : Len(r) = 3
<1>1. /\ {WON, LOSE, TIE} \subseteq Word /\ ScoreWord \subseteq Word /\ 1..MaxRand \subseteq Word
      /\ 1 \in Word /\ Uninit \in Word /\ \A c \in Clients : PidOf(c) \in Word
  BY DEF Word, ScoreWord, WON, LOSE, TIE
<1>2. Unready \in Seq(Word) /\ Len(Unready) = 3
  BY <1>1, ThreeWords DEF Unready
<1>3. ASSUME NEW r \in RoundResults PROVE r \in Seq(Word) /\ Len(r) = 3
  <2>1. PICK a \in {WON, LOSE, TIE}, b \in 0..WinScore, d \in 0..WinScore : r = <<a, b, d>>
    BY <1>3 DEF RoundResults
  <2>2. a \in Word /\ b \in Word /\ d \in Word
    BY <1>1 DEF ScoreWord
  <2> QED BY <2>1, <2>2, ThreeWords
<1> QED BY <1>1, <1>2, <1>3

\* A result, alone and with something behind it
LEMMA Results ==
  ASSUME NEW r \in RoundResults
  PROVE  /\ Len(r) = 3 /\ SubSeq(r, 1, 3) = r /\ SubSeq(r, 4, 3) = <<>> /\ r # <<>>
         /\ \E a \in {WON, LOSE, TIE}, b, d \in 0..WinScore : r = <<a, b, d>>
         /\ \A n \in Seq(Word) :
               /\ Len(r \o n) = 3 + Len(n) /\ SubSeq(r \o n, 1, 3) = r
               /\ SubSeq(r \o n, 4, Len(r \o n)) = n
<1>1. PICK a \in {WON, LOSE, TIE}, b \in 0..WinScore, d \in 0..WinScore : r = <<a, b, d>>
  BY DEF RoundResults
<1>2. r \in Seq(Word) /\ Len(r) = 3 /\ Len(<<>>) = 0 /\ 4 \in Int /\ 3 \in Int
  BY Words
<1>3. r \in Seq(Word) /\ Len(r) = 3 /\ SubSeq(r, 1, 3) = r /\ SubSeq(r, 4, 3) = <<>> /\ r # <<>>
  <2>1. SubSeq(r, 1, Len(r)) = r
    BY <1>2, SubSeqFull
  <2>2. SubSeq(r, 4, 3) = <<>>
    BY <1>2, SubSeqEmpty
  <2>3. r # <<>>
    BY <1>1
  <2> QED BY <1>2, <2>1, <2>2, <2>3
<1>4. \A n \in Seq(Word) :
               /\ Len(r \o n) = 3 + Len(n) /\ SubSeq(r \o n, 1, 3) = r
               /\ SubSeq(r \o n, 4, Len(r \o n)) = n
  BY <1>3, MoreWords
<1> QED BY <1>1, <1>3, <1>4

\* A word more, or a word less
LEMMA Longer ==
  ASSUME NEW S, NEW s \in Seq(S), NEW w \in S
  PROVE  Append(s, w) \in Seq(S)
OBVIOUS

LEMMA Shorter ==
  ASSUME NEW S, NEW s \in Seq(S), s # <<>>
  PROVE  Head(s) \in S /\ Tail(s) \in Seq(S)
BY HeadTailProperties

\* What a client does: its steps, and the user's interrupt.
ClientDoes(c) == CliStep(c) \/ CliInterrupt(c)

\* A client changes nothing but what is its own.
LEMMA ClientFrame ==
  ASSUME TypeOK, NEW c \in Clients, ClientDoes(c)
  PROVE  /\ UNCHANGED <<srv, open, file, backlog, ci, pid, score, secret, guess, msg, term, noPipeSig>>
         /\ \A d \in Clients : d # c =>
               /\ up'[d] = up[d] /\ down'[d] = down[d] /\ cli'[d] = cli[d] /\ sent'[d] = sent[d]
               /\ startMsg'[d] = startMsg[d] /\ resMsg'[d] = resMsg[d] /\ verdict'[d] = verdict[d]
         /\ cli[c] \notin {"off", "gone"} /\ cli'[c] # "off"
<1> USE DEF TypeOK, Finish, Vanish, srvVars
<1>1. CASE CliWritePid(c)
  BY <1>1 DEF CliWritePid
<1>2. CASE CliTop(c)
  BY <1>2 DEF CliTop
<1>3. CASE CliReadStart(c)
  BY <1>3 DEF CliReadStart
<1>4. CASE CliGuess(c)
  BY <1>4 DEF CliGuess
<1>5. CASE CliReadResult(c)
  BY <1>5 DEF CliReadResult
<1>6. CASE CliInterrupt(c)
  BY <1>6 DEF CliInterrupt
<1> QED BY <1>1, <1>2, <1>3, <1>4, <1>5, <1>6 DEF ClientDoes, CliStep

LEMMA Overwritten ==
  ASSUME NEW old \in Seq(Word), Len(old) = 3, NEW words \in Seq(Word)
  PROVE  /\ Overwrite(old, words) \in Seq(Word) /\ Len(Overwrite(old, words)) = 3
         /\ Overwrite(old, words)[1] = IF words = <<>> THEN old[1] ELSE words[1]
<1> DEFINE e(k) == IF k <= Len(words) THEN words[k] ELSE old[k]
           o == [k \in 1..3 |-> e(k)]
<1>1. Len(words) \in Nat /\ (words # <<>> => Len(words) >= 1) /\ Len(<<>>) = 0
  BY EmptySeq
<1>2. \A k \in 1..3 : e(k) \in Word
  <2>1. \A k \in 1..3 : k <= Len(words) => words[k] \in Word
    <3> SUFFICES ASSUME NEW k \in 1..3, k <= Len(words) PROVE words[k] \in Word
      OBVIOUS
    <3>1. k \in 1..Len(words)
      BY <1>1
    <3> QED BY <3>1, ElementOfSeq
  <2>2. \A k \in 1..3 : old[k] \in Word
    BY ElementOfSeq
  <2> QED BY <2>1, <2>2
<1>3. o \in Seq(Word) /\ Len(o) = 3
  <2>1. o \in [1..3 -> Word]
    BY <1>2
  <2> HIDE DEF o
  <2> QED BY <2>1
<1>4. o[1] = IF words = <<>> THEN old[1] ELSE words[1]
  BY <1>1
<1>5. Overwrite(old, words) = o
  BY DEF Overwrite
<1> QED BY <1>3, <1>4, <1>5

\* Types and the length of result_msg, after a step of a client
LEMMA ClientTypes ==
  ASSUME TypeOK, NEW c \in Clients, ClientDoes(c), \A d \in Clients : Len(resMsg[d]) = 3
  PROVE  TypeOK' /\ \A d \in Clients : Len(resMsg'[d]) = 3
<1>1. /\ up \in [Clients -> Seq(Word)] /\ down \in [Clients -> Seq(Word)]
      /\ cli \in [Clients -> CliStates] /\ startMsg \in [Clients -> Word]
      /\ resMsg \in [Clients -> Seq(Word)] /\ sent \in [Clients -> (1..MaxRand) \cup {None}]
      /\ verdict \in [Clients -> {"none", "win", "lose", "tie"}]
  BY DEF TypeOK
<1> DEFINE Good == /\ up' \in [Clients -> Seq(Word)] /\ down' \in [Clients -> Seq(Word)]
                   /\ cli' \in [Clients -> CliStates] /\ startMsg' \in [Clients -> Word]
                   /\ resMsg' \in [Clients -> Seq(Word)]
                   /\ sent' \in [Clients -> (1..MaxRand) \cup {None}]
                   /\ verdict' \in [Clients -> {"none", "win", "lose", "tie"}]
                   /\ \A d \in Clients : Len(resMsg'[d]) = 3
           Last == /\ cli' \in [Clients -> CliStates] /\ resMsg' \in [Clients -> Seq(Word)]
                   /\ verdict' \in [Clients -> {"none", "win", "lose", "tie"}]
                   /\ \A d \in Clients : Len(resMsg'[d]) = 3
<1>2. ASSUME NEW r \in Seq(Word), Len(r) = 3, Finish(c, r) PROVE Last
  <2>1. \A w : Verdicts(w) \subseteq {"win", "lose", "tie"}
    BY DEF Verdicts
  <2>2. PICK v \in Verdicts(r[1]) : verdict' = [verdict EXCEPT ![c] = v]
    BY <1>2 DEF Finish
  <2>3. verdict' \in [Clients -> {"none", "win", "lose", "tie"}]
    BY <1>1, <2>1, <2>2
  <2>4. cli' = [cli EXCEPT ![c] = "gone"] /\ resMsg' = [resMsg EXCEPT ![c] = r]
    BY <1>2 DEF Finish
  <2>5. resMsg' \in [Clients -> Seq(Word)] /\ \A d \in Clients : Len(resMsg'[d]) = 3
    BY <1>1, <1>2, <2>4
  <2>6. cli' \in [Clients -> CliStates]
    BY <1>1, <2>4 DEF CliStates
  <2> QED BY <2>3, <2>5, <2>6
<1>3. Vanish(c) => Last
  BY <1>1 DEF Vanish, CliStates
<1> SUFFICES Good
  <2>1. UNCHANGED <<srv, open, file, backlog, ci, pid, score, secret, guess, msg, term, noPipeSig>>
    BY ClientFrame
  <2> QED BY <2>1 DEF TypeOK
<1> HIDE DEF Last
<1>5. ASSUME UNCHANGED <<resMsg, verdict>>, NEW q \in CliStates, cli' = [cli EXCEPT ![c] = q] PROVE Last
  BY <1>1, <1>5 DEF Last
<1>6. resMsg[c] \in Seq(Word) /\ Len(resMsg[c]) = 3 /\ down[c] \in Seq(Word) /\ up[c] \in Seq(Word)
  BY <1>1
<1>7. CASE CliWritePid(c)
  <2>1. Last
    BY <1>3, <1>5, <1>7 DEF CliWritePid, CliStates
  <2>2. up' \in [Clients -> Seq(Word)]
    <3>1. Append(up[c], PidOf(c)) \in Seq(Word)
      BY <1>6, Words, Longer
    <3> QED BY <1>1, <1>7, <3>1 DEF CliWritePid
  <2> QED BY <1>1, <1>7, <2>1, <2>2 DEF CliWritePid, Last
<1>8. CASE CliTop(c)
  <2>1. Last
    BY <1>2, <1>5, <1>6, <1>8 DEF CliTop, CliStates
  <2> QED BY <1>1, <1>8, <2>1 DEF CliTop, Last
<1>9. CASE CliReadStart(c)
  <2>1. Last
    BY <1>2, <1>5, <1>6, <1>9 DEF CliReadStart, CliStates
  <2>2. down' \in [Clients -> Seq(Word)] /\ startMsg' \in [Clients -> Word]
    <3>1. down[c] # <<>> => Head(down[c]) \in Word /\ Tail(down[c]) \in Seq(Word)
      BY <1>6, Shorter
    <3>2. CASE /\ down[c] # <<>> /\ down' = [down EXCEPT ![c] = Tail(down[c])]
               /\ startMsg' = [startMsg EXCEPT ![c] = Head(down[c])]
      BY <1>1, <3>1, <3>2
    <3>3. CASE UNCHANGED <<down, startMsg>>
      BY <1>1, <3>3
    <3> QED BY <1>9, <3>2, <3>3 DEF CliReadStart
  <2> QED BY <1>1, <1>9, <2>1, <2>2 DEF CliReadStart, Last
<1>10. CASE CliGuess(c)
  <2>1. Last
    BY <1>2, <1>3, <1>5, <1>6, <1>10 DEF CliGuess, CliStates
  <2>2. up' \in [Clients -> Seq(Word)] /\ sent' \in [Clients -> (1..MaxRand) \cup {None}]
    <3>1. \A g \in 1..MaxRand : Append(up[c], g) \in Seq(Word)
      BY <1>6, Words, Longer
    <3>2. ASSUME NEW g \in 1..MaxRand, up' = [up EXCEPT ![c] = Append(up[c], g)],
                 sent' = [sent EXCEPT ![c] = g]
          PROVE  up' \in [Clients -> Seq(Word)] /\ sent' \in [Clients -> (1..MaxRand) \cup {None}]
      BY <1>1, <3>1, <3>2
    <3>3. CASE UNCHANGED <<up, sent>>
      BY <1>1, <3>3
    <3> QED BY <1>10, <3>2, <3>3 DEF CliGuess
  <2> QED BY <1>1, <1>10, <2>1, <2>2 DEF CliGuess, Last
<1>11. CASE CliReadResult(c)
  <2>1. Len(down[c]) \in Nat /\ DOMAIN down[c] = 1..Len(down[c])
    BY <1>6, LenProperties
  <2>2. CASE Len(down[c]) >= 3 /\ resMsg' = [resMsg EXCEPT ![c] = SubSeq(down[c], 1, 3)]
             /\ down' = [down EXCEPT ![c] = SubSeq(@, 4, Len(@))]
             /\ cli' = [cli EXCEPT ![c] = "top"] /\ UNCHANGED verdict
    <3>1. \A k \in 1..Len(down[c]) : down[c][k] \in Word
      BY <1>6, ElementOfSeq
    <3>2. SubSeq(down[c], 1, 3) \in Seq(Word) /\ Len(SubSeq(down[c], 1, 3)) = 3
      <4>1. \A k \in 1..3 : down[c][k] \in Word
        BY <2>1, <2>2, <3>1
      <4> QED BY <4>1, SubSeqProperties
    <3>3. SubSeq(down[c], 4, Len(down[c])) \in Seq(Word)
      <4>1. \A k \in 4..Len(down[c]) : down[c][k] \in Word
        BY <3>1
      <4> QED BY <2>1, <4>1, SubSeqProperties
    <3>4. Last
      BY <1>1, <2>2, <3>2 DEF Last, CliStates
    <3> QED BY <1>1, <1>11, <2>2, <3>3, <3>4 DEF CliReadResult, Last
  <2>3. CASE Finish(c, Overwrite(resMsg[c], down[c])) /\ down' = [down EXCEPT ![c] = <<>>]
    <3>1. Last
      BY <1>2, <1>6, <2>3, Overwritten
    <3>2. <<>> \in Seq(Word)
      OBVIOUS
    <3> QED BY <1>1, <1>11, <2>3, <3>1, <3>2 DEF CliReadResult, Last
  <2> QED BY <1>11, <2>2, <2>3 DEF CliReadResult
<1>12. CASE CliInterrupt(c)
  BY <1>1, <1>3, <1>12 DEF CliInterrupt, Last
<1> QED BY <1>7, <1>8, <1>9, <1>10, <1>11, <1>12 DEF ClientDoes, CliStep
-----------------------------------------------------------------------------
(***************************************************************************)
(* What a step of a client does to the conversation, while the server has  *)
(* its sockets open                                                        *)
(***************************************************************************)

\* The streams and the place of client c after each of its steps
LEMMA ClientMoves ==
  ASSUME TypeOK, NEW c \in Clients, ClientDoes(c)
  PROVE  \/ cli'[c] = "gone" /\ (open => UNCHANGED <<up, down, sent>>)
         \/ /\ cli[c] = "writePid" /\ cli'[c] = "top" /\ up'[c] = Append(up[c], PidOf(c))
            /\ UNCHANGED <<down, sent, resMsg>>
         \/ /\ cli[c] = "top" /\ cli'[c] = "readStart" /\ UNCHANGED <<up, down, sent, resMsg>>
         \/ /\ cli[c] = "readStart" /\ down[c] # <<>> /\ down'[c] = Tail(down[c])
            /\ \/ cli'[c] = "guess" /\ (Head(down[c]) = 1 \/ Head(down[c]) = Uninit)
               \/ cli'[c] = "top" /\ Head(down[c]) # 1
            /\ UNCHANGED <<up, sent, resMsg>>
         \/ /\ cli[c] = "guess" /\ cli'[c] = "readResult" /\ UNCHANGED <<down, resMsg>>
            /\ \E g \in 1..MaxRand : up'[c] = Append(up[c], g) /\ sent'[c] = g
         \/ /\ cli[c] = "readResult" /\ Len(down[c]) >= 3 /\ cli'[c] = "top"
            /\ resMsg'[c] = SubSeq(down[c], 1, 3) /\ down'[c] = SubSeq(down[c], 4, Len(down[c]))
            /\ UNCHANGED <<up, sent>>
<1> USE DEF TypeOK, Finish, Vanish
<1>1. CASE CliWritePid(c)
  BY <1>1 DEF CliWritePid
<1>2. CASE CliTop(c)
  BY <1>2 DEF CliTop
<1>3. CASE CliReadStart(c)
  <2> DEFINE w == Head(down[c])
  <2>1. ASSUME NEW play \in IsOne(w), cli'[c] = IF play THEN "guess" ELSE "top"
        PROVE  \/ cli'[c] = "guess" /\ (w = 1 \/ w = Uninit)
               \/ cli'[c] = "top" /\ w # 1
    <3>1. CASE w = Uninit
      <4>1. play \in BOOLEAN
        BY <3>1, <2>1 DEF IsOne
      <4> QED BY <2>1, <3>1, <4>1, NoneAssumption
    <3>2. CASE w # Uninit
      <4>1. play \in {w = 1}
        BY <3>2, <2>1 DEF IsOne
      <4> HIDE DEF w
      <4>2. play <=> w = 1
        BY <4>1, Zenon
      <4> QED BY <2>1, <4>1, <4>2
    <3> QED BY <3>1, <3>2
  <2>2. CASE \E play \in IsOne(w) : cli' = [cli EXCEPT ![c] = IF play THEN "guess" ELSE "top"]
             /\ down[c] # <<>> /\ down' = [down EXCEPT ![c] = Tail(@)]
    <3>1. PICK play \in IsOne(w) : cli' = [cli EXCEPT ![c] = IF play THEN "guess" ELSE "top"]
      BY <2>2
    <3>2. cli'[c] = IF play THEN "guess" ELSE "top"
      BY <3>1
    <3>3. down[c] # <<>> /\ down'[c] = Tail(down[c])
      BY <2>2
    <3>4. UNCHANGED resMsg
      BY <1>3, <3>2 DEF CliReadStart
    <3>5. \/ cli'[c] = "guess" /\ (w = 1 \/ w = Uninit)
          \/ cli'[c] = "top" /\ w # 1
      BY <2>1, <3>2
    <3> QED BY <1>3, <3>3, <3>4, <3>5 DEF CliReadStart
  <2>3. CASE Finish(c, resMsg[c]) /\ ~open
    BY <2>3
  <2> QED BY <1>3, <2>2, <2>3 DEF CliReadStart
<1>4. CASE CliGuess(c)
  BY <1>4 DEF CliGuess
<1>5. CASE CliReadResult(c)
  BY <1>5 DEF CliReadResult
<1>6. CASE CliInterrupt(c)
  BY <1>6 DEF CliInterrupt
<1> QED BY <1>1, <1>2, <1>3, <1>4, <1>5, <1>6 DEF ClientDoes, CliStep

LEMMA ClientReads ==
  ASSUME TypeOK, open, NEW c \in Clients, ClientDoes(c)
  PROVE  /\ \/ startMsg'[c] = startMsg[c]
            \/ cli[c] = "readStart" /\ down[c] # <<>> /\ startMsg'[c] = Head(down[c])
         /\ \/ resMsg'[c] = resMsg[c]
            \/ cli[c] = "readResult" /\ Len(down[c]) >= 3 /\ resMsg'[c] = SubSeq(down[c], 1, 3)
<1> USE DEF TypeOK, Vanish, Finish
<1>1. CASE CliWritePid(c)
  BY <1>1 DEF CliWritePid
<1>2. CASE CliTop(c)
  BY <1>2 DEF CliTop
<1>3. CASE CliReadStart(c)
  BY <1>3 DEF CliReadStart
<1>4. CASE CliGuess(c)
  BY <1>4 DEF CliGuess
<1>5. CASE CliReadResult(c)
  BY <1>5 DEF CliReadResult
<1>6. CASE CliInterrupt(c)
  BY <1>6 DEF CliInterrupt
<1> QED BY <1>1, <1>2, <1>3, <1>4, <1>5, <1>6 DEF ClientDoes, CliStep

LEMMA WaitingStep ==
  ASSUME TypeOK, open, NEW c \in Clients, ClientDoes(c), Waiting(c)
  PROVE  Waiting(c)'
<1>1. Append(<<>>, PidOf(c)) = <<PidOf(c)>> /\ Len(<<>>) = 0
  OBVIOUS
<1>2. cli[c] \in {"writePid", "top", "readStart"}
  BY ClientFrame DEF Waiting
<1> QED BY <1>1, <1>2, ClientMoves, ClientReads DEF Waiting

LEMMA AtRestStep ==
  ASSUME TypeOK, open, NEW c \in Clients, ClientDoes(c), NEW r, AtRest(c, r)
  PROVE  AtRest(c, r)'
<1>1. r \in RoundResults => Len(r) = 3 /\ SubSeq(r, 1, 3) = r /\ SubSeq(r, 4, 3) = <<>> /\ r # <<>>
  BY Results
<1>2. cli[c] # "gone" /\ Len(<<>>) = 0
  BY ClientFrame
<1> QED BY <1>1, <1>2, ClientMoves DEF AtRest

LEMMA AskedStep ==
  ASSUME TypeOK, open, NEW c \in Clients, ClientDoes(c), NEW r, Asked(c, r)
  PROVE  Asked(c, r)'
<1> DEFINE q == r \o <<1>>
<1>1. r \in RoundResults => Len(q) = 4 /\ SubSeq(q, 1, 3) = r /\ SubSeq(q, 4, 4) = <<1>>
  <2> SUFFICES ASSUME r \in RoundResults PROVE Len(q) = 4 /\ SubSeq(q, 1, 3) = r /\ SubSeq(q, 4, 4) = <<1>>
    OBVIOUS
  <2>1. <<1>> \in Seq(Word) /\ Len(<<1>>) = 1
    BY Words, OneWord
  <2>2. Len(q) = 3 + Len(<<1>>) /\ SubSeq(q, 1, 3) = r /\ SubSeq(q, 4, Len(q)) = <<1>>
    BY <2>1, Results
  <2> HIDE DEF q
  <2>3. Len(q) = 4
    BY <2>1, <2>2
  <2> QED BY <2>2, <2>3
<1> HIDE DEF q
<1>2. cli[c] # "gone" /\ Len(<<>>) = 0 /\ Len(<<1>>) = 1 /\ Head(<<1>>) = 1 /\ Tail(<<1>>) = <<>>
  BY ClientFrame, OneWord, Words
<1>3. \A g \in 1..MaxRand : Append(<<>>, g) = <<g>>
  OBVIOUS
<1>4. CASE /\ down[c] = q /\ r \in RoundResults /\ cli[c] = "readResult"
           /\ up[c] = <<>> /\ sent[c] = None
  BY <1>1, <1>2, <1>4, ClientMoves DEF Asked, q
<1>5. CASE /\ down[c] = <<1>> /\ cli[c] \in {"top", "readStart"}
           /\ up[c] = <<>> /\ sent[c] = None
  BY <1>2, <1>5, ClientMoves DEF Asked
<1>6. CASE /\ down[c] = <<>> /\ cli[c] = "guess" /\ up[c] = <<>> /\ sent[c] = None
  BY <1>2, <1>3, <1>6, ClientMoves DEF Asked
<1>7. CASE /\ up[c] = <<sent[c]>> /\ sent[c] \in 1..MaxRand
           /\ down[c] = <<>> /\ cli[c] = "readResult"
  BY <1>2, <1>7, ClientMoves DEF Asked
<1> QED BY <1>2, <1>4, <1>5, <1>6, <1>7 DEF Asked, q

LEMMA AnsweredStep ==
  ASSUME TypeOK, open, NEW c \in Clients, ClientDoes(c), NEW g, Answered(c, g)
  PROVE  Answered(c, g)'
<1>1. cli[c] # "gone" /\ Len(<<>>) = 0
  BY ClientFrame
<1> QED BY <1>1, ClientMoves DEF Answered
-----------------------------------------------------------------------------
(***************************************************************************)
(* A step of a client                                                      *)
(***************************************************************************)

\* A player stays where it is, if neither the server nor its client moves.
LEMMA PlayerSame ==
  ASSUME NEW i \in Players, PlayerInv(i), UNCHANGED <<srv, ci, pid, msg, guess>>,
         NEW c, c = ci[i], up'[c] = up[c], down'[c] = down[c], cli'[c] = cli[c],
         sent'[c] = sent[c], resMsg'[c] = resMsg[c]
  PROVE  PlayerInv(i)'
BY DEF PlayerInv, Waiting, AtRest, Asked, Answered, SrvAt

LEMMA ClientPlayers ==
  ASSUME RaceInv, NEW c \in Clients, ClientDoes(c), NEW i \in Players
  PROVE  PlayerInv(i)'
<1>1. /\ UNCHANGED <<srv, ci, pid, msg, guess>> /\ TypeOK /\ PlayerInv(i)
      /\ \A d \in Clients : d # c =>
               /\ up'[d] = up[d] /\ down'[d] = down[d] /\ cli'[d] = cli[d] /\ sent'[d] = sent[d]
               /\ resMsg'[d] = resMsg[d]
  BY ClientFrame DEF RaceInv
<1>2. CASE ci[i] = 0
  BY <1>1, <1>2 DEF PlayerInv, SrvAt
<1>3. CASE ci[i] # 0 /\ ci[i] # c
  <2>1. ci[i] \in Clients
    BY <1>1, <1>3 DEF TypeOK, Clients
  <2> QED BY <1>1, <1>3, <2>1, PlayerSame
<1>4. CASE ci[i] = c /\ ~open
  <2>1. ~Racing \/ srv = "setup"
    BY <1>4 DEF RaceInv, Service
  <2>2. c # 0
    BY DEF Clients
  <2> QED BY <1>1, <1>4, <2>1, <2>2 DEF PlayerInv, SrvAt, Racing, Left
<1>5. CASE ci[i] = c /\ open
  <2>1. Waiting(c) => Waiting(c)'
    BY <1>1, <1>5, WaitingStep
  <2>2. \A r : AtRest(c, r) => AtRest(c, r)'
    BY <1>1, <1>5, AtRestStep
  <2>3. \A r : Asked(c, r) => Asked(c, r)'
    BY <1>1, <1>5, AskedStep
  <2>4. \A g : Answered(c, g) => Answered(c, g)'
    BY <1>1, <1>5, AnsweredStep
  <2>5. PICK r, g : r = msg[i] /\ g = guess[i]
    OBVIOUS
  <2>6. ci'[i] = c /\ msg'[i] = r /\ guess'[i] = g
    BY <1>1, <1>5, <2>5
  <2>7. /\ AtRest(c, msg[i]) => AtRest(c, r)'
        /\ Asked(c, msg[i]) => Asked(c, r)'
        /\ Answered(c, guess[i]) => Answered(c, g)'
    BY <2>2, <2>3, <2>4, <2>5
  <2>8. /\ AtRest(c, r)' => AtRest(ci[i], msg[i])'
        /\ Asked(c, r)' => Asked(ci[i], msg[i])'
        /\ Answered(c, g)' => Answered(ci[i], guess[i])'
        /\ Answered(c, None)' => Answered(ci[i], None)'
        /\ Waiting(c)' => Waiting(ci[i])'
    BY <2>6 DEF AtRest, Asked, Answered, Waiting
  <2>9. Answered(c, None) => Answered(c, None)'
    BY <2>4
  <2> QED BY <1>1, <1>5, <2>1, <2>5, <2>6, <2>7, <2>8, <2>9 DEF PlayerInv, SrvAt
<1> QED BY <1>2, <1>3, <1>4, <1>5

\* A client prints its verdict as it ends, with SIGTERM or without a server.
LEMMA ClientVerdict ==
  ASSUME TypeOK, NEW c \in Clients, ClientDoes(c)
  PROVE  \/ verdict'[c] = verdict[c]
         \/ /\ cli'[c] = "gone" /\ (~open \/ term[c])
            /\ \/ cli[c] \in {"top", "readStart", "guess"} /\ verdict'[c] \in Verdicts(resMsg[c][1])
               \/ /\ cli[c] = "readResult" /\ Len(down[c]) < 3
                  /\ verdict'[c] \in Verdicts(Overwrite(resMsg[c], down[c])[1])
<1> USE DEF TypeOK, Vanish, Finish
<1>1. CASE CliWritePid(c)
  BY <1>1 DEF CliWritePid
<1>2. CASE CliTop(c)
  BY <1>2 DEF CliTop
<1>3. CASE CliReadStart(c)
  BY <1>3 DEF CliReadStart
<1>4. CASE CliGuess(c)
  BY <1>4 DEF CliGuess
<1>5. CASE CliReadResult(c)
  BY <1>5 DEF CliReadResult
<1>6. CASE CliInterrupt(c)
  BY <1>6 DEF CliInterrupt
<1> QED BY <1>1, <1>2, <1>3, <1>4, <1>5, <1>6 DEF ClientDoes, CliStep

LEMMA ClientService ==
  ASSUME RaceInv, NEW c \in Clients, ClientDoes(c)
  PROVE  Acquaintance' /\ Service'
<1>1. /\ UNCHANGED <<srv, open, file, backlog, ci, pid, score, secret, guess, msg, term, noPipeSig>>
      /\ \A d \in Clients : d # c =>
               /\ up'[d] = up[d] /\ down'[d] = down[d] /\ cli'[d] = cli[d] /\ sent'[d] = sent[d]
               /\ resMsg'[d] = resMsg[d] /\ verdict'[d] = verdict[d]
      /\ cli[c] \notin {"off", "gone"} /\ cli'[c] # "off"
  BY ClientFrame DEF RaceInv
<1>2. TypeOK /\ Acquaintance /\ Service
  BY DEF RaceInv
<1>3. \A d : cli[d] # "off" /\ d \in Clients => cli'[d] # "off"
  BY <1>1
<1>4. \A d \in Clients : Gone(d) => Gone(d)'
  BY <1>1 DEF Gone
<1>5. \A i \in Players : ci[i] # 0 => ci[i] \in Clients
  BY <1>2 DEF TypeOK, Clients
<1>6. Acquaintance'
  <2>1. \A k \in 1..Len(backlog) : backlog[k] \in Clients
    BY <1>2, ElementOfSeq DEF TypeOK
  <2> QED BY <1>1, <1>2, <1>3, <1>5, <2>1 DEF Acquaintance, Plays
<1>7. srv # "setup"
  BY <1>1, <1>2 DEF Service
<1>8. Racing' = Racing /\ (Racing => open /\ ~term[c])
  BY <1>1, <1>2, <1>7 DEF Service, Racing
<1>9. \A d \in Clients : (Racing \/ ~Gone(d))' => verdict'[d] = "none"
  <2> SUFFICES ASSUME NEW d \in Clients, (Racing \/ ~Gone(d))' PROVE verdict'[d] = "none"
    OBVIOUS
  <2>1. CASE d # c
    BY <1>1, <1>2, <1>4, <1>8, <2>1 DEF Service
  <2>2. CASE d = c
    <3>1. verdict[c] = "none"
      BY <1>1, <1>2 DEF Service, Gone
    <3>2. verdict'[c] = verdict[c]
      BY <1>2, <1>8, <2>2, ClientVerdict DEF Gone
    <3> QED BY <2>2, <3>1, <3>2
  <2> QED BY <2>1, <2>2
<1>10. \A i \in Players : pid[i] # 0 /\ (Gone(ci[i]) \/ term[ci[i]]) => (Gone(ci[i]) \/ term[ci[i]])'
  BY <1>1, <1>2, <1>4, <1>5 DEF Acquaintance, Gone
<1>11. \A d \in Clients : Plays(d)' <=> Plays(d)
  BY <1>1 DEF Plays
<1>12. (Racing \/ open)' => \A d \in Clients : ~Plays(d)' => Waiting(d)'
  <2> SUFFICES ASSUME Racing \/ open, NEW d \in Clients, ~Plays(d) PROVE Waiting(d)'
    BY <1>1, <1>8, <1>11
  <2>1. open /\ Waiting(d)
    BY <1>2, <1>8 DEF Service
  <2>2. CASE d = c
    BY <1>2, <2>1, <2>2, WaitingStep
  <2>3. CASE d # c
    BY <1>1, <2>1, <2>3 DEF Waiting
  <2> QED BY <2>2, <2>3
<1>13. Service'
  BY <1>1, <1>2, <1>7, <1>8, <1>9, <1>10, <1>12 DEF Service
<1> QED BY <1>6, <1>13

\* What a client reads during the race
LEMMA Mail ==
  ASSUME RaceInv, Racing, open, NEW c \in Clients
  PROVE  /\ cli[c] = "readStart" /\ down[c] # <<>> => down[c] = <<1>>
         /\ cli[c] = "readResult" /\ down[c] # <<>> =>
               \E r \in RoundResults : down[c] = r \/ down[c] = r \o <<1>>
         /\ cli[c] = "guess" => sent[c] = None /\ secret # None
<1>1. TypeOK /\ Service /\ Rounds /\ srv # "setup"
  BY DEF RaceInv, Service
<1>2. CASE ~Plays(c)
  BY <1>1, <1>2 DEF Service, Waiting
<1>3. ASSUME NEW i \in Players, ci[i] = c
      PROVE  /\ cli[c] = "readStart" /\ down[c] # <<>> => down[c] = <<1>>
             /\ cli[c] = "readResult" /\ down[c] # <<>> =>
                   \E r \in RoundResults : down[c] = r \/ down[c] = r \o <<1>>
             /\ cli[c] = "guess" => sent[c] = None /\ secret # None
  <2>1. PlayerInv(i) /\ c # 0
    BY DEF RaceInv, Clients
  <2>2. srv \in SrvStates
    BY <1>1 DEF TypeOK
  <2>3. CASE srv \in IF i = 1 THEN {"setup", "accept1"} ELSE {"setup", "accept1", "pid1", "accept2"}
    BY <1>3, <2>1, <2>3 DEF PlayerInv
  <2>4. CASE SrvAt(i, "pid1", "pid2")
    BY <1>3, <2>1, <2>4 DEF PlayerInv, Waiting
  <2>5. CASE srv \in IF i = 1 THEN {"accept2", "pid2", "prompt", "start1", "result2"}
                     ELSE {"prompt", "start1", "start2"}
    BY <1>3, <2>1, <2>5 DEF PlayerInv, AtRest
  <2>6. CASE srv \in IF i = 1 THEN {"start2", "guess1"} ELSE {"guess1", "guess2"}
    <3>1. Asked(c, msg[i]) /\ secret # None
      BY <1>1, <1>3, <2>1, <2>6 DEF PlayerInv, Rounds
    <3> QED BY <3>1 DEF Asked
  <2>7. CASE srv \in IF i = 1 THEN {"guess2", "judge"} ELSE {"judge"}
    BY <1>3, <2>1, <2>7 DEF PlayerInv, Answered
  <2>8. CASE srv \in IF i = 1 THEN {"result1"} ELSE {"result1", "result2"}
    BY <1>3, <2>1, <2>8 DEF PlayerInv, Answered
  <2> QED BY <1>1, <2>2, <2>3, <2>4, <2>5, <2>6, <2>7, <2>8 DEF SrvStates, Racing, Left, SrvAt
<1> QED BY <1>2, <1>3 DEF Plays

LEMMA ClientRounds ==
  ASSUME RaceInv, NEW c \in Clients, ClientDoes(c)
  PROVE  Rounds'
<1>1. /\ UNCHANGED <<srv, open, secret, score, msg>>
      /\ \A d \in Clients : d # c => startMsg'[d] = startMsg[d] /\ resMsg'[d] = resMsg[d]
      /\ cli[c] # "off"
  BY ClientFrame DEF RaceInv
<1>2. TypeOK /\ Rounds /\ Service
  BY DEF RaceInv
<1>3. Racing => open
  BY <1>1, <1>2 DEF Service
<1>4. ASSUME Racing PROVE startMsg'[c] \in {0, 1} /\ resMsg'[c] \in RoundResults \cup {Unready}
  <2>1. startMsg[c] \in {0, 1} /\ resMsg[c] \in RoundResults \cup {Unready}
    BY <1>2, <1>4 DEF Rounds
  <2>2. cli[c] = "readStart" /\ down[c] # <<>> => Head(down[c]) = 1
    BY <1>3, <1>4, Mail, OneWord
  <2>3. cli[c] = "readResult" /\ Len(down[c]) >= 3 => SubSeq(down[c], 1, 3) \in RoundResults
    <3> SUFFICES ASSUME cli[c] = "readResult", Len(down[c]) >= 3
                 PROVE  SubSeq(down[c], 1, 3) \in RoundResults
      OBVIOUS
    <3>1. down[c] # <<>>
      OBVIOUS
    <3>2. PICK r \in RoundResults : down[c] = r \/ down[c] = r \o <<1>>
      BY <1>3, <1>4, <3>1, Mail
    <3>3. <<1>> \in Seq(Word)
      BY Words, OneWord
    <3>4. SubSeq(r \o <<1>>, 1, 3) = r /\ SubSeq(r, 1, 3) = r
      BY <3>3, Results
    <3> QED BY <3>2, <3>4
  <2> QED BY <1>2, <1>3, <1>4, <2>1, <2>2, <2>3, ClientReads
<1> QED BY <1>1, <1>2, <1>4 DEF Rounds, Racing

\* A player that has been sent the final message
LEMMA PartingStep ==
  ASSUME TypeOK, NEW c \in Clients, ClientDoes(c), NEW i \in Players, ci[i] = c,
         NEW a \in Word, NEW b \in Word, NEW d \in Word, NEW m, m = <<a, b, d>>,
         Winner(i) => a = WON /\ b = WinScore /\ d \in 0..(WinScore - 1),
         Parting(i, m)
  PROVE  Parting(i, m)'
<1>1. cli[c] # "gone" /\ ci'[i] = c /\ (Winner(i)' <=> Winner(i))
      /\ \A r : Kept(i, r)' <=> Kept(i, r)
  BY ClientFrame DEF Winner, Kept, Other
<1>2. /\ m \in Seq(Word) /\ Len(m) = 3 /\ m # <<>> /\ m[2] = b /\ m[3] = d
      /\ Head(m) = a /\ Tail(m) = <<b, d>>
      /\ Len(<<b, d>>) = 2 /\ Head(<<b, d>>) = b /\ Tail(<<b, d>>) = <<d>>
      /\ Len(<<d>>) = 1 /\ Head(<<d>>) = d /\ Tail(<<d>>) = <<>> /\ Len(<<>>) = 0
  BY ThreeWords, OneWord
<1>3. ASSUME cli'[c] = "gone" PROVE Parting(i, m)'
  BY <1>1, <1>3 DEF Parting, Gone
<1>4. CASE /\ cli[c] = "readResult" /\ sent[c] = None
           /\ \E r \in RoundResults : Kept(i, r) /\ down[c] = r \o m
  <2>1. PICK r \in RoundResults : Kept(i, r) /\ down[c] = r \o m
    BY <1>4
  <2>2. SubSeq(down[c], 1, 3) = r /\ SubSeq(down[c], 4, Len(down[c])) = m
    <3>1. m \in Seq(Word)
      BY <1>2
    <3>2. SubSeq(r \o m, 1, 3) = r /\ SubSeq(r \o m, 4, Len(r \o m)) = m
      BY <3>1, Results
    <3> QED BY <2>1, <3>2
  <2>3. CASE cli'[c] = "top" /\ resMsg'[c] = r /\ down'[c] = m /\ sent'[c] = None
    <3>1. Kept(i, resMsg[c])'
      BY <1>1, <2>1, <2>3 DEF Kept
    <3> QED BY <1>1, <2>3, <3>1 DEF Parting
  <2> QED BY <1>3, <1>4, <2>2, <2>3, ClientMoves
<1>5. CASE /\ cli[c] \in {"top", "readStart", "guess"} /\ sent[c] = None /\ Kept(i, resMsg[c])
           /\ down[c] \in {m, <<m[2], m[3]>>, <<m[3]>>, <<>>}
           /\ cli[c] = "guess" => Len(down[c]) <= 2 /\ (Winner(i) => down[c] \in {<<>>, <<WON>>})
  <2>1. CASE cli'[c] # "gone"
    <3>1. resMsg'[c] = resMsg[c]
      BY <1>5, <2>1, ClientMoves
    <3>2. Kept(i, resMsg[c])'
      BY <1>1, <1>5, <3>1 DEF Kept
    <3>3. CASE cli[c] = "top" /\ cli'[c] = "readStart" /\ UNCHANGED <<up, down, sent>>
      BY <1>1, <1>5, <3>2, <3>3 DEF Parting
    <3>4. CASE /\ cli[c] = "readStart" /\ down[c] # <<>> /\ down'[c] = Tail(down[c])
               /\ cli'[c] = "top" /\ sent' = sent
      BY <1>1, <1>2, <1>5, <3>2, <3>4 DEF Parting
    <3>5. CASE /\ cli[c] = "readStart" /\ down[c] # <<>> /\ down'[c] = Tail(down[c])
               /\ cli'[c] = "guess" /\ (Head(down[c]) = 1 \/ Head(down[c]) = Uninit) /\ sent' = sent
      <4>1. Len(down'[c]) <= 2 /\ down'[c] \in {<<m[2], m[3]>>, <<m[3]>>, <<>>}
        <5>1. down[c] = m => down'[c] = <<b, d>>
          BY <1>2, <3>5
        <5>2. down[c] = <<b, d>> => down'[c] = <<d>>
          BY <1>2, <3>5
        <5>3. down[c] = <<d>> => down'[c] = <<>>
          BY <1>2, <3>5
        <5>4. down[c] \in {m, <<b, d>>, <<d>>}
          BY <1>2, <1>5, <3>5
        <5>5. down'[c] \in {<<b, d>>, <<d>>, <<>>}
          BY <5>1, <5>2, <5>3, <5>4
        <5>6. ASSUME NEW q, q = <<b, d>> \/ q = <<d>> \/ q = <<>> PROVE Len(q) <= 2
          <6>1. q = <<b, d>> => Len(q) = 2
            OBVIOUS
          <6>2. q = <<d>> => Len(q) = 1
            OBVIOUS
          <6>3. q = <<>> => Len(q) = 0
            OBVIOUS
          <6> QED BY <5>6, <6>1, <6>2, <6>3
        <5> QED BY <1>2, <5>5, <5>6
      <4>2. Winner(i) => down'[c] \in {<<>>, <<WON>>}
        <5> SUFFICES ASSUME Winner(i) PROVE down'[c] \in {<<>>, <<WON>>}
          OBVIOUS
        <5>1. a = 0 /\ b = WinScore /\ d \in Int /\ d < WinScore /\ d >= 0 /\ WinScore \in Int
          BY WinScoreAssumption DEF WON
        <5>2. Head(down[c]) = 1
          BY <1>2, <1>5, <3>5, <5>1, NoneAssumption
        <5>3. down[c] # m
          BY <1>2, <5>1, <5>2
        <5>4. down[c] = <<b, d>> => d = 0
          BY <1>2, <5>1, <5>2
        <5> QED BY <1>2, <1>5, <3>5, <5>3, <5>4 DEF WON
      <4> QED BY <1>1, <3>2, <3>5, <4>1, <4>2, <1>5 DEF Parting
    <3>6. CASE cli[c] = "guess" /\ cli'[c] = "readResult" /\ down' = down
      BY <1>1, <1>5, <3>2, <3>6 DEF Parting
    <3> QED BY <1>5, <2>1, <3>3, <3>4, <3>5, <3>6, ClientMoves
  <2> QED BY <1>3, <2>1
<1>6. CASE /\ cli[c] = "readResult" /\ Len(down[c]) <= 2
  BY <1>3, <1>6, ClientMoves
<1> QED BY <1>1, <1>4, <1>5, <1>6 DEF Parting, Gone

\* A winner never prints that it has lost.
LEMMA NotLost ==
  ASSUME NEW w \in {WON, TIE} PROVE "lose" \notin Verdicts(w)
<1>1. w # Uninit /\ w # LOSE
  BY NoneAssumption DEF WON, TIE, LOSE
<1>2. CASE w = WON
  BY <1>1, <1>2 DEF Verdicts
<1>3. CASE w # WON
  BY <1>1, <1>3 DEF Verdicts
<1> QED BY <1>2, <1>3

LEMMA RestVerdict ==
  ASSUME TypeOK, NEW c \in Clients, ClientDoes(c), NEW i \in Players, Winner(i),
         NEW r, Kept(i, r), AtRest(c, r), verdict[c] # "lose"
  PROVE  verdict'[c] # "lose"
<1>1. cli[c] # "gone" /\ \A q \in RoundResults : Len(q) = 3
  BY ClientFrame, Results
<1>2. CASE cli[c] = "readResult"
  BY <1>1, <1>2, ClientVerdict DEF AtRest
<1>3. CASE cli[c] # "readResult"
  <2>1. resMsg[c] = r /\ r[1] \in {WON, TIE}
    BY <1>1, <1>3 DEF AtRest, Kept
  <2> QED BY <1>3, <2>1, ClientVerdict, NotLost
<1> QED BY <1>2, <1>3

LEMMA PartingVerdict ==
  ASSUME TypeOK, \A d \in Clients : Len(resMsg[d]) = 3,
         NEW c \in Clients, ClientDoes(c), NEW i \in Players, ci[i] = c, Winner(i),
         NEW m \in Seq(Word), Len(m) = 3, Parting(i, m), verdict[c] # "lose"
  PROVE  verdict'[c] # "lose"
<1>1. cli[c] # "gone" /\ Len(resMsg[c]) = 3 /\ resMsg[c] \in Seq(Word) /\ down[c] \in Seq(Word)
  BY ClientFrame DEF TypeOK
<1>2. ASSUME cli[c] = "readResult", Len(down[c]) < 3
      PROVE  Overwrite(resMsg[c], down[c])[1] \in {WON, TIE}
  <2>1. ASSUME NEW r \in RoundResults PROVE ~(down[c] = r \o m)
    <3>1. Len(r \o m) = 6
      BY Results
    <3> QED BY <1>2, <3>1
  <2>2. resMsg[c][1] \in {WON, TIE} /\ down[c] \in {<<>>, <<WON>>}
    BY <1>1, <1>2, <2>1 DEF Parting, Kept, Gone
  <2>3. <<WON>>[1] = WON /\ <<WON>> # <<>>
    OBVIOUS
  <2> QED BY <1>1, <2>2, <2>3, Overwritten
<1>3. cli[c] \in {"top", "readStart", "guess"} => resMsg[c][1] \in {WON, TIE}
  BY <1>1 DEF Parting, Kept, Gone
<1> QED BY <1>2, <1>3, ClientVerdict, NotLost

LEMMA ClientEnding ==
  ASSUME RaceInv, NEW c \in Clients, ClientDoes(c)
  PROVE  Ending'
<1>1. /\ UNCHANGED <<srv, open, ci, score, msg>>
      /\ \A d \in Clients : d # c =>
               /\ up'[d] = up[d] /\ down'[d] = down[d] /\ cli'[d] = cli[d] /\ sent'[d] = sent[d]
               /\ resMsg'[d] = resMsg[d] /\ verdict'[d] = verdict[d]
  BY ClientFrame DEF RaceInv
<1>2. TypeOK /\ Ending /\ Service /\ \A d \in Clients : Len(resMsg[d]) = 3
  BY DEF RaceInv
<1> SUFFICES ASSUME Closing, NEW i \in Players
    PROVE  /\ ci[i] # 0 /\ (Winner(i) => verdict'[ci[i]] # "lose")
           /\ srv \in {"final", "final1"} \cup (IF i = 1 THEN {} ELSE {"final2"}) =>
                 \E r \in RoundResults \cup {Unready} : Kept(i, r) /\ AtRest(ci[i], r)'
           /\ srv \in {"kill", "cleanup", "done"} \cup (IF i = 1 THEN {"final2"} ELSE {}) =>
                 Parting(i, msg[i])'
  <2>1. Closing' <=> Closing
    BY <1>1 DEF Closing
  <2>2. \A j \in Players : /\ Winner(j)' <=> Winner(j)
                           /\ \A r : Kept(j, r)' <=> Kept(j, r)
    BY <1>1 DEF Winner, Kept, Other
  <2> QED BY <1>1, <1>2, <2>1, <2>2 DEF Ending
<1>3. /\ ci[i] # 0 /\ (Winner(i) => verdict[ci[i]] # "lose")
      /\ srv \in {"final", "final1"} \cup (IF i = 1 THEN {} ELSE {"final2"}) =>
            \E r \in RoundResults \cup {Unready} : Kept(i, r) /\ AtRest(ci[i], r)
      /\ srv # "final" => \E r \in {WON, LOSE, TIE} : \E a, b \in ScoreWord :
            /\ msg[i] = <<r, a, b>>
            /\ Winner(i) => r = WON /\ a = WinScore /\ b \in 0..(WinScore - 1)
      /\ srv \in {"kill", "cleanup", "done"} \cup (IF i = 1 THEN {"final2"} ELSE {}) =>
            Parting(i, msg[i])
  BY <1>2 DEF Ending
<1>4. ci[i] \in Clients
  BY <1>2, <1>3 DEF TypeOK, Clients
<1>5. CASE ci[i] # c
  <2>1. \A r : AtRest(ci[i], r) => AtRest(ci[i], r)'
    BY <1>1, <1>4, <1>5 DEF AtRest
  <2>2. Parting(i, msg[i]) => Parting(i, msg[i])'
    BY <1>1, <1>4, <1>5 DEF Parting, Kept, Winner, Other, Gone
  <2> QED BY <1>1, <1>3, <1>4, <1>5, <2>1, <2>2
<1>6. CASE ci[i] = c
  <2>1. CASE srv \in {"final", "final1"} \cup (IF i = 1 THEN {} ELSE {"final2"})
    <3>1. open /\ srv \notin {"kill", "cleanup", "done"} \cup (IF i = 1 THEN {"final2"} ELSE {})
      BY <2>1 DEF Closing
    <3>2. PICK r \in RoundResults \cup {Unready} : Kept(i, r) /\ AtRest(c, r)
      BY <1>3, <1>6, <2>1
    <3>3. AtRest(c, r)'
      BY <1>2, <3>1, <3>2, AtRestStep
    <3>4. AtRest(ci[i], r)'
      BY <1>1, <1>6, <3>3 DEF AtRest
    <3>5. Winner(i) => verdict'[c] # "lose"
      BY <1>2, <1>3, <1>6, <3>2, RestVerdict
    <3> QED BY <1>3, <1>6, <3>1, <3>2, <3>4, <3>5
  <2>2. CASE srv \in {"kill", "cleanup", "done"} \cup (IF i = 1 THEN {"final2"} ELSE {})
    <3>1. srv \notin {"final", "final1"} \cup (IF i = 1 THEN {} ELSE {"final2"})
      BY <2>2
    <3>2. PICK w \in {WON, LOSE, TIE}, a \in ScoreWord, b \in ScoreWord :
             /\ msg[i] = <<w, a, b>>
             /\ Winner(i) => w = WON /\ a = WinScore /\ b \in 0..(WinScore - 1)
      BY <1>3, <2>2
    <3>3. PICK m : m = msg[i] /\ Parting(i, m)
      BY <1>3, <2>2
    <3>4. w \in Word /\ a \in Word /\ b \in Word /\ m = <<w, a, b>>
      BY <3>2, <3>3, Words
    <3>5. Parting(i, m)'
      BY <1>2, <1>6, <3>2, <3>3, <3>4, PartingStep
    <3>6. Parting(i, msg[i])'
      BY <1>1, <3>3, <3>5 DEF Parting
    <3>7. m \in Seq(Word) /\ Len(m) = 3
      BY <3>4, ThreeWords
    <3>8. Winner(i) => verdict'[c] # "lose"
      BY <1>2, <1>3, <1>6, <3>3, <3>7, PartingVerdict
    <3> QED BY <1>3, <1>6, <3>1, <3>6, <3>8
  <2>3. srv \in {"final", "final1", "final2", "kill", "cleanup", "done"}
    BY DEF Closing
  <2> QED BY <2>1, <2>2, <2>3
<1> QED BY <1>5, <1>6

LEMMA ClientInv ==
  ASSUME RaceInv, NEW c \in Clients, ClientDoes(c)
  PROVE  RaceInv'
<1>1. TypeOK' /\ \A d \in Clients : Len(resMsg'[d]) = 3
  BY ClientTypes DEF RaceInv
<1> QED BY <1>1, ClientService, ClientRounds, ClientEnding, ClientPlayers DEF RaceInv

\* A client connects.
LEMMA ConnectInv ==
  ASSUME RaceInv, NEW c \in Clients, CliConnect(c)
  PROVE  RaceInv'
<1>1. /\ open /\ cli[c] = "off" /\ cli' = [cli EXCEPT ![c] = "writePid"] /\ backlog' = Append(backlog, c)
      /\ UNCHANGED <<srv, open, file, ci, pid, score, secret, guess, msg, up, down, term,
                     startMsg, resMsg, sent, verdict, noPipeSig>>
  BY DEF CliConnect
<1>2. TypeOK /\ Acquaintance /\ Service /\ Ending
  BY DEF RaceInv
<1>3. \A i \in Players : ci[i] # 0 => ci[i] \in Clients /\ ci[i] # c
  BY <1>1, <1>2 DEF TypeOK, Clients, Acquaintance
<1>4. /\ cli'[c] = "writePid" /\ \A d \in Clients : d # c => cli'[d] = cli[d]
      /\ \A d : Plays(d)' <=> Plays(d)
  BY <1>1, <1>2 DEF TypeOK, Plays
<1>5. TypeOK'
  <2>1. cli' \in [Clients -> CliStates]
    BY <1>1, <1>2 DEF TypeOK, CliStates
  <2>2. backlog' \in Seq(Clients)
    BY <1>1, <1>2, Longer DEF TypeOK
  <2> QED BY <1>1, <1>2, <2>1, <2>2 DEF TypeOK
<1>6. Acquaintance'
  <2>1. /\ Len(backlog') = Len(backlog) + 1 /\ backlog'[Len(backlog) + 1] = c /\ Len(backlog) \in Nat
        /\ \A k \in 1..Len(backlog) : backlog'[k] = backlog[k] /\ backlog[k] \in Clients
    BY <1>1, <1>2, ElementOfSeq DEF TypeOK
  <2>2. \A k \in 1..Len(backlog) : backlog[k] # c
    BY <1>1, <1>2 DEF Acquaintance
  <2>3. ~Plays(c)
    BY <1>1, <1>2 DEF Acquaintance, Plays, Clients
  <2>4. \A k \in 1..(Len(backlog) + 1) : cli'[backlog'[k]] # "off" /\ ~Plays(backlog'[k])
    BY <1>2, <1>4, <2>1, <2>2, <2>3 DEF Acquaintance
  <2>5. \A k, l \in 1..(Len(backlog) + 1) : backlog'[k] = backlog'[l] => k = l
    BY <1>2, <2>1, <2>2 DEF Acquaintance
  <2>6. \A i \in Players : ci[i] # 0 => cli'[ci[i]] # "off"
    BY <1>2, <1>3, <1>4 DEF Acquaintance
  <2> QED BY <1>1, <1>2, <2>1, <2>4, <2>5, <2>6 DEF Acquaintance, Plays
<1>7. \A d \in Clients : Gone(d)' <=> Gone(d)
  BY <1>1, <1>4 DEF Gone
<1>8. Service'
  <2>1. \A d \in Clients : Waiting(d) => Waiting(d)'
    BY <1>1, <1>4 DEF Waiting
  <2>2. Racing' = Racing /\ srv \notin {"setup"} \cup Left
    BY <1>1, <1>2 DEF Racing, Service
  <2> QED BY <1>1, <1>2, <1>4, <1>7, <2>1, <2>2 DEF Service, Left
<1>9. Rounds'
  BY <1>1 DEF RaceInv, Rounds, Racing
<1>10. Ending'
  <2>1. \A i \in Players : ci[i] # 0 => \A r : AtRest(ci[i], r)' <=> AtRest(ci[i], r)
    BY <1>1, <1>3, <1>4 DEF AtRest
  <2>2. \A i \in Players : ci[i] # 0 => (Parting(i, msg[i]) => Parting(i, msg[i])')
    BY <1>1, <1>3, <1>4 DEF Parting, Kept, Winner, Other, Gone
  <2> QED BY <1>1, <1>2, <2>1, <2>2 DEF Ending, Closing, Winner, Kept, Other
<1>11. ASSUME NEW i \in Players PROVE PlayerInv(i)'
  <2>1. PlayerInv(i)
    BY DEF RaceInv
  <2>2. CASE ci[i] = 0
    BY <1>1, <2>1, <2>2 DEF PlayerInv, SrvAt
  <2>3. CASE ci[i] # 0
    BY <1>1, <1>3, <1>4, <2>1, <2>3, PlayerSame
  <2> QED BY <2>2, <2>3
<1>12. \A d \in Clients : Len(resMsg'[d]) = 3
  BY <1>1 DEF RaceInv
<1> QED BY <1>5, <1>6, <1>8, <1>9, <1>10, <1>11, <1>12 DEF RaceInv
-----------------------------------------------------------------------------
(***************************************************************************)
(* A step of the server                                                    *)
(***************************************************************************)

\* The server stops, or it has closed its sockets and is on its way out.
LEMMA StopInv ==
  ASSUME RaceInv,
         UNCHANGED <<backlog, ci, pid, score, secret, guess, msg, up, down,
                     cli, startMsg, resMsg, sent, verdict, noPipeSig>>,
         \/ SrvKilled
         \/ CleanupServer /\ srv' = "failed"
         \/ CleanupServer /\ srv' = "final" /\ srv \in {"start1", "start2", "result1", "result2"}
  PROVE  RaceInv'
<1>1. TypeOK /\ Acquaintance /\ Service /\ Rounds
  BY DEF RaceInv
<1>2. open' = FALSE /\ srv' \in {"killed", "failed", "final"} /\ file' \in BOOLEAN
  BY <1>1 DEF SrvKilled, CleanupServer, TypeOK
<1>3. /\ term' \in [Clients -> BOOLEAN]
      /\ srv' # "killed" => file' = FALSE /\ \A c \in Clients :
            term'[c] <=> term[c] \/ (~Gone(c) /\ \E i \in Players : pid[i] = PidOf(c))
  <2>1. CASE SrvKilled
    BY <1>1, <2>1 DEF SrvKilled, TypeOK
  <2>2. CASE CleanupServer
    <3>1. term' = [c \in Clients |->
                     term[c] \/ (~Gone(c) /\ \E i \in Players : pid[i] = PidOf(c))]
      BY <2>2 DEF CleanupServer, KillBoth
    <3>2. \A c \in Clients : term[c] \in BOOLEAN
      BY <1>1 DEF TypeOK
    <3>3. \A c \in Clients :
             (term[c] \/ (~Gone(c) /\ \E i \in Players : pid[i] = PidOf(c))) \in BOOLEAN
      OBVIOUS
    <3> QED BY <2>2, <3>1, <3>3 DEF CleanupServer
  <2> QED BY <2>1, <2>2
<1>4. TypeOK'
  BY <1>1, <1>2, <1>3 DEF TypeOK, SrvStates, Left
<1>5. Acquaintance'
  BY <1>1 DEF Acquaintance, Plays
<1>6. ~Racing' /\ ~Closing'
  BY <1>2 DEF Racing, Closing, Left
<1>7. Service'
  <2>1. ASSUME srv' = "failed", NEW i \in Players, pid[i] # 0 PROVE (Gone(ci[i]) \/ term[ci[i]])'
    <3>1. ci[i] \in Clients /\ pid[i] = PidOf(ci[i])
      BY <1>1, <2>1 DEF Acquaintance, TypeOK, Clients
    <3> QED BY <1>3, <2>1, <3>1 DEF Gone
  <2>2. \A c \in Clients : ~Gone(c)' => verdict'[c] = "none"
    BY <1>1 DEF Service, Gone
  <2> QED BY <1>2, <1>3, <1>6, <2>1, <2>2 DEF Service, Left
<1>8. Rounds'
  <2>1. ASSUME srv' = "final" PROVE srv \in {"start1", "start2", "result1", "result2"} /\ Racing
    BY <2>1 DEF SrvKilled, Racing, Left
  <2>2. srv' = "final" => \A i \in Players : score[i] = WinScore => msg[i][1] # LOSE
    <3>1. \A i \in Players : score[i] \in Int /\ WinScore \in Int
      BY <1>1, WinScoreAssumption DEF TypeOK
    <3> QED BY <1>1, <2>1, <3>1 DEF Rounds
  <2> QED BY <1>1, <1>2, <1>6, <2>1, <2>2 DEF Rounds
<1>9. Ending'
  BY <1>6 DEF Ending
<1>10. \A i \in Players : PlayerInv(i)'
  BY <1>2 DEF PlayerInv, SrvAt
<1>11. \A d \in Clients : Len(resMsg'[d]) = 3
  BY DEF RaceInv
<1> QED BY <1>4, <1>5, <1>7, <1>8, <1>9, <1>10, <1>11 DEF RaceInv

LEMMA SetupInv == ASSUME RaceInv, SrvSetup PROVE RaceInv'
<1>1. CASE srv' = "failed" /\ CleanupServer
  BY <1>1, StopInv DEF SrvSetup
<1>2. CASE srv' = "accept1" /\ open' = TRUE /\ file' = TRUE /\ UNCHANGED term
  <2>1. srv = "setup" /\ UNCHANGED <<backlog, ci, pid, score, secret, guess, msg, up, down,
                   cli, startMsg, resMsg, sent, verdict, noPipeSig>>
    BY DEF SrvSetup
  <2>2. TypeOK /\ Acquaintance /\ Service /\ Rounds /\ \A i \in Players : PlayerInv(i)
    BY DEF RaceInv
  <2>3. TypeOK'
    BY <1>2, <2>1, <2>2 DEF TypeOK, SrvStates
  <2>4. Acquaintance'
    BY <2>1, <2>2 DEF Acquaintance, Plays
  <2>5. Racing /\ Racing' /\ ~Closing'
    BY <1>2, <2>1 DEF Racing, Closing, Left
  <2>6. Service'
    <3>1. \A c \in Clients : ~Plays(c)' => Waiting(c)'
      BY <2>1, <2>2, <2>5 DEF Service, Plays, Waiting
    <3> QED BY <1>2, <2>1, <2>2, <2>5, <3>1 DEF Service, Left
  <2>7. Rounds'
    BY <1>2, <2>1, <2>2, <2>5 DEF Rounds
  <2>8. Ending'
    BY <2>5 DEF Ending
  <2>9. \A i \in Players : PlayerInv(i)'
    BY <1>2, <2>1, <2>2 DEF PlayerInv, SrvAt
  <2>10. \A d \in Clients : Len(resMsg'[d]) = 3
    BY <2>1 DEF RaceInv
  <2> QED BY <2>3, <2>4, <2>6, <2>7, <2>8, <2>9, <2>10 DEF RaceInv
<1>3. CASE srv' = "noSocket" /\ UNCHANGED <<open, file, term>>
  <2>1. srv = "setup" /\ UNCHANGED <<backlog, ci, pid, score, secret, guess, msg, up, down,
                   cli, startMsg, resMsg, sent, verdict, noPipeSig>>
    BY DEF SrvSetup
  <2>2. TypeOK /\ Acquaintance /\ Service /\ Rounds /\ \A i \in Players : PlayerInv(i)
    BY DEF RaceInv
  <2>3. TypeOK'
    BY <1>3, <2>1, <2>2 DEF TypeOK, SrvStates, Left
  <2>4. Acquaintance'
    BY <2>1, <2>2 DEF Acquaintance, Plays
  <2>5. Racing /\ ~Racing' /\ ~Closing'
    BY <1>3, <2>1 DEF Racing, Closing, Left
  <2>6. Service'
    <3>1. ~open /\ \A c \in Clients : verdict[c] = "none"
      BY <2>1, <2>2, <2>5 DEF Service
    <3> QED BY <1>3, <2>1, <2>5, <3>1 DEF Service
  <2>7. Rounds'
    BY <1>3, <2>5 DEF Rounds
  <2>8. Ending'
    BY <2>5 DEF Ending
  <2>9. \A i \in Players : PlayerInv(i)'
    BY <1>3 DEF PlayerInv, SrvAt
  <2>10. \A d \in Clients : Len(resMsg'[d]) = 3
    BY <2>1 DEF RaceInv
  <2> QED BY <2>3, <2>4, <2>6, <2>7, <2>8, <2>9, <2>10 DEF RaceInv
<1> QED BY <1>1, <1>2, <1>3 DEF SrvSetup

\* accept() fails.
LEMMA AcceptFailsInv == ASSUME RaceInv, NEW i \in Players, SrvAcceptFails(i) PROVE RaceInv'
BY StopInv DEF SrvAcceptFails

LEMMA AcceptInv == ASSUME RaceInv, NEW i \in Players, SrvAccept(i) PROVE RaceInv'
<1> DEFINE c == Head(backlog)
<1>1. /\ srv = (IF i = 1 THEN "accept1" ELSE "accept2") /\ backlog # <<>>
      /\ ci' = [ci EXCEPT ![i] = c] /\ backlog' = Tail(backlog)
      /\ srv' = (IF i = 1 THEN "pid1" ELSE "pid2")
      /\ UNCHANGED <<open, file, pid, score, secret, guess, msg, up, down, cli, term,
                     startMsg, resMsg, verdict, sent, noPipeSig>>
  BY DEF SrvAccept, SrvAt, cliVars
<1>2. TypeOK /\ Acquaintance /\ Service /\ Rounds /\ \A k \in Players : PlayerInv(k)
  BY DEF RaceInv
<1>3. /\ Racing /\ Racing' /\ ~Closing' /\ open
  <2>1. Racing /\ Racing' /\ ~Closing'
    BY <1>1 DEF Racing, Closing, Left
  <2> QED BY <1>1, <1>2, <2>1 DEF Service
<1>4. /\ c \in Clients /\ c = backlog[1] /\ Len(backlog') = Len(backlog) - 1 /\ Len(backlog) \in Nat \ {0}
      /\ backlog' \in Seq(Clients) /\ \A k \in 1..Len(backlog') : backlog'[k] = backlog[k + 1]
  BY <1>1, <1>2, HeadTailProperties, EmptySeq DEF TypeOK
<1> HIDE DEF c
<1>5. cli[c] # "off" /\ ~Plays(c) /\ Waiting(c) /\ c # 0
  BY <1>1, <1>2, <1>3, <1>4 DEF Acquaintance, Service, Clients
<1>6. ci[i] = 0 /\ pid[i] = 0 /\ ci'[i] = c /\ ci' \in [Players -> 0..NClients]
      /\ \A k \in Players : k # i => ci'[k] = ci[k]
  <2>1. ci[i] = 0
    BY <1>1, <1>2 DEF PlayerInv
  <2> QED BY <1>1, <1>2, <1>4, <2>1 DEF TypeOK, Clients, Acquaintance
<1>7. TypeOK'
  BY <1>1, <1>2, <1>4, <1>6 DEF TypeOK, SrvStates
<1>8. \A d : Plays(d)' <=> d = c \/ (d # 0 /\ Plays(d)) \/ (d = 0 /\ Plays(d)')
  BY <1>6 DEF Plays
<1>9. Acquaintance'
  <2>1. \A k \in 1..Len(backlog') : /\ backlog'[k] = backlog[k + 1] /\ k + 1 \in 1..Len(backlog)
                                    /\ backlog[k + 1] \in Clients /\ backlog[k + 1] # 0
    <3> SUFFICES ASSUME NEW k \in 1..Len(backlog')
                 PROVE  /\ backlog'[k] = backlog[k + 1] /\ k + 1 \in 1..Len(backlog)
                        /\ backlog[k + 1] \in Clients /\ backlog[k + 1] # 0
      OBVIOUS
    <3>1. k + 1 \in 1..Len(backlog) /\ backlog'[k] = backlog[k + 1]
      BY <1>4
    <3>2. backlog \in Seq(Clients)
      BY <1>2 DEF TypeOK
    <3>3. backlog[k + 1] \in Clients
      BY <3>1, <3>2, ElementOfSeq
    <3> QED BY <3>1, <3>3 DEF Clients
  <2>2. \A k \in 1..Len(backlog') : backlog'[k] # c
    BY <1>2, <1>4, <2>1 DEF Acquaintance
  <2>3. \A k \in 1..Len(backlog') : cli'[backlog'[k]] # "off" /\ ~Plays(backlog[k])'
    BY <1>1, <1>2, <1>6, <2>1, <2>2 DEF Acquaintance, Plays
  <2>4. \A k, l \in 1..Len(backlog') : backlog'[k] = backlog'[l] => k = l
    <3> SUFFICES ASSUME NEW k \in 1..Len(backlog'), NEW l \in 1..Len(backlog'), backlog'[k] = backlog'[l]
                 PROVE  k = l
      OBVIOUS
    <3>1. k + 1 = l + 1
      BY <1>2, <2>1 DEF Acquaintance
    <3> QED BY <3>1
  <2>5. ci'[1] = ci'[2] => ci'[1] = 0
    BY <1>5, <1>6 DEF Plays, Players
  <2>6. \A k \in Players : /\ pid'[k] # 0 => ci'[k] # 0 /\ pid'[k] = PidOf(ci'[k])
                           /\ ci'[k] # 0 => cli'[ci'[k]] # "off"
    BY <1>1, <1>2, <1>5, <1>6 DEF Acquaintance
  <2> QED BY <2>3, <2>4, <2>5, <2>6 DEF Acquaintance
<1>10. Service'
  <2>1. \A d \in Clients : ~Plays(d)' => Waiting(d)'
    <3>1. \A d \in Clients : Plays(d) => Plays(d)'
      BY <1>6 DEF Plays, Clients
    <3>2. \A d \in Clients : Waiting(d) => Waiting(d)'
      BY <1>1 DEF Waiting
    <3> QED BY <1>2, <1>3, <3>1, <3>2 DEF Service
  <2> QED BY <1>1, <1>2, <1>3, <2>1 DEF Service, Left, Gone
<1>11. Rounds'
  BY <1>1, <1>2, <1>3 DEF Rounds
<1>12. Ending'
  BY <1>3 DEF Ending
<1>13. ASSUME NEW k \in Players PROVE PlayerInv(k)'
  <2>1. CASE k = i
    BY <1>1, <1>5, <1>6, <2>1 DEF PlayerInv, SrvAt, Waiting
  <2>2. CASE k # i /\ i = 1
    BY <1>1, <1>2, <1>6, <2>2 DEF PlayerInv, SrvAt, Players
  <2>3. CASE k # i /\ i = 2
    <3>1. k = 1 /\ ci'[1] = ci[1]
      BY <1>6, <2>3 DEF Players
    <3>2. ci[1] # 0 /\ AtRest(ci[1], msg[1])
      BY <1>1, <1>2, <2>3, <3>1 DEF PlayerInv
    <3> QED BY <1>1, <2>3, <3>1, <3>2 DEF PlayerInv, SrvAt, AtRest
  <2> QED BY <2>1, <2>2, <2>3 DEF Players
<1>14. \A d \in Clients : Len(resMsg'[d]) = 3
  BY <1>1 DEF RaceInv
<1> QED BY <1>7, <1>9, <1>10, <1>11, <1>12, <1>13, <1>14 DEF RaceInv

\* What the server keeps when it goes on with the race
LEMMA GoesOnInv ==
  ASSUME RaceInv, Racing, Racing', srv # "setup", srv' # "setup",
         UNCHANGED <<open, file, backlog, ci, cli, term, startMsg, resMsg, verdict, noPipeSig>>,
         \A c \in Clients : ~Plays(c) => up'[c] = up[c] /\ down'[c] = down[c] /\ sent'[c] = sent[c],
         \A i \in Players : pid'[i] = pid[i] \/ (ci[i] # 0 /\ pid'[i] = PidOf(ci[i])),
         TypeOK', Rounds', \A i \in Players : PlayerInv(i)'
  PROVE  RaceInv'
<1>1. Acquaintance /\ Service /\ \A d \in Clients : Len(resMsg[d]) = 3
  BY DEF RaceInv
<1>2. Acquaintance'
  BY <1>1 DEF Acquaintance, Plays
<1>3. Service'
  <2>1. \A c \in Clients : ~Plays(c)' => Waiting(c)'
    BY <1>1 DEF Service, Plays, Waiting
  <2>2. srv' \notin Left \cup {"kill", "cleanup"}
    BY DEF Racing
  <2> QED BY <1>1, <2>1, <2>2 DEF Service, Left
<1>4. ~Closing'
  BY DEF Racing, Closing, Left
<1> QED BY <1>1, <1>2, <1>3, <1>4 DEF RaceInv, Ending

\* The server is told who a player is.
LEMMA ReadPidInv == ASSUME RaceInv, NEW i \in Players, SrvReadPid(i) PROVE RaceInv'
<1>1. CASE srv' = "failed" /\ CleanupServer /\ up[ci[i]] = <<>> /\ UNCHANGED up
  BY <1>1, StopInv DEF SrvReadPid
<1>2. CASE /\ up[ci[i]] # <<>> /\ up' = [up EXCEPT ![ci[i]] = Tail(@)]
           /\ srv' = (IF i = 1 THEN "accept2" ELSE "prompt") /\ UNCHANGED <<open, file, term>>
  <2>1. /\ srv = (IF i = 1 THEN "pid1" ELSE "pid2") /\ pid' = [pid EXCEPT ![i] = Head(up[ci[i]])]
        /\ UNCHANGED <<backlog, ci, score, secret, guess, msg, down, cli, startMsg, resMsg,
                       sent, verdict, noPipeSig>>
    BY <1>2 DEF SrvReadPid, SrvAt
  <2>2. TypeOK /\ Acquaintance /\ Service /\ Rounds /\ \A k \in Players : PlayerInv(k)
    BY DEF RaceInv
  <2>3. ci[i] # 0 /\ Waiting(ci[i]) /\ pid[i] = 0
    BY <2>1, <2>2 DEF PlayerInv, SrvAt
  <2>4. PICK c \in Clients : c = ci[i]
    BY <2>2, <2>3 DEF TypeOK, Clients
  <2>5. /\ up[c] = <<PidOf(c)>> /\ down[c] = <<>> /\ sent[c] = None /\ resMsg[c] = Unready
        /\ cli[c] \in {"top", "readStart", "gone"}
    BY <1>2, <2>3, <2>4 DEF Waiting
  <2>6. Head(up[c]) = PidOf(c) /\ Tail(up[c]) = <<>> /\ PidOf(c) \in Word /\ <<>> \in Seq(Word)
    BY <2>5, Words, OneWord
  <2>7. /\ up'[c] = <<>> /\ (\A d \in Clients : d # c => up'[d] = up[d]) /\ up' \in [Clients -> Seq(Word)]
        /\ pid'[i] = PidOf(c) /\ (\A k \in Players : k # i => pid'[k] = pid[k])
        /\ pid' \in [Players -> Word]
    BY <1>2, <2>1, <2>2, <2>4, <2>6 DEF TypeOK
  <2>8. TypeOK'
    BY <1>2, <2>1, <2>2, <2>7 DEF TypeOK, SrvStates
  <2>9. /\ Racing /\ Racing' /\ srv # "setup" /\ srv' # "setup"
    BY <1>2, <2>1 DEF Racing, Left
  <2>10. \A k \in Players : msg[k] = Unready
    BY <2>1, <2>2 DEF Rounds
  <2>11. Rounds'
    BY <1>2, <2>1, <2>2, <2>9, <2>10 DEF Rounds
  <2>12. AtRest(c, msg[i])'
    BY <2>1, <2>5, <2>7, <2>10 DEF AtRest
  <2>13. PlayerInv(i)'
    <3>1. AtRest(ci[i], msg[i])'
      BY <2>1, <2>4, <2>12 DEF AtRest
    <3> QED BY <1>2, <2>1, <2>3, <3>1 DEF PlayerInv, SrvAt
  <2>14. ASSUME NEW k \in Players, k # i PROVE PlayerInv(k)'
    <3>1. CASE i = 1
      BY <1>2, <2>1, <2>2, <2>14, <3>1 DEF PlayerInv, SrvAt, Players
    <3>2. CASE i = 2
      <4>1. k = 1 /\ ci[1] # 0 /\ AtRest(ci[1], msg[1]) /\ ci[1] # c
        BY <2>1, <2>2, <2>3, <2>4, <2>14, <3>2 DEF PlayerInv, Players, Acquaintance
      <4>2. ci[1] \in Clients
        BY <2>2, <4>1 DEF TypeOK, Players, Clients
      <4>3. AtRest(ci[1], msg[1])'
        BY <2>1, <2>7, <4>1, <4>2 DEF AtRest
      <4> QED BY <1>2, <2>1, <3>2, <4>1, <4>3 DEF PlayerInv, SrvAt
    <3> QED BY <3>1, <3>2 DEF Players
  <2>15. \A d \in Clients : ~Plays(d) => up'[d] = up[d]
    BY <2>4, <2>7 DEF Plays
  <2>16. \A k \in Players : pid'[k] = pid[k] \/ (ci[k] # 0 /\ pid'[k] = PidOf(ci[k]))
    BY <2>3, <2>4, <2>7
  <2> QED BY <1>2, <2>1, <2>8, <2>9, <2>11, <2>13, <2>14, <2>15, <2>16, GoesOnInv
<1> QED BY <1>1, <1>2 DEF SrvReadPid, SrvReadWord

\* The message in preparation for a player
LEMMA Message ==
  ASSUME TypeOK, Rounds, Racing \/ srv = "final", NEW i \in Players
  PROVE  msg[i] \in RoundResults \cup {Unready}
<1>1. CASE \A k \in Players : msg[k] = Unready
  BY <1>1
<1>2. CASE \E r, o \in {WON, LOSE, TIE} :
             msg[1] = <<r, score[1], score[2]>> /\ msg[2] = <<o, score[2], score[1]>>
  <2>1. PICK r, o \in {WON, LOSE, TIE} :
             msg[1] = <<r, score[1], score[2]>> /\ msg[2] = <<o, score[2], score[1]>>
    BY <1>2
  <2>2. score[1] \in 0..WinScore /\ score[2] \in 0..WinScore
    BY DEF TypeOK, Players
  <2>3. msg[1] \in RoundResults /\ msg[2] \in RoundResults
    BY <2>1, <2>2 DEF RoundResults
  <2> QED BY <2>3 DEF Players
<1> QED BY <1>1, <1>2 DEF Rounds

\* A secret is drawn, or the race ends at the prompt.
LEMMA PromptInv == ASSUME RaceInv, SrvPrompt PROVE RaceInv'
<1>1. /\ srv = "prompt"
      /\ UNCHANGED <<open, file, backlog, ci, pid, score, guess, msg, up, down, cli, term, startMsg,
                     resMsg, verdict, sent, noPipeSig>>
  BY DEF SrvPrompt, cliVars
<1>2. TypeOK /\ Acquaintance /\ Service /\ Rounds /\ \A k \in Players : PlayerInv(k)
  BY DEF RaceInv
<1>3. Racing /\ open
  BY <1>1, <1>2 DEF Racing, Left, Service
<1>4. \A i \in Players : ci[i] # 0 /\ AtRest(ci[i], msg[i]) /\ score[i] < WinScore
  BY <1>1, <1>2, <1>3 DEF PlayerInv, Rounds
<1>5. CASE srv' = "start1" /\ secret' \in 1..MaxRand
  <2>1. Racing'
    BY <1>5 DEF Racing, Left
  <2>2. secret' # None
    BY <1>5, NoneAssumption
  <2>3. TypeOK'
    BY <1>1, <1>2, <1>5 DEF TypeOK, SrvStates
  <2>4. Rounds'
    BY <1>1, <1>2, <1>3, <1>5, <2>1, <2>2 DEF Rounds
  <2>5. \A i \in Players : PlayerInv(i)'
    BY <1>1, <1>4, <1>5 DEF PlayerInv, SrvAt, AtRest
  <2> QED BY <1>1, <1>3, <1>5, <2>1, <2>3, <2>4, <2>5, GoesOnInv
<1>6. CASE srv' = "final" /\ UNCHANGED secret
  <2>1. TypeOK'
    BY <1>1, <1>2, <1>6 DEF TypeOK, SrvStates
  <2>2. Acquaintance'
    BY <1>1, <1>2 DEF Acquaintance, Plays
  <2>3. ~Racing'
    BY <1>6 DEF Racing
  <2>4. Service'
    <3>1. \A c \in Clients : (~Plays(c))' => Waiting(c)'
      BY <1>1, <1>2, <1>3 DEF Service, Plays, Waiting
    <3>2. \A c \in Clients : verdict'[c] = "none"
      BY <1>1, <1>2, <1>3 DEF Service
    <3> QED BY <1>6, <2>3, <3>1, <3>2 DEF Service, Left
  <2>5. \A i \in Players : score[i] # WinScore
    BY <1>2, <1>4, WinScoreAssumption DEF TypeOK
  <2>6. Rounds'
    BY <1>1, <1>2, <1>3, <1>6, <2>3, <2>5 DEF Rounds
  <2>7. Ending'
    <3> SUFFICES ASSUME NEW i \in Players
                 PROVE  ci[i] # 0 /\ \E r \in RoundResults \cup {Unready} : Kept(i, r)' /\ AtRest(ci[i], r)'
      BY <1>1, <1>6, <2>5 DEF Ending, Winner
    <3>1. \A r : Kept(i, r)'
      BY <1>1, <2>5 DEF Kept, Winner
    <3>2. \A r : AtRest(ci[i], r)' <=> AtRest(ci[i], r)
      BY <1>1 DEF AtRest
    <3>3. msg[i] \in RoundResults \cup {Unready}
      BY <1>2, <1>3, Message
    <3> QED BY <1>4, <3>1, <3>2, <3>3
  <2>8. \A i \in Players : PlayerInv(i)'
    BY <1>6 DEF PlayerInv, SrvAt
  <2>9. \A d \in Clients : Len(resMsg'[d]) = 3
    BY <1>1 DEF RaceInv
  <2> QED BY <2>1, <2>2, <2>4, <2>6, <2>7, <2>8, <2>9 DEF RaceInv
<1> QED BY <1>5, <1>6 DEF SrvPrompt

\* The two players are different clients.
LEMMA Apart ==
  ASSUME TypeOK, Acquaintance, NEW i \in Players, ci[i] # 0
  PROVE  /\ ci[i] \in Clients /\ Other(i) \in Players /\ Other(i) # i /\ Other(Other(i)) = i
         /\ \A k \in Players : k = i \/ k = Other(i)
         /\ ci[Other(i)] # 0 => ci[Other(i)] \in Clients /\ ci[Other(i)] # ci[i]
BY DEF TypeOK, Acquaintance, Players, Other, Clients

\* The start flag
LEMMA SendStartInv == ASSUME RaceInv, NEW i \in Players, SrvSendStart(i) PROVE RaceInv'
<1>1. /\ srv = (IF i = 1 THEN "start1" ELSE "start2")
      /\ UNCHANGED <<backlog, ci, pid, score, secret, guess, msg, up, cli, startMsg, resMsg,
                     sent, verdict, noPipeSig>>
  BY DEF SrvSendStart, SrvAt
<1>2. TypeOK /\ Acquaintance /\ Service /\ Rounds /\ \A k \in Players : PlayerInv(k)
  BY DEF RaceInv
<1>3. CASE SrvKilled /\ UNCHANGED down
  BY <1>1, <1>3, StopInv
<1>4. CASE srv' = "final" /\ CleanupServer /\ UNCHANGED down
  BY <1>1, <1>4, StopInv
<1>5. CASE /\ down' = [down EXCEPT ![ci[i]] = @ \o <<1>>] /\ UNCHANGED <<open, file, term>>
           /\ srv' = (IF i = 1 THEN "start2" ELSE "guess1")
  <2>1. /\ Racing /\ Racing' /\ srv # "setup" /\ srv' # "setup"
    BY <1>1, <1>5 DEF Racing, Left
  <2>2. ci[i] # 0 /\ AtRest(ci[i], msg[i])
    BY <1>1, <1>2 DEF PlayerInv
  <2>3. PICK c \in Clients : c = ci[i]
    BY <1>2, <2>2, Apart
  <2>4. down[c] \in Seq(Word) /\ <<1>> \in Seq(Word)
    BY <1>2, Words, OneWord DEF TypeOK
  <2>5. down[c] \o <<1>> \in Seq(Word)
    BY <2>4, ConcatProperties
  <2>6. /\ down' \in [Clients -> Seq(Word)] /\ down'[c] = down[c] \o <<1>>
        /\ \A d \in Clients : d # c => down'[d] = down[d]
    BY <1>2, <1>5, <2>3, <2>5 DEF TypeOK
  <2>7. TypeOK'
    BY <1>1, <1>2, <1>5, <2>6 DEF TypeOK, SrvStates
  <2>8. Rounds'
    BY <1>1, <1>2, <1>5, <2>1 DEF Rounds
  <2>9. Asked(ci[i], msg[i])'
    <3>1. PICK r : r = msg[i]
      OBVIOUS
    <3>2. <<>> \o <<1>> = <<1>>
      OBVIOUS
    <3>3. AtRest(c, r) /\ cli[c] # "off"
      BY <2>2, <2>3, <3>1 DEF AtRest
    <3>4. Asked(c, r)'
      BY <1>1, <2>6, <3>2, <3>3 DEF AtRest, Asked
    <3> QED BY <1>1, <2>3, <3>1, <3>4 DEF Asked
  <2>10. PlayerInv(i)'
    BY <1>1, <1>5, <2>2, <2>9 DEF PlayerInv, SrvAt
  <2>11. PlayerInv(Other(i))'
    <3>1. PICK k \in Players : k = Other(i)
      BY <1>2, <2>2, Apart
    <3>2. ci[k] # 0 /\ (IF i = 1 THEN AtRest(ci[k], msg[k]) ELSE Asked(ci[k], msg[k]))
      BY <1>1, <1>2, <3>1 DEF PlayerInv, Players, Other
    <3>3. PICK d \in Clients : d = ci[k] /\ d # c
      BY <1>2, <2>2, <2>3, <3>1, <3>2, Apart
    <3>4. UNCHANGED <<up, cli, sent, resMsg, ci, msg>> /\ down'[d] = down[d]
      BY <1>1, <2>6, <3>3
    <3>5. IF i = 1 THEN AtRest(ci[k], msg[k])' ELSE Asked(ci[k], msg[k])'
      BY <3>2, <3>3, <3>4 DEF AtRest, Asked
    <3> QED BY <1>1, <1>5, <3>1, <3>2, <3>5 DEF PlayerInv, SrvAt, Players, Other
  <2>12. \A k \in Players : PlayerInv(k)'
    BY <1>2, <2>2, <2>10, <2>11, Apart
  <2>13. \A d \in Clients : ~Plays(d) => down'[d] = down[d]
    BY <2>3, <2>6 DEF Plays
  <2> QED BY <1>1, <1>5, <2>1, <2>7, <2>8, <2>12, <2>13, GoesOnInv
<1>6. open
  BY <1>1, <1>2 DEF Service, Racing, Left
<1> QED BY <1>3, <1>4, <1>5, <1>6 DEF SrvSendStart, SrvWrite

\* A guess is read.
LEMMA ReadGuessInv == ASSUME RaceInv, NEW i \in Players, SrvReadGuess(i) PROVE RaceInv'
<1>1. CASE srv' = "failed" /\ CleanupServer /\ up[ci[i]] = <<>> /\ UNCHANGED up
  BY <1>1, StopInv DEF SrvReadGuess
<1>2. CASE /\ up[ci[i]] # <<>> /\ up' = [up EXCEPT ![ci[i]] = Tail(@)]
           /\ srv' = (IF i = 1 THEN "guess2" ELSE "judge") /\ UNCHANGED <<open, file, term>>
  <2>1. /\ srv = (IF i = 1 THEN "guess1" ELSE "guess2")
        /\ guess' = [guess EXCEPT ![i] = Head(up[ci[i]])]
        /\ UNCHANGED <<backlog, ci, pid, score, secret, msg, down, cli, startMsg, resMsg,
                       sent, verdict, noPipeSig>>
    BY <1>2 DEF SrvReadGuess, SrvAt
  <2>2. TypeOK /\ Acquaintance /\ Service /\ Rounds /\ \A k \in Players : PlayerInv(k)
    BY DEF RaceInv
  <2>3. /\ Racing /\ Racing' /\ srv # "setup" /\ srv' # "setup"
    BY <1>2, <2>1 DEF Racing, Left
  <2>4. ci[i] # 0 /\ Asked(ci[i], msg[i])
    BY <2>1, <2>2 DEF PlayerInv
  <2>5. PICK c \in Clients : c = ci[i]
    BY <2>2, <2>4, Apart
  <2>6. PICK g \in 1..MaxRand : /\ up[c] = <<g>> /\ sent[c] = g /\ down[c] = <<>>
                                /\ cli[c] \in {"readResult", "gone"}
    BY <1>2, <2>4, <2>5 DEF Asked
  <2>7. Head(up[c]) = g /\ Tail(up[c]) = <<>> /\ g \in Word /\ <<>> \in Seq(Word)
    BY <2>6, Words, OneWord
  <2>8. /\ up'[c] = <<>> /\ (\A d \in Clients : d # c => up'[d] = up[d]) /\ up' \in [Clients -> Seq(Word)]
        /\ guess'[i] = g /\ (\A k \in Players : k # i => guess'[k] = guess[k])
        /\ guess' \in [Players -> Word \cup {None}]
    BY <1>2, <2>1, <2>2, <2>5, <2>7 DEF TypeOK
  <2>9. TypeOK'
    BY <1>2, <2>1, <2>2, <2>8 DEF TypeOK, SrvStates
  <2>10. Rounds'
    BY <1>2, <2>1, <2>2, <2>3 DEF Rounds
  <2>11. Answered(ci[i], guess[i])'
    BY <2>1, <2>5, <2>6, <2>8 DEF Answered
  <2>12. PlayerInv(i)'
    BY <1>2, <2>1, <2>4, <2>8, <2>11 DEF PlayerInv, SrvAt
  <2>13. PlayerInv(Other(i))'
    <3>1. PICK k \in Players : k = Other(i) /\ k # i
      BY <2>2, <2>4, Apart
    <3>2. /\ ci[k] # 0 /\ guess'[k] = guess[k]
          /\ IF i = 1 THEN Asked(ci[k], msg[k]) ELSE guess[k] \in 1..MaxRand /\ Answered(ci[k], guess[k])
      BY <2>1, <2>2, <2>8, <3>1 DEF PlayerInv, Players, Other
    <3>3. PICK d \in Clients : d = ci[k] /\ d # c
      BY <2>2, <2>4, <2>5, <3>1, <3>2, Apart
    <3>4. UNCHANGED <<down, cli, sent, resMsg, ci, msg>> /\ up'[d] = up[d]
      BY <2>1, <2>8, <3>3
    <3>5. IF i = 1 THEN Asked(ci[k], msg[k])' ELSE Answered(ci[k], guess[k])'
      BY <3>2, <3>3, <3>4 DEF Answered, Asked
    <3> QED BY <1>2, <2>1, <3>1, <3>2, <3>5 DEF PlayerInv, SrvAt, Players, Other
  <2>14. \A k \in Players : PlayerInv(k)'
    BY <2>2, <2>4, <2>12, <2>13, Apart
  <2>15. \A d \in Clients : ~Plays(d) => up'[d] = up[d]
    BY <2>5, <2>8 DEF Plays
  <2> QED BY <1>2, <2>1, <2>3, <2>9, <2>10, <2>14, <2>15, GoesOnInv
<1> QED BY <1>1, <1>2 DEF SrvReadGuess, SrvReadWord

\* The results of the two guesses agree.
LEMMA RoundResultOk ==
  ASSUME secret \in Int, \A k \in Players : guess[k] \in Int
  PROVE  /\ \A i \in Players : RoundResult(i) \in {WON, LOSE, TIE}
         /\ RoundResult(2) = (CASE RoundResult(1) = WON -> LOSE
                                [] RoundResult(1) = LOSE -> WON [] RoundResult(1) = TIE -> TIE)
<1>1. Distance(guess[1]) \in Int /\ Distance(guess[2]) \in Int
  BY DEF Distance, Players
<1>2. RoundResult(1) = IF Distance(guess[1]) < Distance(guess[2]) THEN WON
                       ELSE IF Distance(guess[2]) < Distance(guess[1]) THEN LOSE ELSE TIE
  BY DEF RoundResult, Other
<1>3. RoundResult(2) = IF Distance(guess[2]) < Distance(guess[1]) THEN WON
                       ELSE IF Distance(guess[1]) < Distance(guess[2]) THEN LOSE ELSE TIE
  BY DEF RoundResult, Other
<1> QED BY <1>1, <1>2, <1>3 DEF Players, WON, LOSE, TIE

\* The round is judged.
LEMMA JudgeInv == ASSUME RaceInv, SrvJudge PROVE RaceInv'
<1>1. /\ srv = "judge" /\ srv' = "result1"
      /\ score' = [i \in Players |-> IF RoundResult(i) = LOSE THEN score[i] ELSE score[i] + 1]
      /\ msg' = [i \in Players |-> <<RoundResult(i), score'[i], score'[Other(i)]>>]
      /\ secret' = None /\ guess' = [i \in Players |-> None]
      /\ sent' = [c \in Clients |-> IF \E i \in Players : ci[i] = c THEN None ELSE sent[c]]
      /\ UNCHANGED <<open, file, backlog, ci, pid, up, down, cli, term, startMsg,
                     resMsg, verdict, noPipeSig>>
  BY DEF SrvJudge, RoundMsg, cliVars
<1>2. TypeOK /\ Acquaintance /\ Service /\ Rounds /\ \A k \in Players : PlayerInv(k)
  BY DEF RaceInv
<1>3. /\ Racing /\ Racing' /\ srv # "setup" /\ srv' # "setup"
  BY <1>1 DEF Racing, Left
<1>4. \A i \in Players : /\ ci[i] # 0 /\ ci[i] \in Clients /\ Answered(ci[i], guess[i])
                         /\ guess[i] \in 1..MaxRand /\ score[i] < WinScore /\ score[i] \in 0..WinScore
  BY <1>1, <1>2, <1>3, Apart DEF PlayerInv, Rounds, TypeOK
<1>5. secret \in 1..MaxRand
  BY <1>1, <1>2, <1>3 DEF Rounds, TypeOK
<1>6. /\ \A i \in Players : RoundResult(i) \in {WON, LOSE, TIE}
      /\ RoundResult(2) = (CASE RoundResult(1) = WON -> LOSE
                             [] RoundResult(1) = LOSE -> WON [] RoundResult(1) = TIE -> TIE)
  <2>1. secret \in Int /\ \A k \in Players : guess[k] \in Int
    BY <1>4, <1>5
  <2> QED BY <2>1, RoundResultOk
<1> HIDE DEF RoundResult
<1>7. /\ score' \in [Players -> 0..WinScore]
      /\ \A i \in Players : score'[i] = WinScore => RoundResult(i) # LOSE
  <2>1. WinScore \in Int
    BY WinScoreAssumption
  <2> QED BY <1>1, <1>4, <2>1
<1>8. /\ msg'[1] = <<RoundResult(1), score'[1], score'[2]>>
      /\ msg'[2] = <<RoundResult(2), score'[2], score'[1]>>
  BY <1>1 DEF Players, Other
<1>9. \A i \in Players : /\ msg'[i] \in Seq(Word) /\ msg'[i][1] = RoundResult(i) /\ msg'[i] # Unready
  <2>1. \A i \in Players : RoundResult(i) \in Word /\ score'[i] \in Word /\ score'[Other(i)] \in Word
    BY <1>6, <1>7, Words DEF ScoreWord, Players, Other
  <2>2. ASSUME NEW i \in Players
        PROVE  msg'[i] \in Seq(Word) /\ msg'[i][1] = RoundResult(i)
    <3>1. msg'[i] = <<RoundResult(i), score'[i], score'[Other(i)]>>
      BY <1>1
    <3> QED BY <2>1, <3>1, ThreeWords
  <2>3. Unready[1] = Uninit /\ Uninit \notin {WON, LOSE, TIE}
    BY NoneAssumption DEF Unready, WON, LOSE, TIE
  <2> QED BY <1>6, <2>2, <2>3
<1>10. TypeOK'
  <2>1. msg' \in [Players -> Seq(Word)]
    BY <1>1, <1>9
  <2>2. sent' \in [Clients -> (1..MaxRand) \cup {None}]
    BY <1>1, <1>2 DEF TypeOK
  <2> QED BY <1>1, <1>2, <1>7, <2>1, <2>2 DEF TypeOK, SrvStates
<1>11. Rounds'
  <2>1. \E r, o \in {WON, LOSE, TIE} :
                /\ msg'[1] = <<r, score'[1], score'[2]>> /\ msg'[2] = <<o, score'[2], score'[1]>>
                /\ o = (CASE r = WON -> LOSE [] r = LOSE -> WON [] r = TIE -> TIE)
    BY <1>6, <1>8 DEF Players
  <2>2. \A c \in Clients : startMsg'[c] \in {0, 1} /\ resMsg'[c] \in RoundResults \cup {Unready}
    BY <1>1, <1>2, <1>3 DEF Rounds
  <2> QED BY <1>1, <1>3, <1>7, <1>9, <2>1, <2>2 DEF Rounds
<1>12. ASSUME NEW i \in Players PROVE PlayerInv(i)'
  <2>1. Answered(ci[i], None)'
    <3>1. PICK c \in Clients : c = ci[i]
      BY <1>4
    <3>2. sent'[c] = None
      BY <1>1, <3>1
    <3> QED BY <1>1, <1>4, <3>1, <3>2 DEF Answered
  <2> QED BY <1>1, <1>4, <2>1 DEF PlayerInv, SrvAt
<1>13. \A c \in Clients : ~Plays(c) => sent'[c] = sent[c]
  BY <1>1 DEF Plays
<1> QED BY <1>1, <1>3, <1>10, <1>11, <1>12, <1>13, GoesOnInv

\* The result of the round; the loop is left when a score is reached.
LEMMA SendResultInv == ASSUME RaceInv, NEW i \in Players, SrvSendResult(i) PROVE RaceInv'
<1>1. /\ srv = (IF i = 1 THEN "result1" ELSE "result2")
      /\ UNCHANGED <<backlog, ci, pid, score, secret, guess, msg, up, cli, startMsg, resMsg,
                     sent, verdict, noPipeSig>>
  BY DEF SrvSendResult, SrvAt
<1>2. TypeOK /\ Acquaintance /\ Service /\ Rounds /\ \A k \in Players : PlayerInv(k)
  BY DEF RaceInv
<1>3. CASE SrvKilled /\ UNCHANGED down
  BY <1>1, <1>3, StopInv
<1>4. CASE srv' = "final" /\ CleanupServer /\ UNCHANGED down
  BY <1>1, <1>4, StopInv
<1>5. CASE /\ down' = [down EXCEPT ![ci[i]] = @ \o msg[i]] /\ UNCHANGED <<open, file, term>>
           /\ srv' = (IF i = 1 THEN "result2" ELSE IF GoesOn THEN "prompt" ELSE "final")
  <2>1. Racing /\ srv # "setup" /\ srv' # "setup"
    BY <1>1, <1>5 DEF Racing, Left
  <2>2. ci[i] # 0 /\ Answered(ci[i], None)
    BY <1>1, <1>2 DEF PlayerInv
  <2>3. PICK c \in Clients : c = ci[i]
    BY <1>2, <2>2, Apart
  <2>4. \A k \in Players : msg[k] \in RoundResults
    BY <1>1, <1>2, <2>1, Message DEF Rounds
  <2>5. PICK r \in RoundResults : r = msg[i]
    BY <2>4
  <2>6. <<>> \o r = r /\ r \in Seq(Word)
    <3>1. r \in Seq(Word)
      BY Words
    <3> QED BY <3>1, ConcatEmptySeq
  <2>7. down[c] = <<>> /\ up[c] = <<>> /\ sent[c] = None /\ cli[c] \in {"readResult", "gone"}
    BY <2>2, <2>3 DEF Answered
  <2>8. /\ down' \in [Clients -> Seq(Word)] /\ down'[c] = r
        /\ \A d \in Clients : d # c => down'[d] = down[d]
    BY <1>2, <1>5, <2>3, <2>5, <2>6, <2>7 DEF TypeOK
  <2>9. TypeOK'
    BY <1>1, <1>2, <1>5, <2>8 DEF TypeOK, SrvStates
  <2>10. AtRest(ci[i], msg[i])'
    BY <1>1, <2>3, <2>5, <2>7, <2>8 DEF AtRest
  <2>11. PICK k \in Players : k = Other(i) /\ k # i
    BY <1>2, <2>2, Apart
  <2>12. ci[k] # 0 /\ (IF i = 1 THEN Answered(ci[k], None)' ELSE AtRest(ci[k], msg[k])')
    <3>1. ci[k] # 0 /\ (IF i = 1 THEN Answered(ci[k], None) ELSE AtRest(ci[k], msg[k]))
      BY <1>1, <1>2, <2>11 DEF PlayerInv, Players, Other
    <3>2. PICK d \in Clients : d = ci[k] /\ d # c
      BY <1>2, <2>2, <2>3, <2>11, <3>1, Apart
    <3>3. UNCHANGED <<up, cli, sent, resMsg, ci, msg>> /\ down'[d] = down[d]
      BY <1>1, <2>8, <3>2
    <3> QED BY <3>1, <3>2, <3>3 DEF AtRest, Answered
  <2>13. \A p \in Players : p = i \/ p = k
    BY <2>11 DEF Players, Other
  <2>14. \A d \in Clients : ~Plays(d) => down'[d] = down[d]
    BY <2>3, <2>8 DEF Plays
  <2>15. CASE srv' # "final"
    <3>1. Racing' /\ (srv' = "prompt" => i = 2 /\ GoesOn) /\ srv' \in {"result2", "prompt"}
      BY <1>5, <2>15 DEF Racing, Left, Players
    <3>2. Rounds'
      BY <1>1, <1>2, <1>5, <2>1, <3>1 DEF Rounds, GoesOn
    <3>3. PlayerInv(i)'
      BY <1>1, <1>5, <2>2, <2>10, <2>15 DEF PlayerInv, SrvAt
    <3>4. PlayerInv(k)'
      BY <1>1, <1>5, <2>11, <2>12, <2>15 DEF PlayerInv, SrvAt, Players
    <3>5. \A p \in Players : PlayerInv(p)'
      BY <2>13, <3>3, <3>4
    <3> QED BY <1>1, <1>5, <2>1, <2>9, <2>14, <3>1, <3>2, <3>5, GoesOnInv
  <2>16. CASE srv' = "final"
    <3>1. srv = "result2" /\ i = 2 /\ ~Racing' /\ open
      BY <1>1, <1>2, <1>5, <2>1, <2>16 DEF Racing, Players, Service
    <3>2. Acquaintance'
      BY <1>1, <1>2 DEF Acquaintance, Plays
    <3>3. Service'
      <4>1. \A d \in Clients : (~Plays(d))' => Waiting(d)'
        BY <1>1, <1>2, <2>1, <2>14 DEF Service, Plays, Waiting
      <4>2. \A d \in Clients : verdict'[d] = "none"
        BY <1>1, <1>2, <2>1 DEF Service
      <4> QED BY <2>16, <3>1, <4>1, <4>2 DEF Service, Left
    <3>4. Rounds'
      BY <1>1, <1>2, <2>1, <2>16, <3>1 DEF Rounds
    <3>5. ASSUME NEW p \in Players
          PROVE  /\ ci'[p] # 0 /\ verdict'[ci[p]] # "lose"
                 /\ msg[p] \in RoundResults /\ Kept(p, msg[p])' /\ AtRest(ci[p], msg[p])'
      <4>1. ci[p] # 0 /\ AtRest(ci[p], msg[p])'
        BY <2>2, <2>10, <2>12, <2>13, <3>1
      <4>2. verdict'[ci[p]] = "none"
        BY <1>1, <1>2, <2>1, <4>1, Apart DEF Service
      <4>3. msg[p][1] \in {WON, LOSE, TIE}
        <5>1. PICK x \in {WON, LOSE, TIE}, y \in 0..WinScore, z \in 0..WinScore : msg[p] = <<x, y, z>>
          BY <2>4 DEF RoundResults
        <5> QED BY <5>1
      <4>4. Kept(p, msg[p])'
        BY <1>1, <1>2, <3>1, <4>3 DEF Rounds, Kept, Winner
      <4> QED BY <1>1, <2>4, <4>1, <4>2, <4>4
    <3>6. Ending'
      <4> SUFFICES ASSUME NEW p \in Players
                   PROVE  /\ ci'[p] # 0 /\ verdict'[ci'[p]] # "lose"
                          /\ \E q \in RoundResults \cup {Unready} : Kept(p, q)' /\ AtRest(ci[p], q)'
        BY <2>16 DEF Ending
      <4>1. PICK q : q = msg[p]
        OBVIOUS
      <4>2. q \in RoundResults /\ Kept(p, q)' /\ AtRest(ci[p], q)'
        BY <1>1, <3>5, <4>1 DEF Kept, AtRest
      <4> QED BY <1>1, <3>5, <4>2
    <3>7. \A p \in Players : PlayerInv(p)'
      BY <2>16 DEF PlayerInv, SrvAt
    <3>8. \A d \in Clients : Len(resMsg'[d]) = 3
      BY <1>1 DEF RaceInv
    <3> QED BY <2>9, <3>2, <3>3, <3>4, <3>6, <3>7, <3>8 DEF RaceInv
  <2> QED BY <2>15, <2>16
<1>6. open
  BY <1>1, <1>2 DEF Service, Racing, Left
<1> QED BY <1>3, <1>4, <1>5, <1>6 DEF SrvSendResult, SrvWrite

\* The result of the game is prepared.
LEMMA FinalInv == ASSUME RaceInv, SrvFinal PROVE RaceInv'
<1>1. /\ srv = "final" /\ srv' = "final1"
      /\ msg' = [i \in Players |-> <<GameResult(i), msg[i][2], msg[i][3]>>]
      /\ UNCHANGED <<open, file, backlog, ci, pid, score, secret, guess, up, down, cli, term, startMsg,
                     resMsg, verdict, sent, noPipeSig>>
  BY DEF SrvFinal, cliVars
<1>2. TypeOK /\ Acquaintance /\ Service /\ Rounds /\ Ending
  BY DEF RaceInv
<1>3. ASSUME NEW i \in Players
      PROVE  /\ msg[i][2] \in ScoreWord /\ msg[i][3] \in ScoreWord
             /\ Winner(i) => msg[i][2] = WinScore /\ msg[i][3] \in 0..(WinScore - 1)
  <2>1. score[i] \in 0..WinScore /\ score[Other(i)] \in 0..WinScore /\ WinScore \in Nat \ {0}
    BY <1>2, WinScoreAssumption DEF TypeOK, Players, Other
  <2>2. CASE \A k \in Players : score[k] = 0 /\ msg[k] = Unready
    BY <2>1, <2>2 DEF Winner, Unready, ScoreWord
  <2>3. CASE \E r, o \in {WON, LOSE, TIE} :
                msg[1] = <<r, score[1], score[2]>> /\ msg[2] = <<o, score[2], score[1]>>
    <3>1. \E r : msg[i] = <<r, score[i], score[Other(i)]>>
      BY <2>3 DEF Players, Other
    <3> QED BY <2>1, <3>1 DEF Winner, ScoreWord
  <2> QED BY <1>1, <1>2, <2>2, <2>3 DEF Rounds
<1>4. \A i \in Players : GameResult(i) \in {WON, LOSE, TIE} /\ (Winner(i) => GameResult(i) = WON)
  <2>1. \A i \in Players : score[i] \in Int /\ score[Other(i)] \in Int /\ WinScore \in Int
    BY <1>2, WinScoreAssumption DEF TypeOK, Players, Other
  <2> QED BY <2>1 DEF GameResult, Winner
<1>5. \A i \in Players : msg'[i] \in Seq(Word)
  <2> SUFFICES ASSUME NEW i \in Players PROVE msg'[i] \in Seq(Word)
    OBVIOUS
  <2>1. GameResult(i) \in Word /\ msg[i][2] \in Word /\ msg[i][3] \in Word
    BY <1>3, <1>4, Words
  <2>2. msg'[i] = <<GameResult(i), msg[i][2], msg[i][3]>>
    BY <1>1
  <2> QED BY <2>1, <2>2, ThreeWords
<1>6. TypeOK'
  <2>1. msg' \in [Players -> Seq(Word)]
    BY <1>1, <1>5
  <2> QED BY <1>1, <1>2, <2>1 DEF TypeOK, SrvStates
<1>7. Acquaintance'
  BY <1>1, <1>2 DEF Acquaintance, Plays
<1>8. ~Racing /\ ~Racing'
  BY <1>1 DEF Racing
<1>9. Service'
  BY <1>1, <1>2, <1>8 DEF Service, Left, Gone, Plays, Waiting
<1>10. Rounds'
  BY <1>1, <1>8 DEF Rounds
<1>11. Ending'
  <2> SUFFICES ASSUME open, NEW i \in Players
               PROVE  /\ ci'[i] # 0 /\ (Winner(i)' => verdict'[ci'[i]] # "lose")
                      /\ \E r \in RoundResults \cup {Unready} : Kept(i, r)' /\ AtRest(ci[i], r)'
                      /\ \E r \in {WON, LOSE, TIE} : \E a, b \in ScoreWord :
                            /\ msg'[i] = <<r, a, b>>
                            /\ Winner(i)' => r = WON /\ a = WinScore /\ b \in 0..(WinScore - 1)
    BY <1>1 DEF Ending, Closing
  <2>1. /\ ci[i] # 0 /\ (Winner(i) => verdict[ci[i]] # "lose")
        /\ \E r \in RoundResults \cup {Unready} : Kept(i, r) /\ AtRest(ci[i], r)
    BY <1>1, <1>2 DEF Ending, Closing
  <2>2. (Winner(i)' <=> Winner(i)) /\ \A r : (Kept(i, r)' <=> Kept(i, r)) /\ (AtRest(ci[i], r)' <=> AtRest(ci[i], r))
    BY <1>1 DEF Winner, Kept, Other, AtRest
  <2>3. msg'[i] = <<GameResult(i), msg[i][2], msg[i][3]>>
    BY <1>1
  <2> QED BY <1>1, <1>3, <1>4, <2>1, <2>2, <2>3
<1>12. \A i \in Players : PlayerInv(i)'
  BY <1>1 DEF PlayerInv, SrvAt
<1>13. \A d \in Clients : Len(resMsg'[d]) = 3
  BY <1>1 DEF RaceInv
<1> QED BY <1>6, <1>7, <1>9, <1>10, <1>11, <1>12, <1>13 DEF RaceInv

\* The result of the game is sent.
LEMMA SendFinalInv == ASSUME RaceInv, NEW i \in Players, SrvSendFinal(i) PROVE RaceInv'
<1>1. /\ srv = (IF i = 1 THEN "final1" ELSE "final2")
      /\ UNCHANGED <<backlog, ci, pid, score, secret, guess, msg, up, cli, startMsg, resMsg,
                     sent, verdict, noPipeSig>>
  BY DEF SrvSendFinal, SrvAt
<1>2. TypeOK /\ Acquaintance /\ Service /\ Rounds /\ Ending
  BY DEF RaceInv
<1>3. CASE SrvKilled /\ UNCHANGED down
  BY <1>1, <1>3, StopInv
<1>4. CASE srv' = "failed" /\ CleanupServer /\ UNCHANGED down
  BY <1>1, <1>4, StopInv
<1>5. CASE /\ open /\ down' = [down EXCEPT ![ci[i]] = @ \o msg[i]] /\ UNCHANGED <<open, file, term>>
           /\ srv' = (IF i = 1 THEN "final2" ELSE "kill")
  <2>1. ~Racing /\ ~Racing' /\ Closing
    BY <1>1, <1>5 DEF Racing, Closing, Left
  <2>2. \A k \in Players :
            /\ ci[k] # 0 /\ (Winner(k) => verdict[ci[k]] # "lose")
            /\ \E r \in {WON, LOSE, TIE} : \E a, b \in ScoreWord :
                  /\ msg[k] = <<r, a, b>>
                  /\ Winner(k) => r = WON /\ a = WinScore /\ b \in 0..(WinScore - 1)
            /\ IF i = 2 /\ k = 1 THEN Parting(k, msg[k])
               ELSE \E r \in RoundResults \cup {Unready} : Kept(k, r) /\ AtRest(ci[k], r)
    BY <1>1, <1>2, <2>1 DEF Ending, Players
  <2>3. PICK c \in Clients : c = ci[i]
    BY <1>2, <2>2, Apart
  <2>4. PICK m : m = msg[i]
    OBVIOUS
  <2>5. m \in Seq(Word) /\ down[c] \in Seq(Word)
    BY <1>2, <2>4 DEF TypeOK
  <2>6. down[c] \o m \in Seq(Word) /\ <<>> \o m = m
    BY <2>5, ConcatProperties, ConcatEmptySeq
  <2>7. /\ down' \in [Clients -> Seq(Word)] /\ down'[c] = down[c] \o m
        /\ \A d \in Clients : d # c => down'[d] = down[d]
    BY <1>2, <1>5, <2>3, <2>4, <2>6 DEF TypeOK
  <2>8. TypeOK'
    BY <1>1, <1>2, <1>5, <2>7 DEF TypeOK, SrvStates
  <2>9. Acquaintance'
    BY <1>1, <1>2 DEF Acquaintance, Plays
  <2>10. Service'
    <3>1. \A d \in Clients : (~Plays(d))' => Waiting(d)'
      BY <1>1, <1>2, <1>5, <2>3, <2>7 DEF Service, Plays, Waiting
    <3> QED BY <1>1, <1>2, <1>5, <2>1, <3>1 DEF Service, Left, Gone
  <2>11. Rounds'
    BY <1>1, <1>5, <2>1 DEF Rounds
  <2>12. \A k \in Players : PlayerInv(k)'
    BY <1>1, <1>5 DEF PlayerInv, SrvAt, Players
  <2>13. \A k \in Players : /\ Winner(k)' <=> Winner(k)
                            /\ \A r : Kept(k, r)' <=> Kept(k, r)
    BY <1>1 DEF Winner, Kept, Other
  <2>14. Parting(i, msg[i])'
    <3>1. PICK r \in RoundResults \cup {Unready} : Kept(i, r) /\ AtRest(c, r)
      BY <2>2, <2>3 DEF Players
    <3>2. CASE down[c] = r /\ r \in RoundResults /\ cli[c] = "readResult"
      <4>1. cli'[c] = "readResult" /\ sent'[c] = None /\ Kept(i, r)' /\ down'[c] = r \o m
        BY <1>1, <2>7, <2>13, <3>1, <3>2 DEF AtRest
      <4>2. Parting(i, m)'
        BY <1>1, <2>3, <3>2, <4>1 DEF Parting
      <4> QED BY <1>1, <2>4, <4>2 DEF Parting
    <3>3. CASE down[c] = <<>> /\ cli[c] \in {"top", "readStart"} /\ resMsg[c] = r
      <4>1. PICK q : q = resMsg[c]
        OBVIOUS
      <4>2. /\ cli'[c] \in {"top", "readStart"} /\ sent'[c] = None /\ down'[c] = m
            /\ Kept(i, q)' /\ resMsg'[c] = q
        BY <1>1, <2>6, <2>7, <2>13, <3>1, <3>3, <4>1 DEF AtRest
      <4>3. Parting(i, m)'
        BY <1>1, <2>3, <4>2 DEF Parting, Kept
      <4> QED BY <1>1, <2>4, <4>3 DEF Parting
    <3>4. CASE cli[c] = "gone"
      BY <1>1, <2>3, <3>4 DEF Parting, Gone
    <3> QED BY <3>1, <3>2, <3>3, <3>4 DEF AtRest
  <2>15. ASSUME NEW k \in Players, k # i
         PROVE  IF i = 2 THEN Parting(k, msg[k])'
                ELSE \E r \in RoundResults \cup {Unready} : Kept(k, r)' /\ AtRest(ci[k], r)'
    <3>1. PICK d \in Clients : d = ci[k] /\ d # c
      <4>1. k = Other(i) /\ ci[i] # 0 /\ ci[k] # 0
        BY <2>2, <2>15 DEF Players, Other
      <4> QED BY <1>2, <2>3, <4>1, Apart
    <3>2. UNCHANGED <<up, cli, sent, resMsg, ci, msg, score>> /\ down'[d] = down[d]
      BY <1>1, <2>7, <3>1
    <3>3. CASE i = 2
      <4>1. Parting(k, msg[k])
        BY <2>2, <2>15, <3>3 DEF Players
      <4> QED BY <3>1, <3>2, <3>3, <4>1 DEF Parting, Kept, Winner, Other, Gone
    <3>4. CASE i = 1
      <4>1. PICK r \in RoundResults \cup {Unready} : Kept(k, r) /\ AtRest(ci[k], r)
        BY <2>2, <3>4
      <4>2. AtRest(ci[k], r)'
        BY <3>1, <3>2, <4>1 DEF AtRest
      <4> QED BY <2>13, <3>4, <4>1, <4>2
    <3> QED BY <3>3, <3>4 DEF Players
  <2>16. Ending'
    <3> SUFFICES ASSUME NEW k \in Players
        PROVE  /\ ci'[k] # 0 /\ (Winner(k)' => verdict'[ci'[k]] # "lose")
               /\ \E r \in {WON, LOSE, TIE} : \E a, b \in ScoreWord :
                     /\ msg'[k] = <<r, a, b>>
                     /\ Winner(k)' => r = WON /\ a = WinScore /\ b \in 0..(WinScore - 1)
               /\ IF i = 2 \/ k = 1 THEN Parting(k, msg[k])'
                  ELSE \E r \in RoundResults \cup {Unready} : Kept(k, r)' /\ AtRest(ci[k], r)'
      BY <1>5 DEF Ending, Players
    <3> QED BY <1>1, <2>2, <2>13, <2>14, <2>15 DEF Players
  <2>17. \A d \in Clients : Len(resMsg'[d]) = 3
    BY <1>1 DEF RaceInv
  <2> QED BY <2>8, <2>9, <2>10, <2>11, <2>12, <2>16, <2>17 DEF RaceInv
<1> QED BY <1>3, <1>4, <1>5 DEF SrvSendFinal, SrvWrite

\* SIGTERM to the players, and then the cleanup
LEMMA PartInv ==
  ASSUME RaceInv,
         UNCHANGED <<backlog, ci, pid, score, secret, guess, msg, up, down,
                     cli, startMsg, resMsg, sent, verdict, noPipeSig>>,
         \/ srv = "kill" /\ srv' = "cleanup" /\ KillBoth /\ UNCHANGED <<open, file>>
         \/ srv = "cleanup" /\ srv' = "done" /\ CleanupServer
  PROVE  RaceInv'
<1>1. TypeOK /\ Acquaintance /\ Service /\ Rounds /\ Ending
  BY DEF RaceInv
<1>2. /\ term' \in [Clients -> BOOLEAN]
      /\ \A c \in Clients :
            term'[c] <=> term[c] \/ (~Gone(c) /\ \E i \in Players : pid[i] = PidOf(c))
  <2>1. term' = [c \in Clients |->
                   term[c] \/ (~Gone(c) /\ \E i \in Players : pid[i] = PidOf(c))]
    BY DEF CleanupServer, KillBoth
  <2>2. \A c \in Clients :
           (term[c] \/ (~Gone(c) /\ \E i \in Players : pid[i] = PidOf(c))) \in BOOLEAN
    OBVIOUS
  <2> QED BY <2>1, <2>2
<1>3. TypeOK'
  BY <1>1, <1>2 DEF TypeOK, SrvStates, CleanupServer, Left
<1>4. Acquaintance'
  BY <1>1 DEF Acquaintance, Plays
<1>5. ~Racing /\ ~Racing' /\ Closing
  BY DEF Racing, Closing, Left
<1>6. Service'
  <2>1. ASSUME NEW i \in Players, pid[i] # 0 PROVE (Gone(ci[i]) \/ term[ci[i]])'
    <3>1. ci[i] \in Clients /\ pid[i] = PidOf(ci[i])
      BY <1>1, <2>1 DEF Acquaintance, TypeOK, Clients
    <3> QED BY <1>2, <3>1 DEF Gone
  <2>2. srv' = "done" => ~open' /\ ~file'
    BY DEF CleanupServer
  <2>3. \A c \in Clients : ~Gone(c)' => verdict'[c] = "none"
    BY <1>1, <1>5 DEF Service, Gone
  <2>4. srv' = "cleanup" => open' /\ \A c \in Clients : (~Plays(c))' => Waiting(c)'
    BY <1>1 DEF Service, Plays, Waiting
  <2> QED BY <1>5, <2>1, <2>2, <2>3, <2>4 DEF Service, Left
<1>7. Rounds'
  BY <1>5 DEF Rounds
<1>8. Ending'
  <2> SUFFICES ASSUME NEW i \in Players
      PROVE  /\ ci'[i] # 0 /\ (Winner(i)' => verdict'[ci'[i]] # "lose")
             /\ \E r \in {WON, LOSE, TIE} : \E a, b \in ScoreWord :
                   /\ msg'[i] = <<r, a, b>>
                   /\ Winner(i)' => r = WON /\ a = WinScore /\ b \in 0..(WinScore - 1)
             /\ Parting(i, msg[i])'
    BY DEF Ending
  <2>1. /\ ci[i] # 0 /\ (Winner(i) => verdict[ci[i]] # "lose")
        /\ \E r \in {WON, LOSE, TIE} : \E a, b \in ScoreWord :
              /\ msg[i] = <<r, a, b>>
              /\ Winner(i) => r = WON /\ a = WinScore /\ b \in 0..(WinScore - 1)
        /\ Parting(i, msg[i])
    BY <1>1, <1>5 DEF Ending
  <2>2. Winner(i)' <=> Winner(i)
    BY DEF Winner, Other
  <2>3. Parting(i, msg[i])'
    BY <2>1 DEF Parting, Kept, Winner, Other, Gone
  <2> QED BY <2>1, <2>2, <2>3
<1>9. \A i \in Players : PlayerInv(i)'
  BY DEF PlayerInv, SrvAt
<1>10. \A d \in Clients : Len(resMsg'[d]) = 3
  BY DEF RaceInv
<1> QED BY <1>3, <1>4, <1>6, <1>7, <1>8, <1>9, <1>10 DEF RaceInv

LEMMA KillInv == ASSUME RaceInv, SrvKill PROVE RaceInv'
<1>1. CASE KillBoth /\ srv' = "cleanup" /\ UNCHANGED <<open, file>>
  BY <1>1, PartInv DEF SrvKill
<1>2. CASE srv' = "failed" /\ CleanupServer
  BY <1>2, StopInv DEF SrvKill
<1> QED BY <1>1, <1>2 DEF SrvKill

LEMMA CleanupInv == ASSUME RaceInv, SrvCleanup PROVE RaceInv'
BY PartInv DEF SrvCleanup

LEMMA InterruptInv == ASSUME RaceInv, SrvInterrupt PROVE RaceInv'
BY StopInv DEF SrvInterrupt
-----------------------------------------------------------------------------
(***************************************************************************)
(* The invariant of the race                                               *)
(***************************************************************************)
LEMMA InitRace == Init => RaceInv
<1> SUFFICES ASSUME Init PROVE RaceInv
  OBVIOUS
<1>1. 0 \in Word /\ Uninit \in Word /\ Unready \in Seq(Word) /\ Len(Unready) = 3
  BY Words DEF Word
<1>2. <<>> \in Seq(Word) /\ <<>> \in Seq(Clients) /\ Len(<<>>) = 0
  OBVIOUS
<1>3. TypeOK /\ \A c \in Clients : Len(resMsg[c]) = 3
  <2>1. NClients \in Nat /\ WinScore \in Nat
    BY NClientsAssumption, WinScoreAssumption
  <2>2. /\ msg \in [Players -> Seq(Word)] /\ resMsg \in [Clients -> Seq(Word)]
        /\ \A c \in Clients : Len(resMsg[c]) = 3
    BY <1>1 DEF Init, Unready
  <2>3. /\ up \in [Clients -> Seq(Word)] /\ down \in [Clients -> Seq(Word)] /\ backlog \in Seq(Clients)
    BY <1>2 DEF Init
  <2>4. /\ pid \in [Players -> Word] /\ startMsg \in [Clients -> Word]
    BY <1>1 DEF Init
  <2>5. /\ srv \in SrvStates /\ cli \in [Clients -> CliStates]
    BY DEF Init, SrvStates, CliStates
  <2>6. /\ ci \in [Players -> 0..NClients] /\ score \in [Players -> 0..WinScore]
        /\ guess \in [Players -> Word \cup {None}] /\ sent \in [Clients -> (1..MaxRand) \cup {None}]
        /\ verdict \in [Clients -> {"none", "win", "lose", "tie"}] /\ term \in [Clients -> BOOLEAN]
    BY <2>1 DEF Init
  <2>7. /\ open \in BOOLEAN /\ file \in BOOLEAN /\ noPipeSig \in BOOLEAN
        /\ secret \in (1..MaxRand) \cup {None}
    BY DEF Init
  <2> QED BY <2>2, <2>3, <2>4, <2>5, <2>6, <2>7 DEF TypeOK
<1>4. Acquaintance
  BY <1>2 DEF Init, Acquaintance, Players
<1>5. Racing /\ ~Closing
  BY DEF Init, Racing, Closing, Left
<1>6. Service
  BY <1>5 DEF Init, Service, Left, Waiting, Unready
<1>7. Rounds
  BY WinScoreAssumption, <1>5 DEF Init, Rounds, Unready
<1>8. \A i \in Players : PlayerInv(i)
  BY DEF Init, PlayerInv, SrvAt
<1> QED BY <1>3, <1>4, <1>5, <1>6, <1>7, <1>8 DEF RaceInv, Ending

LEMMA EndingSame ==
  ASSUME Ending, UNCHANGED <<srv, open, ci, score, msg, up, down, cli, sent, resMsg, verdict>>
  PROVE  Ending'
<1> SUFFICES ASSUME Closing, NEW i \in Players
    PROVE  /\ ci[i] # 0 /\ (Winner(i) => verdict[ci[i]] # "lose")
           /\ srv \in {"final", "final1"} \cup (IF i = 1 THEN {} ELSE {"final2"}) =>
                 \E r \in RoundResults \cup {Unready} : Kept(i, r)' /\ AtRest(ci[i], r)'
           /\ srv # "final" => \E r \in {WON, LOSE, TIE} : \E a, b \in ScoreWord :
                 /\ msg[i] = <<r, a, b>>
                 /\ Winner(i) => r = WON /\ a = WinScore /\ b \in 0..(WinScore - 1)
           /\ srv \in {"kill", "cleanup", "done"} \cup (IF i = 1 THEN {"final2"} ELSE {}) =>
                 Parting(i, msg[i])'
  BY DEF Ending, Closing, Winner, Other
<1>1. /\ ci[i] # 0 /\ (Winner(i) => verdict[ci[i]] # "lose")
      /\ srv \in {"final", "final1"} \cup (IF i = 1 THEN {} ELSE {"final2"}) =>
            \E r \in RoundResults \cup {Unready} : Kept(i, r) /\ AtRest(ci[i], r)
      /\ srv # "final" => \E r \in {WON, LOSE, TIE} : \E a, b \in ScoreWord :
            /\ msg[i] = <<r, a, b>>
            /\ Winner(i) => r = WON /\ a = WinScore /\ b \in 0..(WinScore - 1)
      /\ srv \in {"kill", "cleanup", "done"} \cup (IF i = 1 THEN {"final2"} ELSE {}) =>
            Parting(i, msg[i])
  BY DEF Ending
<1>2. \A r : Kept(i, r) /\ AtRest(ci[i], r) => Kept(i, r)' /\ AtRest(ci[i], r)'
  BY DEF Kept, AtRest, Winner, Other
<1>3. Parting(i, msg[i]) => Parting(i, msg[i])'
  BY DEF Parting, Kept, Winner, Other, Gone
<1> QED BY <1>1, <1>2, <1>3

LEMMA NextRace == ASSUME RaceInv, [Next]_vars PROVE RaceInv'
<1>1. CASE UNCHANGED vars
  <2> USE <1>1 DEF vars
  <2>1. TypeOK' /\ \A c \in Clients : Len(resMsg'[c]) = 3
    BY DEF RaceInv, TypeOK
  <2>2. Acquaintance'
    BY DEF RaceInv, Acquaintance, Plays
  <2>3. Service'
    BY DEF RaceInv, Service, Racing, Gone, Plays, Waiting
  <2>4. Rounds'
    BY DEF RaceInv, Rounds, Racing
  <2>5. Ending'
    BY EndingSame DEF RaceInv
  <2>6. ASSUME NEW i \in Players PROVE PlayerInv(i)'
    <3>1. PlayerInv(i)
      BY DEF RaceInv
    <3> QED BY <3>1, PlayerSame
  <2> QED BY <2>1, <2>2, <2>3, <2>4, <2>5, <2>6 DEF RaceInv
<1>2. CASE SrvStep
  BY <1>2, SetupInv, AcceptInv, ReadPidInv, SendStartInv, ReadGuessInv, SendResultInv, SendFinalInv,
     JudgeInv, FinalInv, KillInv, CleanupInv DEF SrvStep
<1>3. CASE \E c \in Clients : CliStep(c)
  BY <1>3, ClientInv DEF ClientDoes
<1>4. CASE User
  BY <1>4, PromptInv, InterruptInv, AcceptFailsInv, ConnectInv, ClientInv DEF User, ClientDoes
<1> QED BY <1>1, <1>2, <1>3, <1>4 DEF Next

\* The invariant of the race holds however its processes interleave, end or
\* are interrupted.
THEOREM RaceGoesWell == Spec => []RaceInv
<1>1. RaceInv /\ [Next]_vars => RaceInv'
  BY NextRace
<1> QED BY InitRace, <1>1, PTL DEF Spec

\* Every variable keeps its type, and no score passes WIN_SCORE.
THEOREM TypesKept == Spec => []TypeOK
BY RaceGoesWell, PTL DEF RaceInv

\* When the server prompts, the streams hold nothing but a result that is not
\* read yet, and whoever has read its own knows the scores of the server.
THEOREM PromptInStep == Spec => []InStep
<1>1. RaceInv => InStep
  <2> SUFFICES ASSUME RaceInv, srv = "prompt", NEW i \in Players
      PROVE  /\ up[ci[i]] = <<>> /\ down[ci[i]] \in {<<>>, msg[i]}
             /\ down[ci[i]] # <<>> => cli[ci[i]] \in {"readResult", "gone"}
             /\ (\E k \in Players : score[k] > 0) /\ Here(i) /\ down[ci[i]] = <<>> =>
                    \E r \in {WON, LOSE, TIE} :
                        /\ resMsg[ci[i]] = <<r, score[i], score[Other(i)]>>
                        /\ msg[Other(i)][1] = (CASE r = WON -> LOSE [] r = LOSE -> WON [] r = TIE -> TIE)
    BY DEF InStep
  <2>1. TypeOK /\ Rounds /\ PlayerInv(i) /\ Racing
    BY DEF RaceInv, Racing, Left
  <2>2. ci[i] # 0 /\ AtRest(ci[i], msg[i])
    BY <2>1 DEF PlayerInv
  <2>3. ASSUME \E k \in Players : score[k] > 0, Here(i), down[ci[i]] = <<>>
        PROVE  \E r \in {WON, LOSE, TIE} :
                   /\ resMsg[ci[i]] = <<r, score[i], score[Other(i)]>>
                   /\ msg[Other(i)][1] = (CASE r = WON -> LOSE [] r = LOSE -> WON [] r = TIE -> TIE)
    <3>1. resMsg[ci[i]] = msg[i]
      <4>1. msg[i] \in RoundResults => msg[i] # <<>>
        BY Results
      <4> QED BY <2>2, <2>3, <4>1 DEF AtRest, Here, Gone
    <3>2. PICK r, o \in {WON, LOSE, TIE} :
             /\ msg[1] = <<r, score[1], score[2]>> /\ msg[2] = <<o, score[2], score[1]>>
             /\ o = (CASE r = WON -> LOSE [] r = LOSE -> WON [] r = TIE -> TIE)
      BY <2>1, <2>3 DEF Rounds
    <3>3. msg[1][1] = r /\ msg[2][1] = o
      BY <3>2
    <3>4. r = (CASE o = WON -> LOSE [] o = LOSE -> WON [] o = TIE -> TIE)
      BY <3>2 DEF WON, LOSE, TIE
    <3>5. CASE i = 1
      <4>1. /\ resMsg[ci[i]] = <<r, score[i], score[Other(i)]>>
            /\ msg[Other(i)][1] = (CASE r = WON -> LOSE [] r = LOSE -> WON [] r = TIE -> TIE)
        BY <3>1, <3>2, <3>3, <3>5 DEF Other
      <4> QED BY <4>1
    <3>6. CASE i = 2
      <4>1. /\ resMsg[ci[i]] = <<o, score[i], score[Other(i)]>>
            /\ msg[Other(i)][1] = (CASE o = WON -> LOSE [] o = LOSE -> WON [] o = TIE -> TIE)
        <5>1. Other(i) = 1
          BY <3>6 DEF Other
        <5>2. resMsg[ci[i]] = <<o, score[i], score[Other(i)]>>
          BY <3>1, <3>2, <3>6, <5>1
        <5>3. msg[Other(i)][1] = r
          BY <3>3, <5>1
        <5> QED BY <3>4, <5>2, <5>3
      <4> QED BY <4>1
    <3> QED BY <3>5, <3>6 DEF Players
  <2> QED BY <2>2, <2>3 DEF AtRest
<1> QED BY <1>1, RaceGoesWell, PTL

\* While the race is on, a client reads start flags into its StartMsg and
\* results into its ResultMsg.
THEOREM StreamsFramed == Spec => []Framing
<1>1. RaceInv => Framing
  <2> SUFFICES ASSUME RaceInv, Racing, NEW c \in Clients
      PROVE  /\ startMsg[c] \in {0, 1} /\ resMsg[c][1] \in {WON, LOSE, TIE, Uninit}
             /\ resMsg[c][2] \in ScoreWord /\ resMsg[c][3] \in ScoreWord
    BY DEF Framing
  <2>1. startMsg[c] \in {0, 1} /\ resMsg[c] \in RoundResults \cup {Unready}
    BY DEF RaceInv, Rounds
  <2>2. CASE resMsg[c] = Unready
    BY <2>1, <2>2 DEF Unready, ScoreWord
  <2>3. CASE resMsg[c] \in RoundResults
    <3>1. PICK a \in {WON, LOSE, TIE}, b \in 0..WinScore, d \in 0..WinScore : resMsg[c] = <<a, b, d>>
      BY <2>3 DEF RoundResults
    <3> QED BY <2>1, <3>1 DEF ScoreWord
  <2> QED BY <2>1, <2>2, <2>3
<1> QED BY <1>1, RaceGoesWell, PTL

\* The winner of a race whose results were all written is never told that it
\* has lost, although it may read its last result as start flags.
THEOREM WinnerHearsIt == Spec => []WinnerNeverToldLose
<1>1. RaceInv => WinnerNeverToldLose
  BY DEF RaceInv, Ending, Closing, Winner, WinnerNeverToldLose
<1> QED BY <1>1, RaceGoesWell, PTL

\* A main() that returns after it has got its socket (server lines 131-340)
\* leaves no socket, no file and no registered client that was not told to end.
THEOREM CleansUp == Spec => []ReturnCleansUp
<1>1. RaceInv => ReturnCleansUp
  BY DEF RaceInv, Service, ReturnCleansUp, Left
<1> QED BY <1>1, RaceGoesWell, PTL
-----------------------------------------------------------------------------
(***************************************************************************)
(* The race is a guess race                                                *)
(***************************************************************************)

\* What the game sees of the guesses
Table == [i \in Players |-> IF ci[i] = 0 THEN None ELSE sent[ci[i]]]

LEMMA TableSame ==
  ASSUME UNCHANGED ci, \A i \in Players : ci[i] # 0 => sent'[ci[i]] = sent[ci[i]]
  PROVE  Table' = Table
BY DEF Table

\* A step that sends no guess and gives no point: the game is where it was, or
\* the referee leaves it.
LEMMA LeaveOrStutter ==
  ASSUME Table' = Table, UNCHANGED <<secret, score>>, Racing' => Racing
  PROVE  [Game!GameNext]_(Game!gameVars)
<1>1. CASE Racing' <=> Racing
  BY <1>1 DEF Game!gameVars, Table
<1>2. CASE Racing /\ ~Racing'
  BY <1>2 DEF Game!GameNext, Game!Leave, Table
<1> QED BY <1>1, <1>2

\* A player that guesses while the server listens has not guessed yet.
LEMMA MayGuess ==
  ASSUME RaceInv, open, NEW i \in Players, NEW c \in Clients, c = ci[i], cli[c] = "guess"
  PROVE  sent[c] = None /\ (secret # None \/ ~Racing)
<1>1. CASE Racing
  BY <1>1, Mail
<1>2. CASE ~Racing
  <2>1. Ending /\ Service
    BY DEF RaceInv
  <2>2. Closing
    BY <1>2, <2>1 DEF Racing, Closing, Service
  <2>3. (\E r : AtRest(c, r)) \/ Parting(i, msg[i])
    BY <2>1, <2>2 DEF Ending, Closing, Players
  <2> QED BY <1>2, <2>3 DEF AtRest, Parting, Gone
<1> QED BY <1>1, <1>2

\* The guess a player sends is its guess of the round.
LEMMA GuessGuesses ==
  ASSUME RaceInv, NEW c \in Clients, CliGuess(c)
  PROVE  [Game!GameNext]_(Game!gameVars)
<1>1. UNCHANGED <<srv, ci, secret, score>> /\ TypeOK /\ Acquaintance
  BY DEF CliGuess, srvVars, RaceInv
<1>2. Racing' <=> Racing
  BY <1>1 DEF Racing
<1>3. CASE UNCHANGED sent
  BY <1>1, <1>2, <1>3, TableSame, LeaveOrStutter
<1>4. CASE ~Plays(c)
  <2>1. PICK g : sent' = [sent EXCEPT ![c] = g] \/ UNCHANGED sent
    BY DEF CliGuess
  <2>2. \A i \in Players : ci[i] # 0 => sent'[ci[i]] = sent[ci[i]]
    BY <1>1, <1>4, <2>1, Apart DEF Plays, TypeOK
  <2> QED BY <1>1, <1>2, <2>2, TableSame, LeaveOrStutter
<1>5. CASE Plays(c) /\ ~UNCHANGED sent
  <2>1. PICK i \in Players : ci[i] = c
    BY <1>5 DEF Plays
  <2>2. PICK g \in 1..MaxRand : open /\ sent' = [sent EXCEPT ![c] = g] /\ cli[c] = "guess"
    BY <1>5 DEF CliGuess
  <2>3. sent[c] = None /\ (secret # None \/ ~Racing)
    BY <2>1, <2>2, MayGuess
  <2>4. c # 0 /\ \A k \in Players : k # i => ci[k] # c
    BY <1>1, <2>1 DEF Clients, Acquaintance, Players
  <2>5. Table' = [Table EXCEPT ![i] = g] /\ Table[i] = None
    <3>1. DOMAIN sent = Clients /\ sent'[c] = g /\ \A d \in Clients : d # c => sent'[d] = sent[d]
      BY <1>1, <2>2 DEF TypeOK
    <3>2. \A k \in Players : k # i /\ ci[k] # 0 => ci[k] \in Clients /\ ci[k] # c
      BY <1>1, <2>4, Apart
    <3>3. \A k \in Players : (IF ci[k] = 0 THEN None ELSE sent'[ci[k]])
                                = IF k = i THEN g ELSE IF ci[k] = 0 THEN None ELSE sent[ci[k]]
      BY <2>1, <2>4, <3>1, <3>2
    <3>4. Table' = [k \in Players |-> IF k = i THEN g ELSE IF ci[k] = 0 THEN None ELSE sent[ci[k]]]
      BY <1>1, <3>3 DEF Table
    <3> QED BY <2>1, <2>3, <2>4, <3>4 DEF Table
  <2>6. Game!Guess(i)
    BY <1>1, <1>2, <2>2, <2>3, <2>5 DEF Game!Guess, Table
  <2> QED BY <2>6 DEF Game!GameNext, Game!Seat, Players
<1> QED BY <1>3, <1>4, <1>5

\* A secret is drawn when no guess is on the table.
LEMMA PromptDraws ==
  ASSUME RaceInv, SrvPrompt
  PROVE  [Game!GameNext]_(Game!gameVars)
<1>1. /\ srv = "prompt" /\ UNCHANGED <<ci, score, sent>> /\ Rounds /\ Racing
      /\ \A i \in Players : ci[i] # 0 /\ AtRest(ci[i], msg[i])
  BY DEF SrvPrompt, RaceInv, PlayerInv, Racing, Left
<1>2. Table' = Table
  BY <1>1, TableSame
<1>3. CASE srv' = "start1" /\ secret' \in 1..MaxRand
  <2>1. Racing' /\ secret = None /\ \A i \in Players : score[i] < WinScore
    BY <1>1, <1>3 DEF Racing, Left, Rounds
  <2>2. \A i \in Players : Table[i] = None
    BY <1>1 DEF Table, AtRest
  <2>3. Game!Draw
    BY <1>1, <1>2, <1>3, <2>1, <2>2 DEF Game!Draw, Game!Seat, Players, Table
  <2> QED BY <2>3 DEF Game!GameNext
<1>4. CASE srv' = "final" /\ UNCHANGED secret
  BY <1>1, <1>2, <1>4, LeaveOrStutter
<1> QED BY <1>3, <1>4 DEF SrvPrompt

\* The server gives the points for the guesses the players have made in this
\* round.
LEMMA JudgeJudges ==
  ASSUME RaceInv, SrvJudge
  PROVE  Game!Judge
<1>1. /\ srv = "judge" /\ srv' = "result1" /\ UNCHANGED ci /\ secret' = None
      /\ score' = [i \in Players |-> IF RoundResult(i) = LOSE THEN score[i] ELSE score[i] + 1]
      /\ sent' = [c \in Clients |-> IF \E i \in Players : ci[i] = c THEN None ELSE sent[c]]
  BY DEF SrvJudge
<1>2. TypeOK /\ Acquaintance /\ Rounds /\ \A i \in Players : PlayerInv(i)
  BY DEF RaceInv
<1>3. Racing /\ Racing'
  BY <1>1 DEF Racing, Left
<1>4. \A i \in Players : /\ ci[i] # 0 /\ ci[i] \in Clients /\ guess[i] \in 1..MaxRand
                         /\ sent[ci[i]] = guess[i]
  BY <1>1, <1>2, Apart DEF PlayerInv, Answered
<1>5. \A i \in Players : Table[i] = guess[i] /\ Table[i] # None
  BY <1>4, NoneAssumption DEF Table
<1>6. secret \in Int /\ \A i \in Players : guess[i] \in Int
  BY <1>1, <1>2, <1>3, <1>4 DEF Rounds, TypeOK
<1>7. \A i \in Players : Distance(guess[i]) \in Int /\ Game!Gap(i) = Distance(guess[i])
  BY <1>5, <1>6 DEF Distance, Game!Gap, Table
<1>8. \A i \in Players : RoundResult(i) # LOSE <=> Game!Gap(i) <= Game!Gap(3 - i)
  BY <1>7 DEF RoundResult, Other, Players, WON, LOSE, TIE
<1>9. score' = [i \in Players |-> IF Game!Gap(i) <= Game!Gap(3 - i) THEN score[i] + 1 ELSE score[i]]
  BY <1>1, <1>8
<1>10. Table' = [i \in Players |-> None]
  BY <1>1, <1>4 DEF Table
<1> QED BY <1>1, <1>3, <1>5, <1>9, <1>10 DEF Game!Judge, Game!Seat, Players, Table

\* The processes play a guess race: whoever leaves and when, a point goes to
\* the guess of this round that is at least as close as the other one, and to
\* nobody once WIN_SCORE is reached.
THEOREM PlaysGame == Spec => GameSpec
<1>1. Init => Game!GameInit
  BY DEF Init, Game!GameInit, Game!Seat, Players, Racing, Left
<1>2. RaceInv /\ [Next]_vars => [Game!GameNext]_(Game!gameVars)
  <2> SUFFICES ASSUME RaceInv, [Next]_vars PROVE [Game!GameNext]_(Game!gameVars)
    OBVIOUS
  <2>1. CASE UNCHANGED vars
    BY <2>1, TableSame, LeaveOrStutter DEF vars, Racing
  <2>2. ASSUME NEW i \in Players, SrvAccept(i) PROVE [Game!GameNext]_(Game!gameVars)
    <3>1. PICK c \in Clients : /\ ci' = [ci EXCEPT ![i] = c] /\ c = Head(backlog)
                               /\ UNCHANGED <<sent, secret, score>>
      <4>1. backlog \in Seq(Clients) /\ backlog # <<>>
        BY <2>2 DEF SrvAccept, RaceInv, TypeOK
      <4>2. Head(backlog) \in Clients
        BY <4>1, Shorter
      <4> QED BY <2>2, <4>2 DEF SrvAccept
    <3>2. Racing /\ Racing' /\ ci[i] = 0 /\ srv # "setup"
      BY <2>2 DEF SrvAccept, SrvAt, Racing, Left, RaceInv, PlayerInv
    <3>3. sent[c] = None
      <4>1. c = backlog[1] /\ 1 \in 1..Len(backlog)
        BY <2>2, <3>1, EmptySeq DEF SrvAccept, RaceInv, TypeOK
      <4>2. ~Plays(c)
        BY <4>1 DEF RaceInv, Acquaintance
      <4> QED BY <3>2, <4>2 DEF RaceInv, Service, Waiting
    <3>4. Table' = Table
      BY <3>1, <3>2, <3>3 DEF Table, RaceInv, TypeOK
    <3> QED BY <3>1, <3>2, <3>4, LeaveOrStutter
  <2>3. CASE SrvJudge
    BY <2>3, JudgeJudges DEF Game!GameNext
  <2>4. CASE \/ SrvSetup \/ SrvFinal \/ SrvKill \/ SrvCleanup \/ SrvInterrupt
             \/ \E i \in Players : \/ SrvAcceptFails(i) \/ SrvReadPid(i) \/ SrvSendStart(i) \/ SrvReadGuess(i)
                                   \/ SrvSendResult(i) \/ SrvSendFinal(i)
    <3>1. UNCHANGED <<ci, sent, secret, score>>
      BY <2>4 DEF SrvSetup, SrvFinal, SrvKill, SrvCleanup, SrvInterrupt, SrvAcceptFails, SrvReadPid, SrvSendStart,
                  SrvReadGuess, SrvSendResult, SrvSendFinal
    <3>2. Racing' => Racing
      BY <2>4 DEF SrvSetup, SrvFinal, SrvKill, SrvCleanup, SrvInterrupt, SrvAcceptFails, SrvReadPid, SrvSendStart,
                  SrvReadGuess, SrvSendResult, SrvSendFinal, SrvWrite, SrvReadWord, SrvKilled, SrvAt,
                  Racing, Left
    <3> QED BY <3>1, <3>2, TableSame, LeaveOrStutter
  <2>5. CASE SrvPrompt
    BY <2>5, PromptDraws
  <2>6. ASSUME NEW c \in Clients, CliConnect(c) \/ (ClientDoes(c) /\ ~CliGuess(c))
        PROVE  [Game!GameNext]_(Game!gameVars)
    <3>1. UNCHANGED <<srv, ci, sent, secret, score>>
      BY <2>6 DEF CliConnect, ClientDoes, CliStep, CliWritePid, CliTop, CliReadStart, CliReadResult,
                  CliInterrupt, srvVars
    <3> QED BY <3>1, TableSame, LeaveOrStutter DEF Racing
  <2>7. ASSUME NEW c \in Clients, CliGuess(c) PROVE [Game!GameNext]_(Game!gameVars)
    BY <2>7, GuessGuesses
  <2> QED BY <2>1, <2>2, <2>3, <2>4, <2>5, <2>6, <2>7 DEF Next, SrvStep, User, ClientDoes
<1> QED BY <1>1, <1>2, RaceGoesWell, PTL DEF Spec, GameSpec, Game!GameSpec
=============================================================================
