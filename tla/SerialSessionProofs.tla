------------------------ MODULE SerialSessionProofs ------------------------
(***************************************************************************)
(* Proofs about SerialSession, for programs, calibrations and evidence of  *)
(* any length and any number of faults: the controller has accepted the    *)
(* acknowledged lines and at most one more, the database never claims more *)
(* than that, a stream reported as successful was drawn, word of trouble   *)
(* is crossed by one line at most, and a late progress callback changes    *)
(* nothing.                                                                *)
(***************************************************************************)
EXTENDS SerialSession, TLAPS

\* What the code guarantees of its parameters: an outcome keeps at least one line.
Bounds == Lines \in Nat /\ CalSteps \in Nat /\ MaxEvidence \in Nat \ {0}

-----------------------------------------------------------------------------
(***************************************************************************)
(* The inductive invariant.                                                *)
(***************************************************************************)
\* The session has not failed, and may go on.
Running ==
  \/ spc \in {"unopened", "startup", "ready", "write", "reply", "drain", "progress"}
  \/ spc = "returned" /\ failure = "none"

Early == {"none", "preflight"}

Frames == [cmd : Queries \cup {"line"}, op : OpNames]

\* A command other than a status query is under way, or its acknowledgement.
Sent == \E i \in DOMAIN rx : rx[i].cmd # "?"

Acked == \E i \in DOMAIN tx : tx[i] = "ok"

\* A status query is under way, or a status line.
Asked == \E i \in DOMAIN rx : rx[i].cmd = "?"

Reported == \E i \in DOMAIN tx : tx[i] \in StatusLines

IdleSaid == \E i \in DOMAIN tx : tx[i] = "Idle"

\* A line is under way that ends the operation when it is read.
Word == \E i \in DOMAIN tx : tx[i] \in Troubles \cup {"garbage"}

OneSent == \A i, k \in DOMAIN rx : rx[i].cmd # "?" /\ rx[k].cmd # "?" => i = k

OneAcked == \A i, k \in DOMAIN tx : tx[i] = "ok" /\ tx[k] = "ok" => i = k

OneAsked == \A i, k \in DOMAIN rx : rx[i].cmd = "?" /\ rx[k].cmd = "?" => i = k

OneReported == \A i, k \in DOMAIN tx : tx[i] \in StatusLines /\ tx[k] \in StatusLines => i = k

\* The command under way is the one in hand.
Carried == \A i \in DOMAIN rx : rx[i].cmd # "?" => rx[i] = [cmd |-> cmd, op |-> op]

\* Where the caller may be, by the operation.
PlaceFits ==
  /\ failure # "none" => spc \in {"returned", "recording", "failed", "closed", "dead"}
  /\ spc \in {"returned", "recording", "progress"} => op = "stream"
  /\ op = "none" => spc \in {"unopened", "closed", "dead"}
  /\ spc = "unopened" => op = "none"
  /\ spc = "startup" => op = "preflight"
  /\ spc = "progress" => cmd = "line"
  /\ op \in Early => cmd # "line" /\ step = 0
  /\ spc \in {"write", "reply", "drain"} /\ cmd = "line" => step = 0 \/ step < OpCommands(op)

\* One command is under way at most, the one in hand, or its acknowledgement.
WireFits ==
  /\ OneSent /\ Carried /\ OneAcked /\ ~(Sent /\ Acked)
  /\ Running /\ ~(spc = "reply" /\ cmd # "?") => ~Sent /\ ~Acked

\* The same of a status query and its answer, if the controller only answers.
QueryFits ==
  ~unasked => /\ OneAsked /\ OneReported /\ ~(Asked /\ Reported)
              /\ Running /\ ~(spc = "reply" /\ cmd = "?") => ~Asked /\ ~Reported

\* The lines of the program: acknowledged and accepted.
Settled ==
  \/ spc \in {"write", "progress", "ready"}
  \/ spc \in {"reply", "drain"} /\ cmd # "line"
  \/ spc = "returned" /\ failure = "none"
  \/ Sent /\ cmd = "line"

CountFits ==
  op = "stream" =>
    /\ step <= taken /\ taken <= step + 1
    /\ Settled => taken = step
    /\ cmd = "line" /\ (spc = "drain" \/ (spc = "reply" /\ Acked)) => taken = step + 1

\* The lines the chain has counted and recorded.
Streaming == {"write", "reply", "drain", "progress"}

ProgressFits ==
  /\ op \notin {"stream", "homez"} =>
       taken = 0 /\ pending = 0 /\ durable.acks = 0 /\ ~durable.failed /\ results["stream"] = "none"
  /\ lifetime /\ spc # "dead" => op = "stream" /\ spc \in Streaming \cup {"returned"}
  /\ op = "stream" => durable.acks <= step
  /\ op = "stream" /\ spc \in {"write", "reply", "drain", "returned", "recording"} => pending = step
  /\ spc = "progress" => pending + 1 = step /\ durable.acks <= pending
  /\ op = "stream" /\ spc \in Streaming => results["stream"] = "none"
  /\ durable.failed => op = "stream" /\ spc \in {"failed", "closed", "dead"} /\ durable.acks = step
  /\ durable.acks <= taken

\* Nothing has moved before HOME; what was thrown away or drawn at an unknown
\* position shows on the controller.
Unhomed == op \in Early \/ (op = "home" /\ cmd = "line" /\ (spc = "write" \/ Sent))

Clean == planner = 0 /\ lost = 0 /\ stray = 0

HomeFits ==
  /\ Unhomed => Clean
  /\ lost > 0 => alarm \/ ~homed
  /\ stray > 0 => ~homed

\* An Idle that was asked for was said, and read, with nothing left to draw.
StatusFits ==
  /\ Running /\ op \notin Early => status # "Zero"
  /\ ~unasked /\ Running /\ op \notin Early =>
       /\ status = "Idle" => Clean /\ cmd # "line"
       /\ IdleSaid => Clean
  /\ op \notin Early /\ (spc = "ready" \/ (spc = "returned" /\ failure = "none")) =>
       status \in IdleStates /\ step = OpCommands(op)

\* Word of trouble is met before the next line is written.
CrossFits ==
  /\ crossed <= 1 /\ (op \in Early => crossed = 0) /\ (crossed > 0 => trouble)
  /\ crossed > 0 => ~(Sent /\ cmd = "line")
  /\ crossed > 0 /\ link /\ Running => spc \in {"reply", "drain"} /\ cmd = "line"
  /\ trouble /\ link /\ Running /\ op \notin Early => Word

SerialInv ==
  /\ TypeOK /\ PlaceFits /\ WireFits /\ QueryFits /\ CountFits /\ ProgressFits
  /\ HomeFits /\ StatusFits /\ CrossFits

-----------------------------------------------------------------------------
(***************************************************************************)
(* The operations, and the two directions of the line.                     *)
(***************************************************************************)
\* The six operations by name.
LEMMA OpNamesAre == OpNames = {"preflight", "home", "zcal", "zconfirm", "stream", "homez"}
<1> DEFINE names == {"preflight", "home", "zcal", "zconfirm", "stream", "homez"}
<1>1. Len(Operations) = 6
  BY DEF Operations
<1>2. \A i \in 1 .. 6 : i = 1 \/ i = 2 \/ i = 3 \/ i = 4 \/ i = 5 \/ i = 6
  OBVIOUS
<1>3. /\ Operations[1] = "preflight" /\ Operations[2] = "home" /\ Operations[3] = "zcal"
      /\ Operations[4] = "zconfirm" /\ Operations[5] = "stream" /\ Operations[6] = "homez"
  BY DEF Operations
<1>4. OpNames = {Operations[i] : i \in 1 .. 6}
  BY <1>1 DEF OpNames
<1>5. \A x \in OpNames : x \in names
  <2> TAKE x \in OpNames
  <2>1. PICK i \in 1 .. 6 : x = Operations[i]
    BY <1>4
  <2> QED
    BY <2>1, <1>2, <1>3
<1>6. \A x \in names : x \in OpNames
  <2> TAKE x \in names
  <2>1. \E i \in 1 .. 6 : x = Operations[i]
    BY <1>3
  <2> QED
    BY <2>1, <1>4
<1> QED
  BY <1>5, <1>6

\* The operation that follows another.
LEMMA Following ==
  ASSUME NEW o \in OpNames, o # "homez", NEW i \in 1 .. 6, Operations[i] = o
  PROVE  /\ Operations[i + 1] \in OpNames \ Early
         /\ (Operations[i + 1] = "home") <=> (o = "preflight")
         /\ (Operations[i + 1] = "stream") <=> (o = "zconfirm")
         /\ (Operations[i + 1] = "homez") <=> (o = "stream")
<1>2. /\ Operations[1] = "preflight" /\ Operations[2] = "home" /\ Operations[3] = "zcal"
      /\ Operations[4] = "zconfirm" /\ Operations[5] = "stream" /\ Operations[6] = "homez"
  BY DEF Operations
<1>5. i = 1 \/ i = 2 \/ i = 3 \/ i = 4 \/ i = 5
  BY <1>2
<1>6. CASE i = 1
  <2>1. i + 1 = 2
    BY <1>6
  <2>2. Operations[i + 1] = "home" /\ o = "preflight"
    BY <2>1, <1>6, <1>2
  <2> QED
    BY <2>2, OpNamesAre DEF Early
<1>7. CASE i = 2
  <2>1. i + 1 = 3
    BY <1>7
  <2>2. Operations[i + 1] = "zcal" /\ o = "home"
    BY <2>1, <1>7, <1>2
  <2> QED
    BY <2>2, OpNamesAre DEF Early
<1>8. CASE i = 3
  <2>1. i + 1 = 4
    BY <1>8
  <2>2. Operations[i + 1] = "zconfirm" /\ o = "zcal"
    BY <2>1, <1>8, <1>2
  <2> QED
    BY <2>2, OpNamesAre DEF Early
<1>9. CASE i = 4
  <2>1. i + 1 = 5
    BY <1>9
  <2>2. Operations[i + 1] = "stream" /\ o = "zconfirm"
    BY <2>1, <1>9, <1>2
  <2> QED
    BY <2>2, OpNamesAre DEF Early
<1>10. CASE i = 5
  <2>1. i + 1 = 6
    BY <1>10
  <2>2. Operations[i + 1] = "homez" /\ o = "stream"
    BY <2>1, <1>10, <1>2
  <2> QED
    BY <2>2, OpNamesAre DEF Early
<1> QED
  BY <1>5, <1>6, <1>7, <1>8, <1>9, <1>10

\* The index BeginOperation chooses.
LEMMA IndexOf ==
  ASSUME NEW o \in OpNames
  PROVE  LET i == CHOOSE n \in 1 .. Len(Operations) : Operations[n] = o
         IN  i \in 1 .. 6 /\ Operations[i] = o
<1>1. Len(Operations) = 6
  BY DEF Operations
<1>2. \E n \in 1 .. 6 : Operations[n] = o
  BY <1>1 DEF OpNames
<1> QED
  BY <1>1, <1>2

\* A command is added to the ones under way to the controller.
LEMMA RxAppend ==
  ASSUME rx \in Seq(Frames), NEW f \in Frames, rx' = Append(rx, f)
  PROVE  /\ rx' \in Seq(Frames)
         /\ f.cmd # "?" => Sent' /\ (Asked' <=> Asked) /\ (~Sent => OneSent') /\ (OneAsked => OneAsked')
         /\ f.cmd = "?" => Asked' /\ (Sent' <=> Sent) /\ (~Asked => OneAsked') /\ (OneSent => OneSent')
         /\ ~Sent /\ f = [cmd |-> cmd', op |-> op'] => Carried'
<1>1. rx' \in Seq(Frames) /\ DOMAIN rx = 1 .. Len(rx) /\ DOMAIN rx' = 1 .. Len(rx) + 1 /\ Len(rx) \in Nat
  OBVIOUS
<1>2. \A i \in 1 .. Len(rx) : rx'[i] = rx[i]
  OBVIOUS
<1>3. rx'[Len(rx) + 1] = f
  OBVIOUS
<1>4. \A i \in 1 .. Len(rx) + 1 : i \in 1 .. Len(rx) \/ i = Len(rx) + 1
  BY <1>1
<1>5. \A i \in 1 .. Len(rx) : i \in 1 .. Len(rx) + 1
  BY <1>1
<1>6. Len(rx) + 1 \in 1 .. Len(rx) + 1
  BY <1>1
<1> HIDE DEF Frames
<1> QED
  BY <1>1, <1>2, <1>3, <1>4, <1>5, <1>6 DEF Sent, Asked, OneSent, OneAsked, Carried

\* The controller takes the first command, or it is lost.
LEMMA RxTail ==
  ASSUME rx \in Seq(Frames), rx # <<>>, rx' = Tail(rx)
  PROVE  /\ rx' \in Seq(Frames) /\ Head(rx) \in Frames
         /\ Head(rx).cmd # "?" =>
              /\ Sent /\ (Asked' <=> Asked) /\ (OneSent => ~Sent')
              /\ Carried => Head(rx).cmd = cmd /\ Head(rx).op = op
         /\ Head(rx).cmd = "?" => Asked /\ (Sent' <=> Sent) /\ (OneAsked => ~Asked')
         /\ (OneSent => OneSent') /\ (OneAsked => OneAsked') /\ (Sent' => Sent) /\ (Asked' => Asked)
         /\ (Carried /\ UNCHANGED <<cmd, op>> => Carried') /\ (~Sent => Carried')
<1>1. /\ rx' \in Seq(Frames) /\ Len(rx) \in Nat /\ Len(rx) > 0
      /\ DOMAIN rx = 1 .. Len(rx) /\ DOMAIN rx' = 1 .. Len(rx) - 1
  OBVIOUS
<1>2. \A i \in 1 .. Len(rx) - 1 : rx'[i] = rx[i + 1] /\ i + 1 \in 1 .. Len(rx) /\ i + 1 # 1
  BY <1>1
<1>3. Head(rx) = rx[1] /\ 1 \in 1 .. Len(rx) /\ rx[1] \in Frames
  BY <1>1
<1>4. \A j \in 1 .. Len(rx) : j = 1 \/ \E i \in 1 .. Len(rx) - 1 : i + 1 = j /\ rx'[i] = rx[j]
  <2> TAKE j \in 1 .. Len(rx)
  <2>1. j = 1 \/ (j - 1 \in 1 .. Len(rx) - 1 /\ (j - 1) + 1 = j)
    BY <1>1
  <2> QED
    BY <2>1, <1>2
<1>5. \A i, k \in 1 .. Len(rx) - 1 : i + 1 = k + 1 => i = k
  BY <1>1
<1> HIDE DEF Frames
<1>6. /\ Head(rx).cmd # "?" => Sent
      /\ Head(rx).cmd = "?" => Asked
      /\ Head(rx).cmd # "?" /\ Carried => Head(rx).cmd = cmd /\ Head(rx).op = op
  BY <1>1, <1>3 DEF Sent, Asked, Carried
<1>7. (Sent' => Sent) /\ (Asked' => Asked)
  BY <1>1, <1>2 DEF Sent, Asked
<1>8. (Sent => Sent' \/ Head(rx).cmd # "?") /\ (Asked => Asked' \/ Head(rx).cmd = "?")
  BY <1>1, <1>3, <1>4 DEF Sent, Asked
<1>9. /\ Head(rx).cmd # "?" /\ OneSent => ~Sent'
      /\ Head(rx).cmd = "?" /\ OneAsked => ~Asked'
  BY <1>1, <1>2, <1>3 DEF Sent, Asked, OneSent, OneAsked
<1>10. (OneSent => OneSent') /\ (OneAsked => OneAsked')
  BY <1>1, <1>2, <1>5, SMTT(30) DEF OneSent, OneAsked
<1>11. (Carried /\ UNCHANGED <<cmd, op>> => Carried') /\ (~Sent => Carried')
  BY <1>1, <1>2 DEF Carried, Sent
<1> QED
  BY <1>1, <1>3, <1>6, <1>7, <1>8, <1>9, <1>10, <1>11

\* Nothing is under way to the controller any more.
LEMMA RxEmpty ==
  ASSUME rx' = <<>>
  PROVE  rx' \in Seq(Frames) /\ ~Sent' /\ ~Asked' /\ OneSent' /\ OneAsked' /\ Carried'
BY DEF Sent, Asked, OneSent, OneAsked, Carried

\* Nothing changes on the way to the controller.
LEMMA RxSame ==
  ASSUME UNCHANGED rx
  PROVE  /\ (Sent' <=> Sent) /\ (Asked' <=> Asked) /\ (OneSent' <=> OneSent) /\ (OneAsked' <=> OneAsked)
         /\ (Carried /\ UNCHANGED <<cmd, op>> => Carried') /\ (~Sent => Carried')
BY DEF Sent, Asked, OneSent, OneAsked, Carried

\* The controller says one more line.
LEMMA TxAppend ==
  ASSUME tx \in Seq(Answers), NEW e \in Answers, tx' = Append(tx, e)
  PROVE  /\ tx' \in Seq(Answers)
         /\ e = "ok" => Acked' /\ (~Acked => OneAcked')
         /\ e # "ok" => (Acked' <=> Acked) /\ (OneAcked' <=> OneAcked)
         /\ e \in StatusLines => Reported' /\ (~Reported => OneReported')
         /\ e \notin StatusLines => (Reported' <=> Reported) /\ (OneReported' <=> OneReported)
         /\ e # "Idle" => (IdleSaid' <=> IdleSaid)
         /\ (e \in Troubles => Word') /\ (Word => Word')
<1>1. tx' \in Seq(Answers) /\ DOMAIN tx = 1 .. Len(tx) /\ DOMAIN tx' = 1 .. Len(tx) + 1 /\ Len(tx) \in Nat
  OBVIOUS
<1>2. \A i \in 1 .. Len(tx) : tx'[i] = tx[i] /\ i \in 1 .. Len(tx) + 1
  BY <1>1
<1>3. tx'[Len(tx) + 1] = e /\ Len(tx) + 1 \in 1 .. Len(tx) + 1
  BY <1>1
<1>4. \A i \in 1 .. Len(tx) + 1 : i \in 1 .. Len(tx) \/ i = Len(tx) + 1
  BY <1>1
<1> HIDE DEF Answers, StatusLines, Troubles
<1>5. e = "ok" => Acked' /\ (~Acked => OneAcked')
  BY <1>1, <1>2, <1>3, <1>4 DEF Acked, OneAcked
<1>6. e # "ok" => (Acked' <=> Acked) /\ (OneAcked' <=> OneAcked)
  BY <1>1, <1>2, <1>3, <1>4 DEF Acked, OneAcked
<1>7. e \in StatusLines => Reported' /\ (~Reported => OneReported')
  BY <1>1, <1>2, <1>3, <1>4 DEF Reported, OneReported
<1>8. e \notin StatusLines => (Reported' <=> Reported) /\ (OneReported' <=> OneReported)
  BY <1>1, <1>2, <1>3, <1>4 DEF Reported, OneReported
<1>9. e # "Idle" => (IdleSaid' <=> IdleSaid)
  BY <1>1, <1>2, <1>3, <1>4 DEF IdleSaid
<1>10. (e \in Troubles => Word') /\ (Word => Word')
  BY <1>1, <1>2, <1>3, <1>4 DEF Word
<1> QED
  BY <1>1, <1>5, <1>6, <1>7, <1>8, <1>9, <1>10

\* The host reads the first line, or it is lost.
LEMMA TxTail ==
  ASSUME tx \in Seq(Answers), tx # <<>>, tx' = Tail(tx)
  PROVE  /\ tx' \in Seq(Answers) /\ Head(tx) \in Answers
         /\ Head(tx) = "ok" => Acked /\ (OneAcked => ~Acked')
         /\ Head(tx) # "ok" => (Acked' <=> Acked)
         /\ Head(tx) \in StatusLines => Reported /\ (OneReported => ~Reported')
         /\ Head(tx) \notin StatusLines => (Reported' <=> Reported)
         /\ (OneAcked => OneAcked') /\ (OneReported => OneReported')
         /\ (Acked' => Acked) /\ (Reported' => Reported) /\ (IdleSaid' => IdleSaid)
         /\ Head(tx) = "Idle" => IdleSaid
         /\ Head(tx) \notin Troubles \cup {"garbage"} => (Word' <=> Word)
         /\ Trouble(tx') => Word'
<1>1. /\ tx' \in Seq(Answers) /\ Len(tx) \in Nat /\ Len(tx) > 0 /\ Len(tx') = Len(tx) - 1
      /\ DOMAIN tx = 1 .. Len(tx) /\ DOMAIN tx' = 1 .. Len(tx) - 1
  OBVIOUS
<1>2. \A i \in 1 .. Len(tx) - 1 : tx'[i] = tx[i + 1] /\ i + 1 \in 1 .. Len(tx) /\ i + 1 # 1
  BY <1>1
<1>3. Head(tx) = tx[1] /\ 1 \in 1 .. Len(tx) /\ tx[1] \in Answers
  BY <1>1
<1>4. \A j \in 1 .. Len(tx) : j = 1 \/ \E i \in 1 .. Len(tx) - 1 : i + 1 = j /\ tx'[i] = tx[j]
  <2> TAKE j \in 1 .. Len(tx)
  <2>1. j = 1 \/ (j - 1 \in 1 .. Len(tx) - 1 /\ (j - 1) + 1 = j)
    BY <1>1
  <2> QED
    BY <2>1, <1>2
<1>5. \A i, k \in 1 .. Len(tx) - 1 : i + 1 = k + 1 => i = k
  BY <1>1
<1> HIDE DEF Answers, StatusLines, Troubles
<1>6. /\ Head(tx) = "ok" => Acked /\ (OneAcked => ~Acked')
      /\ Head(tx) # "ok" => (Acked' <=> Acked)
      /\ (OneAcked => OneAcked') /\ (Acked' => Acked)
  <2>1. Head(tx) = "ok" => Acked
    BY <1>1, <1>3 DEF Acked
  <2>2. Acked' => Acked
    BY <1>1, <1>2 DEF Acked
  <2>3. Acked => Acked' \/ Head(tx) = "ok"
    BY <1>1, <1>3, <1>4 DEF Acked
  <2>4. Head(tx) = "ok" /\ OneAcked => ~Acked'
    BY <1>1, <1>2, <1>3 DEF Acked, OneAcked
  <2>5. OneAcked => OneAcked'
    BY <1>1, <1>2, <1>5 DEF OneAcked
  <2> QED
    BY <2>1, <2>2, <2>3, <2>4, <2>5
<1>7. /\ Head(tx) \in StatusLines => Reported /\ (OneReported => ~Reported')
      /\ Head(tx) \notin StatusLines => (Reported' <=> Reported)
      /\ (OneReported => OneReported') /\ (Reported' => Reported)
  <2>1. Head(tx) \in StatusLines => Reported
    BY <1>1, <1>3 DEF Reported
  <2>2. Reported' => Reported
    BY <1>1, <1>2 DEF Reported
  <2>3. Reported => Reported' \/ Head(tx) \in StatusLines
    BY <1>1, <1>3, <1>4 DEF Reported
  <2>4. Head(tx) \in StatusLines /\ OneReported => ~Reported'
    BY <1>1, <1>2, <1>3 DEF Reported, OneReported
  <2>5. OneReported => OneReported'
    BY <1>1, <1>2, <1>5 DEF OneReported
  <2> QED
    BY <2>1, <2>2, <2>3, <2>4, <2>5
<1>8. (IdleSaid' => IdleSaid) /\ (Head(tx) = "Idle" => IdleSaid)
  BY <1>1, <1>2, <1>3, <1>4 DEF IdleSaid
<1>9. Head(tx) \notin Troubles \cup {"garbage"} => (Word' <=> Word)
  <2>1. Word' => Word
    BY <1>1, <1>2 DEF Word
  <2>2. Word => Word' \/ Head(tx) \in Troubles \cup {"garbage"}
    BY <1>1, <1>3, <1>4 DEF Word
  <2> QED
    BY <2>1, <2>2
<1>10. Trouble(tx') => Word'
  BY <1>1 DEF Word, Trouble
<1> QED
  BY <1>1, <1>3, <1>6, <1>7, <1>8, <1>9, <1>10

\* The first line to the host is garbled.
LEMMA TxGarbled ==
  ASSUME tx \in Seq(Answers), tx # <<>>, tx' = [tx EXCEPT ![1] = "garbage"]
  PROVE  /\ tx' \in Seq(Answers)
         /\ (OneAcked => OneAcked') /\ (OneReported => OneReported')
         /\ (Acked' => Acked) /\ (Reported' => Reported) /\ (IdleSaid' => IdleSaid) /\ Word'
<1>1. "garbage" \in Answers /\ "garbage" \notin StatusLines
  BY DEF Answers, StatusLines
<1>2. Len(tx) \in Nat /\ Len(tx) > 0 /\ DOMAIN tx = 1 .. Len(tx)
  OBVIOUS
<1> HIDE DEF Answers, StatusLines, Troubles
<1>3. /\ tx' \in Seq(Answers) /\ DOMAIN tx' = 1 .. Len(tx) /\ 1 \in 1 .. Len(tx) /\ tx'[1] = "garbage"
      /\ \A i \in 1 .. Len(tx) : i = 1 \/ tx'[i] = tx[i]
  BY <1>1, <1>2
<1> QED
  BY <1>1, <1>2, <1>3 DEF Acked, OneAcked, Reported, OneReported, IdleSaid, Word

\* Nothing is under way to the host.
LEMMA TxEmpty ==
  ASSUME tx' = <<>>
  PROVE  /\ tx' \in Seq(Answers)
         /\ ~Acked' /\ ~Reported' /\ ~IdleSaid' /\ ~Word' /\ OneAcked' /\ OneReported'
BY DEF Acked, OneAcked, Reported, OneReported, IdleSaid, Word

\* Nothing changes on the way to the host.
LEMMA TxSame ==
  ASSUME UNCHANGED tx
  PROVE  /\ (Acked' <=> Acked) /\ (Reported' <=> Reported) /\ (IdleSaid' <=> IdleSaid) /\ (Word' <=> Word)
         /\ (OneAcked' <=> OneAcked) /\ (OneReported' <=> OneReported)
BY DEF Acked, OneAcked, Reported, OneReported, IdleSaid, Word

\* With nothing under way to the host, no word of anything is.
LEMMA TxNothing ==
  ASSUME tx = <<>>
  PROVE  ~Acked /\ ~Reported /\ ~IdleSaid /\ ~Word /\ ~Trouble(tx)
BY DEF Acked, Reported, IdleSaid, Word, Trouble

\* An Idle is a status line.
LEMMA IdleReported == IdleSaid => Reported
BY DEF IdleSaid, Reported, StatusLines

\* A progress row.
LEMMA Recordable ==
  ASSUME NEW n \in Nat
  PROVE  /\ [acks |-> n, failed |-> FALSE] \in [acks : Nat, failed : BOOLEAN]
         /\ [acks |-> n, failed |-> TRUE] \in [acks : Nat, failed : BOOLEAN]
OBVIOUS

-----------------------------------------------------------------------------
(* Each step keeps the invariant *)

\* An operation fails: after at most one line read, with nothing else changed but the
\* count of a line whose callback failed.
LEMMA FailInv ==
  ASSUME Bounds, SerialInv, NEW kind \in Failures, FailsWith(kind),
         spc \in {"startup", "write", "reply", "drain", "progress"},
         UNCHANGED <<rx, link, controller, durable, lifetime>>,
         UNCHANGED tx \/ (tx # <<>> /\ tx' = Tail(tx)), sfaults' \in Nat,
         pending' = IF spc = "progress" THEN pending + 1 ELSE pending
  PROVE  SerialInv'
<1>1. op \in OpNames /\ op # "none"
  BY OpNamesAre DEF SerialInv, TypeOK, PlaceFits
<1>2. ~Running' /\ UNCHANGED <<op, step, cmd>>
  BY DEF FailsWith, Running, Failures
<1>3. /\ (Sent' <=> Sent) /\ (Asked' <=> Asked) /\ (OneSent => OneSent') /\ (OneAsked => OneAsked')
      /\ (Carried => Carried')
  BY RxSame, <1>2
<1>4. /\ tx' \in Seq(Answers) /\ (OneAcked => OneAcked') /\ (OneReported => OneReported')
      /\ (Acked' => Acked) /\ (Reported' => Reported)
  BY TxSame, TxTail DEF SerialInv, TypeOK
<1>5. TypeOK'
  BY <1>1, <1>2, <1>3, <1>4
  DEF SerialInv, TypeOK, PlaceFits, Frames, Queries, Failures, StatusLines, FailsWith, controller,
        Bounds
<1>6. PlaceFits'
  BY <1>1, <1>2, <1>3, <1>4
  DEF SerialInv, TypeOK, PlaceFits, Early, OpCommands, FailsWith, controller, Bounds
<1>7. WireFits'
  BY <1>1, <1>2, <1>3, <1>4
  DEF SerialInv, TypeOK, WireFits, PlaceFits, Running, FailsWith, controller
<1>8. QueryFits'
  BY <1>1, <1>2, <1>3, <1>4
  DEF SerialInv, TypeOK, QueryFits, PlaceFits, Running, FailsWith, controller
<1>9. CountFits'
  BY <1>1, <1>2, <1>3, <1>4
  DEF SerialInv, TypeOK, CountFits, PlaceFits, WireFits, Settled, Failures, FailsWith, controller
<1>10. ProgressFits'
  BY <1>1, <1>2, <1>3, <1>4, SMTT(30)
  DEF SerialInv, TypeOK, ProgressFits, PlaceFits, CountFits, Streaming, FailsWith, controller
<1>11. HomeFits'
  BY <1>1, <1>2, <1>3, <1>4
  DEF SerialInv, TypeOK, HomeFits, PlaceFits, WireFits, Unhomed, Early, Clean, FailsWith, controller
<1>12. StatusFits'
  BY <1>1, <1>2, <1>3, <1>4
  DEF SerialInv, TypeOK, StatusFits, PlaceFits, WireFits, QueryFits, HomeFits, Running, Early, Clean,
        Unhomed, OpCommands, IdleStates, FailsWith, controller
<1>13. CrossFits'
  BY <1>1, <1>2, <1>3, <1>4
  DEF SerialInv, TypeOK, CrossFits, PlaceFits, WireFits, Running, Early, FailsWith, controller
<1> QED
  BY <1>5, <1>6, <1>7, <1>8, <1>9, <1>10, <1>11, <1>12, <1>13 DEF SerialInv


\* The port is opened, or not.
LEMMA OpenInv ==
  ASSUME Bounds, SerialInv, OpenSession \/ OpenFails
  PROVE  SerialInv'
<1>1. /\ (Sent' <=> Sent) /\ (Asked' <=> Asked) /\ (OneSent => OneSent') /\ (OneAsked => OneAsked')
      /\ (Carried /\ UNCHANGED <<cmd, op>> => Carried') /\ (~Sent => Carried')
  BY RxSame DEF OpenSession, OpenFails, host, wire, controller, progress
<1>2. /\ (Acked' <=> Acked) /\ (Reported' <=> Reported) /\ (IdleSaid' <=> IdleSaid) /\ (Word' <=> Word)
      /\ (OneAcked' <=> OneAcked) /\ (OneReported' <=> OneReported)
  BY TxSame DEF OpenSession, OpenFails, host, wire, controller, progress
<1>3. TypeOK'
  BY OpNamesAre, <1>1, <1>2, SMTT(30)
  DEF SerialInv, TypeOK, PlaceFits, Frames, Queries, Failures, StatusLines, OpenSession, OpenFails,
        host, wire, controller, progress, Bounds
<1>4. PlaceFits'
  BY OpNamesAre, <1>1, <1>2
  DEF SerialInv, TypeOK, PlaceFits, Early, OpCommands, OpenSession, OpenFails, host, wire,
        controller, progress, Bounds
<1>5. WireFits'
  BY OpNamesAre, <1>1, <1>2
  DEF SerialInv, TypeOK, WireFits, PlaceFits, Running, OpenSession, OpenFails, host, wire,
        controller, progress
<1>6. QueryFits'
  BY OpNamesAre, <1>1, <1>2
  DEF SerialInv, TypeOK, QueryFits, PlaceFits, Running, OpenSession, OpenFails, host, wire,
        controller, progress
<1>7. CountFits'
  BY OpNamesAre, <1>1, <1>2
  DEF SerialInv, TypeOK, CountFits, PlaceFits, WireFits, Settled, OpenSession, OpenFails, host, wire,
        controller, progress
<1>8. ProgressFits'
  BY OpNamesAre, <1>1, <1>2
  DEF SerialInv, TypeOK, ProgressFits, PlaceFits, CountFits, Streaming, OpenSession, OpenFails, host,
        wire, controller, progress
<1>9. HomeFits'
  BY OpNamesAre, <1>1, <1>2
  DEF SerialInv, TypeOK, HomeFits, PlaceFits, WireFits, Unhomed, Early, Clean, OpenSession,
        OpenFails, host, wire, controller, progress
<1>10. StatusFits'
  BY OpNamesAre, <1>1, <1>2
  DEF SerialInv, TypeOK, StatusFits, PlaceFits, WireFits, QueryFits, HomeFits, Running, Early, Clean,
        Unhomed, OpCommands, IdleStates, OpenSession, OpenFails, host, wire, controller, progress
<1>11. CrossFits'
  BY OpNamesAre, <1>1, <1>2
  DEF SerialInv, TypeOK, CrossFits, PlaceFits, WireFits, Running, Early, OpenSession, OpenFails,
        host, wire, controller, progress
<1> QED
  BY <1>3, <1>4, <1>5, <1>6, <1>7, <1>8, <1>9, <1>10, <1>11 DEF SerialInv


\* The boot output has ended.
LEMMA SettlesInv ==
  ASSUME Bounds, SerialInv, StartupSettles
  PROVE  SerialInv'
<1>1. /\ (Sent' <=> Sent) /\ (Asked' <=> Asked) /\ (OneSent => OneSent') /\ (OneAsked => OneAsked')
      /\ (Carried /\ UNCHANGED <<cmd, op>> => Carried') /\ (~Sent => Carried')
  BY RxSame DEF StartupSettles, host, wire, controller, progress
<1>2. /\ (Acked' <=> Acked) /\ (Reported' <=> Reported) /\ (IdleSaid' <=> IdleSaid) /\ (Word' <=> Word)
      /\ (OneAcked' <=> OneAcked) /\ (OneReported' <=> OneReported)
  BY TxSame DEF StartupSettles, host, wire, controller, progress
<1>3. TypeOK'
  <2>1. spc' \in {"unopened", "startup", "ready", "write", "reply", "drain", "progress", "returned",
                     "recording", "failed", "closed", "dead"}
    BY DEF SerialInv, TypeOK, StartupSettles, host, wire, controller, progress
  <2>2. op' \in OpNames \cup {"none"} /\ cmd' \in Queries \cup {"line"}
    BY DEF SerialInv, TypeOK, Queries, StartupSettles, host, wire, controller, progress
  <2>3. step' \in 0 .. Lines + CalSteps + 1
    BY DEF SerialInv, TypeOK, Bounds, StartupSettles, host, wire, controller, progress
  <2>4. status' \in StatusLines \cup {"none", "banner"}
    BY DEF SerialInv, TypeOK, StatusLines, StartupSettles, host, wire, controller, progress
  <2>5. evidence' \in 0 .. MaxEvidence /\ settled' \in BOOLEAN
    BY DEF SerialInv, TypeOK, Bounds, StartupSettles, host, wire, controller, progress
  <2>6. failure' \in Failures \cup {"none"} /\ results' \in [OpNames -> Failures \cup {"none", "ok"}]
    BY DEF SerialInv, TypeOK, Failures, StartupSettles, host, wire, controller, progress
  <2>7. rx' \in Seq(Frames) /\ tx' \in Seq(Answers)
    BY DEF SerialInv, TypeOK, Frames, StartupSettles, host, wire, controller, progress
  <2>8. /\ link' \in BOOLEAN /\ trouble' \in BOOLEAN /\ homed' \in BOOLEAN /\ alarm' \in BOOLEAN
        /\ unasked' \in BOOLEAN /\ lifetime' \in BOOLEAN
    BY DEF SerialInv, TypeOK, StartupSettles, host, wire, controller, progress
  <2>9. /\ planner' \in Nat /\ taken' \in Nat /\ lost' \in Nat /\ stray' \in Nat /\ crossed' \in Nat
        /\ pending' \in Nat /\ sfaults' \in Nat
    BY DEF SerialInv, TypeOK, StartupSettles, host, wire, controller, progress
  <2>10. durable' \in [acks : Nat, failed : BOOLEAN]
    BY DEF SerialInv, TypeOK, StartupSettles, host, wire, controller, progress
  <2> QED
    BY <2>1, <2>2, <2>3, <2>4, <2>5, <2>6, <2>7, <2>8, <2>9, <2>10 DEF TypeOK, Frames
<1>4. PlaceFits'
  BY OpNamesAre, <1>1, <1>2
  DEF SerialInv, TypeOK, PlaceFits, Early, OpCommands, StartupSettles, host, wire, controller,
        progress, Bounds
<1>5. WireFits'
  BY OpNamesAre, <1>1, <1>2
  DEF SerialInv, TypeOK, WireFits, PlaceFits, Running, StartupSettles, host, wire, controller,
        progress
<1>6. QueryFits'
  BY OpNamesAre, <1>1, <1>2
  DEF SerialInv, TypeOK, QueryFits, PlaceFits, Running, StartupSettles, host, wire, controller,
        progress
<1>7. CountFits'
  BY OpNamesAre, <1>1, <1>2
  DEF SerialInv, TypeOK, CountFits, PlaceFits, WireFits, Settled, StartupSettles, host, wire,
        controller, progress
<1>8. ProgressFits'
  BY OpNamesAre, <1>1, <1>2
  DEF SerialInv, TypeOK, ProgressFits, PlaceFits, CountFits, Streaming, StartupSettles, host, wire,
        controller, progress
<1>9. HomeFits'
  BY OpNamesAre, <1>1, <1>2
  DEF SerialInv, TypeOK, HomeFits, PlaceFits, WireFits, Unhomed, Early, Clean, StartupSettles, host,
        wire, controller, progress
<1>10. StatusFits'
  BY OpNamesAre, <1>1, <1>2
  DEF SerialInv, TypeOK, StatusFits, PlaceFits, WireFits, QueryFits, HomeFits, Running, Early, Clean,
        Unhomed, OpCommands, IdleStates, StartupSettles, host, wire, controller, progress
<1>11. CrossFits'
  BY OpNamesAre, <1>1, <1>2
  DEF SerialInv, TypeOK, CrossFits, PlaceFits, WireFits, Running, Early, StartupSettles, host, wire,
        controller, progress
<1> QED
  BY <1>3, <1>4, <1>5, <1>6, <1>7, <1>8, <1>9, <1>10, <1>11 DEF SerialInv


\* A line of the boot output is read.
LEMMA StartupReadInv ==
  ASSUME Bounds, SerialInv, StartupReads, Head(tx) # "garbage"
  PROVE  SerialInv'
<1>1. /\ (Sent' <=> Sent) /\ (Asked' <=> Asked) /\ (OneSent => OneSent') /\ (OneAsked => OneAsked')
      /\ (Carried /\ UNCHANGED <<cmd, op>> => Carried') /\ (~Sent => Carried')
  BY RxSame DEF StartupReads, host, wire, controller, progress
<1>2. /\ tx' \in Seq(Answers) /\ Head(tx) \in Answers
      /\ Head(tx) = "ok" => Acked /\ (OneAcked => ~Acked')
      /\ Head(tx) # "ok" => (Acked' <=> Acked)
      /\ Head(tx) \in StatusLines => Reported /\ (OneReported => ~Reported')
      /\ Head(tx) \notin StatusLines => (Reported' <=> Reported)
      /\ (OneAcked => OneAcked') /\ (OneReported => OneReported')
      /\ (Acked' => Acked) /\ (Reported' => Reported) /\ (IdleSaid' => IdleSaid)
      /\ Head(tx) = "Idle" => IdleSaid
      /\ Head(tx) \notin Troubles \cup {"garbage"} => (Word' <=> Word)
  BY TxTail DEF SerialInv, TypeOK, StartupReads, host, wire, controller, progress
<1>3. TypeOK'
  <2>1. spc' \in {"unopened", "startup", "ready", "write", "reply", "drain", "progress", "returned",
                     "recording", "failed", "closed", "dead"}
    BY <1>2 DEF SerialInv, TypeOK, StartupReads, host, wire, controller, progress
  <2>2. op' \in OpNames \cup {"none"} /\ cmd' \in Queries \cup {"line"}
    BY <1>2 DEF SerialInv, TypeOK, Queries, StartupReads, host, wire, controller, progress
  <2>3. step' \in 0 .. Lines + CalSteps + 1
    BY <1>2 DEF SerialInv, TypeOK, Bounds, StartupReads, host, wire, controller, progress
  <2>4. status' \in StatusLines \cup {"none", "banner"}
    BY <1>2 DEF SerialInv, TypeOK, StatusLines, StartupReads, host, wire, controller, progress
  <2>5. evidence' \in 0 .. MaxEvidence /\ settled' \in BOOLEAN
    BY <1>2 DEF SerialInv, TypeOK, Bounds, StartupReads, host, wire, controller, progress
  <2>6. failure' \in Failures \cup {"none"} /\ results' \in [OpNames -> Failures \cup {"none", "ok"}]
    BY <1>2 DEF SerialInv, TypeOK, Failures, StartupReads, host, wire, controller, progress
  <2>7. rx' \in Seq(Frames) /\ tx' \in Seq(Answers)
    BY <1>2 DEF SerialInv, TypeOK, Frames, StartupReads, host, wire, controller, progress
  <2>8. /\ link' \in BOOLEAN /\ trouble' \in BOOLEAN /\ homed' \in BOOLEAN /\ alarm' \in BOOLEAN
        /\ unasked' \in BOOLEAN /\ lifetime' \in BOOLEAN
    BY <1>2 DEF SerialInv, TypeOK, StartupReads, host, wire, controller, progress
  <2>9. /\ planner' \in Nat /\ taken' \in Nat /\ lost' \in Nat /\ stray' \in Nat /\ crossed' \in Nat
        /\ pending' \in Nat /\ sfaults' \in Nat
    BY <1>2 DEF SerialInv, TypeOK, StartupReads, host, wire, controller, progress
  <2>10. durable' \in [acks : Nat, failed : BOOLEAN]
    BY <1>2 DEF SerialInv, TypeOK, StartupReads, host, wire, controller, progress
  <2> QED
    BY <2>1, <2>2, <2>3, <2>4, <2>5, <2>6, <2>7, <2>8, <2>9, <2>10 DEF TypeOK, Frames
<1>4. PlaceFits'
  BY OpNamesAre, <1>1, <1>2
  DEF SerialInv, TypeOK, PlaceFits, Early, OpCommands, StartupReads, host, wire, controller,
        progress, Bounds
<1>5. WireFits'
  BY OpNamesAre, <1>1, <1>2
  DEF SerialInv, TypeOK, WireFits, PlaceFits, Running, StartupReads, host, wire, controller,
        progress
<1>6. QueryFits'
  BY OpNamesAre, <1>1, <1>2
  DEF SerialInv, TypeOK, QueryFits, PlaceFits, Running, StartupReads, host, wire, controller,
        progress
<1>7. CountFits'
  BY OpNamesAre, <1>1, <1>2
  DEF SerialInv, TypeOK, CountFits, PlaceFits, WireFits, Settled, StartupReads, host, wire,
        controller, progress
<1>8. ProgressFits'
  BY OpNamesAre, <1>1, <1>2
  DEF SerialInv, TypeOK, ProgressFits, PlaceFits, CountFits, Streaming, StartupReads, host, wire,
        controller, progress
<1>9. HomeFits'
  BY OpNamesAre, <1>1, <1>2
  DEF SerialInv, TypeOK, HomeFits, PlaceFits, WireFits, Unhomed, Early, Clean, StartupReads, host,
        wire, controller, progress
<1>10. StatusFits'
  BY OpNamesAre, <1>1, <1>2
  DEF SerialInv, TypeOK, StatusFits, PlaceFits, WireFits, QueryFits, HomeFits, Running, Early, Clean,
        Unhomed, OpCommands, IdleStates, StartupReads, host, wire, controller, progress
<1>11. CrossFits'
  BY OpNamesAre, <1>1, <1>2
  DEF SerialInv, TypeOK, CrossFits, PlaceFits, WireFits, Running, Early, StartupReads, host, wire,
        controller, progress
<1> QED
  BY <1>3, <1>4, <1>5, <1>6, <1>7, <1>8, <1>9, <1>10, <1>11 DEF SerialInv


\* A line without word of trouble is read as an answer.
LEMMA ReplyInv ==
  ASSUME Bounds, SerialInv, ReadsReply, LineFailure(Head(tx)) = "none"
  PROVE  SerialInv'
<1>1. /\ (Sent' <=> Sent) /\ (Asked' <=> Asked) /\ (OneSent => OneSent') /\ (OneAsked => OneAsked')
      /\ (Carried /\ UNCHANGED <<cmd, op>> => Carried') /\ (~Sent => Carried')
  BY RxSame DEF ReadsReply, LineFailure, Undecodable, ResetWord, Expected, Bounded, host, wire, controller, progress
<1>2. /\ tx' \in Seq(Answers) /\ Head(tx) \in Answers
      /\ Head(tx) = "ok" => Acked /\ (OneAcked => ~Acked')
      /\ Head(tx) # "ok" => (Acked' <=> Acked)
      /\ Head(tx) \in StatusLines => Reported /\ (OneReported => ~Reported')
      /\ Head(tx) \notin StatusLines => (Reported' <=> Reported)
      /\ (OneAcked => OneAcked') /\ (OneReported => OneReported')
      /\ (Acked' => Acked) /\ (Reported' => Reported) /\ (IdleSaid' => IdleSaid)
      /\ Head(tx) = "Idle" => IdleSaid
      /\ Head(tx) \notin Troubles \cup {"garbage"} => (Word' <=> Word)
  BY TxTail DEF SerialInv, TypeOK, ReadsReply, LineFailure, Undecodable, ResetWord, Expected, Bounded, host, wire, controller, progress
<1>3. TypeOK'
  <2>1. spc' \in {"unopened", "startup", "ready", "write", "reply", "drain", "progress", "returned",
                     "recording", "failed", "closed", "dead"}
    BY <1>2 DEF SerialInv, TypeOK, ReadsReply, Bounded, host, wire, controller, progress
  <2>2. op' \in OpNames \cup {"none"} /\ cmd' \in Queries \cup {"line"}
    BY <1>2 DEF SerialInv, TypeOK, Queries, ReadsReply, Bounded, host, wire, controller, progress
  <2>3. step' \in 0 .. Lines + CalSteps + 1
    BY <1>2 DEF SerialInv, TypeOK, Bounds, ReadsReply, Bounded, host, wire, controller, progress
  <2>4. status' \in StatusLines \cup {"none", "banner"}
    BY <1>2 DEF SerialInv, TypeOK, StatusLines, ReadsReply, Bounded, host, wire, controller, progress
  <2>5. evidence' \in 0 .. MaxEvidence /\ settled' \in BOOLEAN
    BY <1>2, SMTT(30) DEF SerialInv, TypeOK, Bounds, ReadsReply, Bounded, host, wire, controller, progress
  <2>6. failure' \in Failures \cup {"none"} /\ results' \in [OpNames -> Failures \cup {"none", "ok"}]
    BY <1>2 DEF SerialInv, TypeOK, Failures, ReadsReply, Bounded, host, wire, controller, progress
  <2>7. rx' \in Seq(Frames) /\ tx' \in Seq(Answers)
    BY <1>2 DEF SerialInv, TypeOK, Frames, ReadsReply, Bounded, host, wire, controller, progress
  <2>8. /\ link' \in BOOLEAN /\ trouble' \in BOOLEAN /\ homed' \in BOOLEAN /\ alarm' \in BOOLEAN
        /\ unasked' \in BOOLEAN /\ lifetime' \in BOOLEAN
    BY <1>2 DEF SerialInv, TypeOK, ReadsReply, Bounded, host, wire, controller, progress
  <2>9. /\ planner' \in Nat /\ taken' \in Nat /\ lost' \in Nat /\ stray' \in Nat /\ crossed' \in Nat
        /\ pending' \in Nat /\ sfaults' \in Nat
    BY <1>2 DEF SerialInv, TypeOK, ReadsReply, Bounded, host, wire, controller, progress
  <2>10. durable' \in [acks : Nat, failed : BOOLEAN]
    BY <1>2 DEF SerialInv, TypeOK, ReadsReply, Bounded, host, wire, controller, progress
  <2> QED
    BY <2>1, <2>2, <2>3, <2>4, <2>5, <2>6, <2>7, <2>8, <2>9, <2>10 DEF TypeOK, Frames
<1>4. PlaceFits'
  BY OpNamesAre, <1>1, <1>2
  DEF SerialInv, TypeOK, PlaceFits, Early, OpCommands, ReadsReply, LineFailure, Undecodable,
        ResetWord, Expected, Bounded, host, wire, controller, progress, Bounds
<1>5. WireFits'
  BY OpNamesAre, <1>1, <1>2
  DEF SerialInv, TypeOK, WireFits, PlaceFits, Running, ReadsReply, LineFailure, Undecodable,
        ResetWord, Expected, Bounded, host, wire, controller, progress
<1>6. QueryFits'
  BY OpNamesAre, <1>1, <1>2
  DEF SerialInv, TypeOK, QueryFits, PlaceFits, Running, StatusLines, ReadsReply, LineFailure,
        Undecodable, ResetWord, Expected, Bounded, host, wire, controller, progress
<1>7. CountFits'
  BY OpNamesAre, <1>1, <1>2
  DEF SerialInv, TypeOK, CountFits, PlaceFits, WireFits, Settled, ReadsReply, LineFailure,
        Undecodable, ResetWord, Expected, Bounded, host, wire, controller, progress
<1>8. ProgressFits'
  BY OpNamesAre, <1>1, <1>2
  DEF SerialInv, TypeOK, ProgressFits, PlaceFits, CountFits, Streaming, ReadsReply, LineFailure,
        Undecodable, ResetWord, Expected, Bounded, host, wire, controller, progress
<1>9. HomeFits'
  BY OpNamesAre, <1>1, <1>2
  DEF SerialInv, TypeOK, HomeFits, PlaceFits, WireFits, Unhomed, Early, Clean, ReadsReply,
        LineFailure, Undecodable, ResetWord, Expected, Bounded, host, wire, controller, progress
<1>10. StatusFits'
  BY OpNamesAre, <1>1, <1>2
  DEF SerialInv, TypeOK, StatusFits, PlaceFits, WireFits, QueryFits, HomeFits, Running, Early, Clean,
        Unhomed, OpCommands, IdleStates, Troubles, StatusLines, ReadsReply, LineFailure, Undecodable,
        ResetWord, Expected, Bounded, host, wire, controller, progress
<1>11. CrossFits'
  BY OpNamesAre, <1>1, <1>2
  DEF SerialInv, TypeOK, CrossFits, PlaceFits, WireFits, Running, Early, Troubles, ReadsReply,
        LineFailure, Undecodable, ResetWord, Expected, Bounded, host, wire, controller, progress
<1> QED
  BY <1>3, <1>4, <1>5, <1>6, <1>7, <1>8, <1>9, <1>10, <1>11 DEF SerialInv


\* A line without word of trouble is read in the drain.
LEMMA DrainInv ==
  ASSUME Bounds, SerialInv, Drains, LineFailure(Head(tx)) = "none"
  PROVE  SerialInv'
<1>1. /\ (Sent' <=> Sent) /\ (Asked' <=> Asked) /\ (OneSent => OneSent') /\ (OneAsked => OneAsked')
      /\ (Carried /\ UNCHANGED <<cmd, op>> => Carried') /\ (~Sent => Carried')
  BY RxSame DEF Drains, LineFailure, Undecodable, ResetWord, Bounded, host, wire, controller, progress
<1>2. /\ tx' \in Seq(Answers) /\ Head(tx) \in Answers
      /\ Head(tx) = "ok" => Acked /\ (OneAcked => ~Acked')
      /\ Head(tx) # "ok" => (Acked' <=> Acked)
      /\ Head(tx) \in StatusLines => Reported /\ (OneReported => ~Reported')
      /\ Head(tx) \notin StatusLines => (Reported' <=> Reported)
      /\ (OneAcked => OneAcked') /\ (OneReported => OneReported')
      /\ (Acked' => Acked) /\ (Reported' => Reported) /\ (IdleSaid' => IdleSaid)
      /\ Head(tx) = "Idle" => IdleSaid
      /\ Head(tx) \notin Troubles \cup {"garbage"} => (Word' <=> Word)
  BY TxTail DEF SerialInv, TypeOK, Drains, LineFailure, Undecodable, ResetWord, Bounded, host, wire, controller, progress
<1>3. TypeOK'
  <2>1. spc' \in {"unopened", "startup", "ready", "write", "reply", "drain", "progress", "returned",
                     "recording", "failed", "closed", "dead"}
    BY <1>2 DEF SerialInv, TypeOK, Drains, Bounded, host, wire, controller, progress
  <2>2. op' \in OpNames \cup {"none"} /\ cmd' \in Queries \cup {"line"}
    BY <1>2 DEF SerialInv, TypeOK, Queries, Drains, Bounded, host, wire, controller, progress
  <2>3. step' \in 0 .. Lines + CalSteps + 1
    BY <1>2 DEF SerialInv, TypeOK, Bounds, Drains, Bounded, host, wire, controller, progress
  <2>4. status' \in StatusLines \cup {"none", "banner"}
    BY <1>2 DEF SerialInv, TypeOK, StatusLines, Drains, Bounded, host, wire, controller, progress
  <2>5. evidence' \in 0 .. MaxEvidence /\ settled' \in BOOLEAN
    BY <1>2, SMTT(30) DEF SerialInv, TypeOK, Bounds, Drains, Bounded, host, wire, controller, progress
  <2>6. failure' \in Failures \cup {"none"} /\ results' \in [OpNames -> Failures \cup {"none", "ok"}]
    BY <1>2 DEF SerialInv, TypeOK, Failures, Drains, Bounded, host, wire, controller, progress
  <2>7. rx' \in Seq(Frames) /\ tx' \in Seq(Answers)
    BY <1>2 DEF SerialInv, TypeOK, Frames, Drains, Bounded, host, wire, controller, progress
  <2>8. /\ link' \in BOOLEAN /\ trouble' \in BOOLEAN /\ homed' \in BOOLEAN /\ alarm' \in BOOLEAN
        /\ unasked' \in BOOLEAN /\ lifetime' \in BOOLEAN
    BY <1>2 DEF SerialInv, TypeOK, Drains, Bounded, host, wire, controller, progress
  <2>9. /\ planner' \in Nat /\ taken' \in Nat /\ lost' \in Nat /\ stray' \in Nat /\ crossed' \in Nat
        /\ pending' \in Nat /\ sfaults' \in Nat
    BY <1>2 DEF SerialInv, TypeOK, Drains, Bounded, host, wire, controller, progress
  <2>10. durable' \in [acks : Nat, failed : BOOLEAN]
    BY <1>2 DEF SerialInv, TypeOK, Drains, Bounded, host, wire, controller, progress
  <2> QED
    BY <2>1, <2>2, <2>3, <2>4, <2>5, <2>6, <2>7, <2>8, <2>9, <2>10 DEF TypeOK, Frames
<1>4. PlaceFits'
  BY OpNamesAre, <1>1, <1>2
  DEF SerialInv, TypeOK, PlaceFits, Early, OpCommands, Drains, LineFailure, Undecodable, ResetWord,
        Bounded, host, wire, controller, progress, Bounds
<1>5. WireFits'
  BY OpNamesAre, <1>1, <1>2
  DEF SerialInv, TypeOK, WireFits, PlaceFits, Running, Drains, LineFailure, Undecodable, ResetWord,
        Bounded, host, wire, controller, progress
<1>6. QueryFits'
  BY OpNamesAre, <1>1, <1>2
  DEF SerialInv, TypeOK, QueryFits, PlaceFits, Running, StatusLines, Drains, LineFailure,
        Undecodable, ResetWord, Bounded, host, wire, controller, progress
<1>7. CountFits'
  BY OpNamesAre, <1>1, <1>2
  DEF SerialInv, TypeOK, CountFits, PlaceFits, WireFits, Settled, Drains, LineFailure, Undecodable,
        ResetWord, Bounded, host, wire, controller, progress
<1>8. ProgressFits'
  BY OpNamesAre, <1>1, <1>2
  DEF SerialInv, TypeOK, ProgressFits, PlaceFits, CountFits, Streaming, Drains, LineFailure,
        Undecodable, ResetWord, Bounded, host, wire, controller, progress
<1>9. HomeFits'
  BY OpNamesAre, <1>1, <1>2
  DEF SerialInv, TypeOK, HomeFits, PlaceFits, WireFits, Unhomed, Early, Clean, Drains, LineFailure,
        Undecodable, ResetWord, Bounded, host, wire, controller, progress
<1>10. StatusFits'
  BY OpNamesAre, <1>1, <1>2
  DEF SerialInv, TypeOK, StatusFits, PlaceFits, WireFits, QueryFits, HomeFits, Running, Early, Clean,
        Unhomed, OpCommands, IdleStates, Troubles, StatusLines, Drains, LineFailure, Undecodable,
        ResetWord, Bounded, host, wire, controller, progress
<1>11. CrossFits'
  BY OpNamesAre, <1>1, <1>2
  DEF SerialInv, TypeOK, CrossFits, PlaceFits, WireFits, Running, Early, Troubles, Drains,
        LineFailure, Undecodable, ResetWord, Bounded, host, wire, controller, progress
<1> QED
  BY <1>3, <1>4, <1>5, <1>6, <1>7, <1>8, <1>9, <1>10, <1>11 DEF SerialInv


\* The answer to a line of another operation than a stream was read.
LEMMA LineAckInv ==
  ASSUME Bounds, SerialInv, LineAcknowledged, op # "stream"
  PROVE  SerialInv'
<1>1. /\ (Sent' <=> Sent) /\ (Asked' <=> Asked) /\ (OneSent => OneSent') /\ (OneAsked => OneAsked')
      /\ (Carried /\ UNCHANGED <<cmd, op>> => Carried') /\ (~Sent => Carried')
  BY RxSame DEF LineAcknowledged, AfterLine, Drained, Bounded, host, wire, controller, progress
<1>2. /\ (Acked' <=> Acked) /\ (Reported' <=> Reported) /\ (IdleSaid' <=> IdleSaid) /\ (Word' <=> Word)
      /\ (OneAcked' <=> OneAcked) /\ (OneReported' <=> OneReported)
  BY TxSame DEF LineAcknowledged, AfterLine, Drained, Bounded, host, wire, controller, progress
<1>3. ~Acked /\ ~Reported /\ ~IdleSaid /\ ~Word
  BY TxNothing DEF LineAcknowledged, AfterLine, Drained, Bounded, host, wire, controller, progress
<1>4. TypeOK'
  <2>1. spc' \in {"unopened", "startup", "ready", "write", "reply", "drain", "progress", "returned",
                     "recording", "failed", "closed", "dead"}
    BY DEF SerialInv, TypeOK, LineAcknowledged, AfterLine, Drained, Bounded, host, wire, controller,
          progress
  <2>2. op' \in OpNames \cup {"none"} /\ cmd' \in Queries \cup {"line"}
    BY DEF SerialInv, TypeOK, Queries, LineAcknowledged, AfterLine, Drained, Bounded, host, wire,
          controller, progress
  <2>3. step' \in 0 .. Lines + CalSteps + 1
    BY SMTT(30) DEF SerialInv, TypeOK, Bounds, LineAcknowledged, AfterLine, Drained, Bounded, host, wire,
          controller, progress, PlaceFits, OpCommands
  <2>4. status' \in StatusLines \cup {"none", "banner"}
    BY DEF SerialInv, TypeOK, StatusLines, LineAcknowledged, AfterLine, Drained, Bounded, host, wire,
          controller, progress
  <2>5. evidence' \in 0 .. MaxEvidence /\ settled' \in BOOLEAN
    BY DEF SerialInv, TypeOK, Bounds, LineAcknowledged, AfterLine, Drained, Bounded, host, wire,
          controller, progress
  <2>6. failure' \in Failures \cup {"none"} /\ results' \in [OpNames -> Failures \cup {"none", "ok"}]
    BY DEF SerialInv, TypeOK, Failures, LineAcknowledged, AfterLine, Drained, Bounded, host, wire,
          controller, progress
  <2>7. rx' \in Seq(Frames) /\ tx' \in Seq(Answers)
    BY DEF SerialInv, TypeOK, Frames, LineAcknowledged, AfterLine, Drained, Bounded, host, wire,
          controller, progress
  <2>8. /\ link' \in BOOLEAN /\ trouble' \in BOOLEAN /\ homed' \in BOOLEAN /\ alarm' \in BOOLEAN
        /\ unasked' \in BOOLEAN /\ lifetime' \in BOOLEAN
    BY DEF SerialInv, TypeOK, LineAcknowledged, AfterLine, Drained, Bounded, host, wire, controller,
          progress
  <2>9. /\ planner' \in Nat /\ taken' \in Nat /\ lost' \in Nat /\ stray' \in Nat /\ crossed' \in Nat
        /\ pending' \in Nat /\ sfaults' \in Nat
    BY DEF SerialInv, TypeOK, LineAcknowledged, AfterLine, Drained, Bounded, host, wire, controller,
          progress
  <2>10. durable' \in [acks : Nat, failed : BOOLEAN]
    BY DEF SerialInv, TypeOK, LineAcknowledged, AfterLine, Drained, Bounded, host, wire, controller,
          progress
  <2> QED
    BY <2>1, <2>2, <2>3, <2>4, <2>5, <2>6, <2>7, <2>8, <2>9, <2>10 DEF TypeOK, Frames
<1>5. PlaceFits'
  BY OpNamesAre, <1>1, <1>2, <1>3
  DEF SerialInv, TypeOK, PlaceFits, Early, OpCommands, LineAcknowledged, AfterLine, Drained, Bounded,
        host, wire, controller, progress, Bounds
<1>6. WireFits'
  BY OpNamesAre, <1>1, <1>2, <1>3
  DEF SerialInv, TypeOK, WireFits, PlaceFits, Running, LineAcknowledged, AfterLine, Drained, Bounded,
        host, wire, controller, progress
<1>7. QueryFits'
  BY OpNamesAre, <1>1, <1>2, <1>3
  DEF SerialInv, TypeOK, QueryFits, PlaceFits, Running, LineAcknowledged, AfterLine, Drained,
        Bounded, host, wire, controller, progress
<1>8. CountFits'
  BY OpNamesAre, <1>1, <1>2, <1>3
  DEF SerialInv, TypeOK, CountFits, PlaceFits, WireFits, Settled, LineAcknowledged, AfterLine,
        Drained, Bounded, host, wire, controller, progress
<1>9. ProgressFits'
  BY OpNamesAre, <1>1, <1>2, <1>3
  DEF SerialInv, TypeOK, ProgressFits, PlaceFits, CountFits, Streaming, LineAcknowledged, AfterLine,
        Drained, Bounded, host, wire, controller, progress
<1>10. HomeFits'
  BY OpNamesAre, <1>1, <1>2, <1>3
  DEF SerialInv, TypeOK, HomeFits, PlaceFits, WireFits, Unhomed, Early, Clean, OpCommands,
        LineAcknowledged, AfterLine, Drained, Bounded, host, wire, controller, progress
<1>11. StatusFits'
  BY OpNamesAre, <1>1, <1>2, <1>3
  DEF SerialInv, TypeOK, StatusFits, PlaceFits, WireFits, QueryFits, HomeFits, Running, Early, Clean,
        Unhomed, OpCommands, IdleStates, LineAcknowledged, AfterLine, Drained, Bounded, host, wire,
        controller, progress
<1>12. CrossFits'
  BY OpNamesAre, <1>1, <1>2, <1>3
  DEF SerialInv, TypeOK, CrossFits, PlaceFits, WireFits, Running, Early, LineAcknowledged, AfterLine,
        Drained, Bounded, host, wire, controller, progress
<1> QED
  BY <1>4, <1>5, <1>6, <1>7, <1>8, <1>9, <1>10, <1>11, <1>12 DEF SerialInv


\* The answer to a line of the program was read.
LEMMA StreamAckInv ==
  ASSUME Bounds, SerialInv, LineAcknowledged, op = "stream"
  PROVE  SerialInv'
<1>1. /\ (Sent' <=> Sent) /\ (Asked' <=> Asked) /\ (OneSent => OneSent') /\ (OneAsked => OneAsked')
      /\ (Carried /\ UNCHANGED <<cmd, op>> => Carried') /\ (~Sent => Carried')
  BY RxSame DEF LineAcknowledged, Drained, host, wire, controller, progress
<1>2. /\ (Acked' <=> Acked) /\ (Reported' <=> Reported) /\ (IdleSaid' <=> IdleSaid) /\ (Word' <=> Word)
      /\ (OneAcked' <=> OneAcked) /\ (OneReported' <=> OneReported)
  BY TxSame DEF LineAcknowledged, Drained, host, wire, controller, progress
<1>3. ~Acked /\ ~Reported /\ ~IdleSaid /\ ~Word
  BY TxNothing DEF LineAcknowledged, Drained, host, wire, controller, progress
<1>4. TypeOK'
  BY OpNamesAre, <1>1, <1>2, <1>3, SMTT(30)
  DEF SerialInv, TypeOK, PlaceFits, Frames, Queries, Failures, StatusLines, OpCommands,
        LineAcknowledged, Drained, host, wire, controller, progress, Bounds
<1>5. PlaceFits'
  BY OpNamesAre, <1>1, <1>2, <1>3
  DEF SerialInv, TypeOK, PlaceFits, Early, OpCommands, LineAcknowledged, Drained, host, wire,
        controller, progress, Bounds
<1>6. WireFits'
  BY OpNamesAre, <1>1, <1>2, <1>3
  DEF SerialInv, TypeOK, WireFits, PlaceFits, Running, LineAcknowledged, Drained, host, wire,
        controller, progress
<1>7. QueryFits'
  BY OpNamesAre, <1>1, <1>2, <1>3
  DEF SerialInv, TypeOK, QueryFits, PlaceFits, Running, LineAcknowledged, Drained, host, wire,
        controller, progress
<1>8. CountFits'
  BY OpNamesAre, <1>1, <1>2, <1>3
  DEF SerialInv, TypeOK, CountFits, PlaceFits, WireFits, Settled, LineAcknowledged, Drained, host,
        wire, controller, progress
<1>9. ProgressFits'
  BY OpNamesAre, <1>1, <1>2, <1>3
  DEF SerialInv, TypeOK, ProgressFits, PlaceFits, CountFits, Streaming, LineAcknowledged, Drained,
        host, wire, controller, progress
<1>10. HomeFits'
  BY OpNamesAre, <1>1, <1>2, <1>3
  DEF SerialInv, TypeOK, HomeFits, PlaceFits, WireFits, Unhomed, Early, Clean, LineAcknowledged,
        Drained, host, wire, controller, progress
<1>11. StatusFits'
  BY OpNamesAre, <1>1, <1>2, <1>3
  DEF SerialInv, TypeOK, StatusFits, PlaceFits, WireFits, QueryFits, HomeFits, Running, Early, Clean,
        Unhomed, OpCommands, IdleStates, LineAcknowledged, Drained, host, wire, controller, progress
<1>12. CrossFits'
  BY OpNamesAre, <1>1, <1>2, <1>3
  DEF SerialInv, TypeOK, CrossFits, PlaceFits, WireFits, Running, Early, LineAcknowledged, Drained,
        host, wire, controller, progress
<1> QED
  BY <1>4, <1>5, <1>6, <1>7, <1>8, <1>9, <1>10, <1>11, <1>12 DEF SerialInv


\* The answer to a query was read.
LEMMA QuerySeenInv ==
  ASSUME Bounds, SerialInv, StatusSeen \/ ParserSeen
  PROVE  SerialInv'
<1>1. /\ (Sent' <=> Sent) /\ (Asked' <=> Asked) /\ (OneSent => OneSent') /\ (OneAsked => OneAsked')
      /\ (Carried /\ UNCHANGED <<cmd, op>> => Carried') /\ (~Sent => Carried')
  BY RxSame DEF StatusSeen, ParserSeen, Drained, host, wire, controller, progress
<1>2. /\ (Acked' <=> Acked) /\ (Reported' <=> Reported) /\ (IdleSaid' <=> IdleSaid) /\ (Word' <=> Word)
      /\ (OneAcked' <=> OneAcked) /\ (OneReported' <=> OneReported)
  BY TxSame DEF StatusSeen, ParserSeen, Drained, host, wire, controller, progress
<1>3. ~Acked /\ ~Reported /\ ~IdleSaid /\ ~Word
  BY TxNothing DEF StatusSeen, ParserSeen, Drained, host, wire, controller, progress
<1>4. TypeOK'
  BY OpNamesAre, <1>1, <1>2, <1>3, SMTT(30)
  DEF SerialInv, TypeOK, PlaceFits, Frames, Queries, Failures, StatusLines, StatusSeen, ParserSeen,
        Drained, host, wire, controller, progress, Bounds
<1>5. PlaceFits'
  BY OpNamesAre, <1>1, <1>2, <1>3
  DEF SerialInv, TypeOK, PlaceFits, Early, OpCommands, StatusSeen, ParserSeen, Drained, host, wire,
        controller, progress, Bounds
<1>6. WireFits'
  BY OpNamesAre, <1>1, <1>2, <1>3
  DEF SerialInv, TypeOK, WireFits, PlaceFits, Running, StatusSeen, ParserSeen, Drained, host, wire,
        controller, progress
<1>7. QueryFits'
  BY OpNamesAre, <1>1, <1>2, <1>3
  DEF SerialInv, TypeOK, QueryFits, PlaceFits, Running, StatusSeen, ParserSeen, Drained, host, wire,
        controller, progress
<1>8. CountFits'
  BY OpNamesAre, <1>1, <1>2, <1>3
  DEF SerialInv, TypeOK, CountFits, PlaceFits, WireFits, Settled, StatusSeen, ParserSeen, Drained,
        host, wire, controller, progress
<1>9. ProgressFits'
  BY OpNamesAre, <1>1, <1>2, <1>3
  DEF SerialInv, TypeOK, ProgressFits, PlaceFits, CountFits, Streaming, StatusSeen, ParserSeen,
        Drained, host, wire, controller, progress
<1>10. HomeFits'
  BY OpNamesAre, <1>1, <1>2, <1>3
  DEF SerialInv, TypeOK, HomeFits, PlaceFits, WireFits, Unhomed, Early, Clean, StatusSeen,
        ParserSeen, Drained, host, wire, controller, progress
<1>11. StatusFits'
  BY OpNamesAre, <1>1, <1>2, <1>3
  DEF SerialInv, TypeOK, StatusFits, PlaceFits, WireFits, QueryFits, HomeFits, Running, Early, Clean,
        Unhomed, OpCommands, IdleStates, StatusSeen, ParserSeen, Drained, host, wire, controller,
        progress
<1>12. CrossFits'
  BY OpNamesAre, <1>1, <1>2, <1>3
  DEF SerialInv, TypeOK, CrossFits, PlaceFits, WireFits, Running, Early, StatusSeen, ParserSeen,
        Drained, host, wire, controller, progress
<1> QED
  BY <1>4, <1>5, <1>6, <1>7, <1>8, <1>9, <1>10, <1>11, <1>12 DEF SerialInv


\* The operation succeeds.
LEMMA ConcludeInv ==
  ASSUME Bounds, SerialInv, Concludes, PreflightReady, SuccessProven
  PROVE  SerialInv'
<1>1. /\ (Sent' <=> Sent) /\ (Asked' <=> Asked) /\ (OneSent => OneSent') /\ (OneAsked => OneAsked')
      /\ (Carried /\ UNCHANGED <<cmd, op>> => Carried') /\ (~Sent => Carried')
  BY RxSame DEF Concludes, PreflightReady, SuccessProven, Drained, host, wire, controller, progress
<1>2. /\ (Acked' <=> Acked) /\ (Reported' <=> Reported) /\ (IdleSaid' <=> IdleSaid) /\ (Word' <=> Word)
      /\ (OneAcked' <=> OneAcked) /\ (OneReported' <=> OneReported)
  BY TxSame DEF Concludes, PreflightReady, SuccessProven, Drained, host, wire, controller, progress
<1>3. ~Acked /\ ~Reported /\ ~IdleSaid /\ ~Word
  BY TxNothing DEF Concludes, PreflightReady, SuccessProven, Drained, host, wire, controller, progress
<1>4. TypeOK'
  BY OpNamesAre, <1>1, <1>2, <1>3
  DEF SerialInv, TypeOK, PlaceFits, Frames, Queries, Failures, StatusLines, Concludes,
        PreflightReady, SuccessProven, Drained, host, wire, controller, progress, Bounds
<1>5. PlaceFits'
  BY OpNamesAre, <1>1, <1>2, <1>3
  DEF SerialInv, TypeOK, PlaceFits, Early, OpCommands, Concludes, PreflightReady, SuccessProven,
        Drained, host, wire, controller, progress, Bounds
<1>6. WireFits'
  BY OpNamesAre, <1>1, <1>2, <1>3
  DEF SerialInv, TypeOK, WireFits, PlaceFits, Running, Concludes, PreflightReady, SuccessProven,
        Drained, host, wire, controller, progress
<1>7. QueryFits'
  BY OpNamesAre, <1>1, <1>2, <1>3
  DEF SerialInv, TypeOK, QueryFits, PlaceFits, Running, Concludes, PreflightReady, SuccessProven,
        Drained, host, wire, controller, progress
<1>8. CountFits'
  BY OpNamesAre, <1>1, <1>2, <1>3
  DEF SerialInv, TypeOK, CountFits, PlaceFits, WireFits, Settled, Concludes, PreflightReady,
        SuccessProven, Drained, host, wire, controller, progress
<1>9. ProgressFits'
  BY OpNamesAre, <1>1, <1>2, <1>3
  DEF SerialInv, TypeOK, ProgressFits, PlaceFits, CountFits, Streaming, Concludes, PreflightReady,
        SuccessProven, Drained, host, wire, controller, progress
<1>10. HomeFits'
  BY OpNamesAre, <1>1, <1>2, <1>3
  DEF SerialInv, TypeOK, HomeFits, PlaceFits, WireFits, Unhomed, Early, Clean, Concludes,
        PreflightReady, SuccessProven, Drained, host, wire, controller, progress
<1>11. StatusFits'
  BY OpNamesAre, <1>1, <1>2, <1>3
  DEF SerialInv, TypeOK, StatusFits, PlaceFits, WireFits, QueryFits, HomeFits, Running, Early, Clean,
        Unhomed, OpCommands, IdleStates, Concludes, PreflightReady, SuccessProven, Drained, host, wire,
        controller, progress
<1>12. CrossFits'
  BY OpNamesAre, <1>1, <1>2, <1>3
  DEF SerialInv, TypeOK, CrossFits, PlaceFits, WireFits, Running, Early, Concludes, PreflightReady,
        SuccessProven, Drained, host, wire, controller, progress
<1> QED
  BY <1>4, <1>5, <1>6, <1>7, <1>8, <1>9, <1>10, <1>11, <1>12 DEF SerialInv


\* A line of the program is counted, and recorded.
LEMMA RecordInv ==
  ASSUME Bounds, SerialInv, ProgressRecorded
  PROVE  SerialInv'
<1>1. /\ (Sent' <=> Sent) /\ (Asked' <=> Asked) /\ (OneSent => OneSent') /\ (OneAsked => OneAsked')
      /\ (Carried /\ UNCHANGED <<cmd, op>> => Carried') /\ (~Sent => Carried')
  BY RxSame DEF ProgressRecorded, AfterLine, Bounded, host, wire, controller, progress
<1>2. /\ (Acked' <=> Acked) /\ (Reported' <=> Reported) /\ (IdleSaid' <=> IdleSaid) /\ (Word' <=> Word)
      /\ (OneAcked' <=> OneAcked) /\ (OneReported' <=> OneReported)
  BY TxSame DEF ProgressRecorded, AfterLine, Bounded, host, wire, controller, progress
<1>3. TypeOK'
  <2>1. spc' \in {"unopened", "startup", "ready", "write", "reply", "drain", "progress", "returned",
                     "recording", "failed", "closed", "dead"}
    BY DEF SerialInv, TypeOK, ProgressRecorded, AfterLine, Bounded, host, wire, controller, progress
  <2>2. op' \in OpNames \cup {"none"} /\ cmd' \in Queries \cup {"line"}
    BY DEF SerialInv, TypeOK, Queries, ProgressRecorded, AfterLine, Bounded, host, wire, controller,
          progress
  <2>3. step' \in 0 .. Lines + CalSteps + 1
    BY DEF SerialInv, TypeOK, Bounds, ProgressRecorded, AfterLine, Bounded, host, wire, controller,
          progress
  <2>4. status' \in StatusLines \cup {"none", "banner"}
    BY DEF SerialInv, TypeOK, StatusLines, ProgressRecorded, AfterLine, Bounded, host, wire, controller,
          progress
  <2>5. evidence' \in 0 .. MaxEvidence /\ settled' \in BOOLEAN
    BY SMTT(30) DEF SerialInv, TypeOK, Bounds, ProgressRecorded, AfterLine, Bounded, host, wire, controller,
          progress
  <2>6. failure' \in Failures \cup {"none"} /\ results' \in [OpNames -> Failures \cup {"none", "ok"}]
    BY DEF SerialInv, TypeOK, Failures, ProgressRecorded, AfterLine, Bounded, host, wire, controller,
          progress
  <2>7. rx' \in Seq(Frames) /\ tx' \in Seq(Answers)
    BY DEF SerialInv, TypeOK, Frames, ProgressRecorded, AfterLine, Bounded, host, wire, controller,
          progress
  <2>8. /\ link' \in BOOLEAN /\ trouble' \in BOOLEAN /\ homed' \in BOOLEAN /\ alarm' \in BOOLEAN
        /\ unasked' \in BOOLEAN /\ lifetime' \in BOOLEAN
    BY DEF SerialInv, TypeOK, ProgressRecorded, AfterLine, Bounded, host, wire, controller, progress
  <2>9. /\ planner' \in Nat /\ taken' \in Nat /\ lost' \in Nat /\ stray' \in Nat /\ crossed' \in Nat
        /\ pending' \in Nat /\ sfaults' \in Nat
    BY DEF SerialInv, TypeOK, ProgressRecorded, AfterLine, Bounded, host, wire, controller, progress
  <2>10. durable' \in [acks : Nat, failed : BOOLEAN]
    <3>1. pending' \in Nat
      BY DEF SerialInv, TypeOK, ProgressRecorded
    <3>2. durable' = [acks |-> pending', failed |-> FALSE] \/ durable' = durable
      BY DEF ProgressRecorded
    <3> QED
      BY <3>1, <3>2, Recordable DEF SerialInv, TypeOK
  <2> QED
    BY <2>1, <2>2, <2>3, <2>4, <2>5, <2>6, <2>7, <2>8, <2>9, <2>10 DEF TypeOK, Frames
<1>4. PlaceFits'
  BY OpNamesAre, <1>1, <1>2
  DEF SerialInv, TypeOK, PlaceFits, Early, OpCommands, ProgressRecorded, AfterLine, Bounded, host,
        wire, controller, progress, Bounds
<1>5. WireFits'
  BY OpNamesAre, <1>1, <1>2
  DEF SerialInv, TypeOK, WireFits, PlaceFits, Running, ProgressRecorded, AfterLine, Bounded, host,
        wire, controller, progress
<1>6. QueryFits'
  BY OpNamesAre, <1>1, <1>2
  DEF SerialInv, TypeOK, QueryFits, PlaceFits, Running, ProgressRecorded, AfterLine, Bounded, host,
        wire, controller, progress
<1>7. CountFits'
  BY OpNamesAre, <1>1, <1>2
  DEF SerialInv, TypeOK, CountFits, PlaceFits, WireFits, Settled, ProgressRecorded, AfterLine,
        Bounded, host, wire, controller, progress
<1>8. ProgressFits'
  BY OpNamesAre, <1>1, <1>2
  DEF SerialInv, TypeOK, ProgressFits, PlaceFits, CountFits, Streaming, ProgressRecorded, AfterLine,
        Bounded, host, wire, controller, progress
<1>9. HomeFits'
  BY OpNamesAre, <1>1, <1>2
  DEF SerialInv, TypeOK, HomeFits, PlaceFits, WireFits, Unhomed, Early, Clean, ProgressRecorded,
        AfterLine, Bounded, host, wire, controller, progress
<1>10. StatusFits'
  BY OpNamesAre, <1>1, <1>2
  DEF SerialInv, TypeOK, StatusFits, PlaceFits, WireFits, QueryFits, HomeFits, Running, Early, Clean,
        Unhomed, OpCommands, IdleStates, ProgressRecorded, AfterLine, Bounded, host, wire, controller,
        progress
<1>11. CrossFits'
  BY OpNamesAre, <1>1, <1>2
  DEF SerialInv, TypeOK, CrossFits, PlaceFits, WireFits, Running, Early, ProgressRecorded, AfterLine,
        Bounded, host, wire, controller, progress
<1> QED
  BY <1>3, <1>4, <1>5, <1>6, <1>7, <1>8, <1>9, <1>10, <1>11 DEF SerialInv


\* The stream call is over.
LEMMA ReturnInv ==
  ASSUME Bounds, SerialInv, StreamReturns
  PROVE  SerialInv'
<1>1. /\ (Sent' <=> Sent) /\ (Asked' <=> Asked) /\ (OneSent => OneSent') /\ (OneAsked => OneAsked')
      /\ (Carried /\ UNCHANGED <<cmd, op>> => Carried') /\ (~Sent => Carried')
  BY RxSame DEF StreamReturns, host, wire, controller, progress
<1>2. /\ (Acked' <=> Acked) /\ (Reported' <=> Reported) /\ (IdleSaid' <=> IdleSaid) /\ (Word' <=> Word)
      /\ (OneAcked' <=> OneAcked) /\ (OneReported' <=> OneReported)
  BY TxSame DEF StreamReturns, host, wire, controller, progress
<1>3. TypeOK'
  <2>1. spc' \in {"unopened", "startup", "ready", "write", "reply", "drain", "progress", "returned",
                     "recording", "failed", "closed", "dead"}
    BY DEF SerialInv, TypeOK, StreamReturns, host, wire, controller, progress
  <2>2. op' \in OpNames \cup {"none"} /\ cmd' \in Queries \cup {"line"}
    BY DEF SerialInv, TypeOK, Queries, StreamReturns, host, wire, controller, progress
  <2>3. step' \in 0 .. Lines + CalSteps + 1
    BY DEF SerialInv, TypeOK, Bounds, StreamReturns, host, wire, controller, progress
  <2>4. status' \in StatusLines \cup {"none", "banner"}
    BY DEF SerialInv, TypeOK, StatusLines, StreamReturns, host, wire, controller, progress
  <2>5. evidence' \in 0 .. MaxEvidence /\ settled' \in BOOLEAN
    BY DEF SerialInv, TypeOK, Bounds, StreamReturns, host, wire, controller, progress
  <2>6. failure' \in Failures \cup {"none"} /\ results' \in [OpNames -> Failures \cup {"none", "ok"}]
    BY DEF SerialInv, TypeOK, Failures, StreamReturns, host, wire, controller, progress
  <2>7. rx' \in Seq(Frames) /\ tx' \in Seq(Answers)
    BY DEF SerialInv, TypeOK, Frames, StreamReturns, host, wire, controller, progress
  <2>8. /\ link' \in BOOLEAN /\ trouble' \in BOOLEAN /\ homed' \in BOOLEAN /\ alarm' \in BOOLEAN
        /\ unasked' \in BOOLEAN /\ lifetime' \in BOOLEAN
    BY DEF SerialInv, TypeOK, StreamReturns, host, wire, controller, progress
  <2>9. /\ planner' \in Nat /\ taken' \in Nat /\ lost' \in Nat /\ stray' \in Nat /\ crossed' \in Nat
        /\ pending' \in Nat /\ sfaults' \in Nat
    BY DEF SerialInv, TypeOK, StreamReturns, host, wire, controller, progress
  <2>10. durable' \in [acks : Nat, failed : BOOLEAN]
    BY DEF SerialInv, TypeOK, StreamReturns, host, wire, controller, progress
  <2> QED
    BY <2>1, <2>2, <2>3, <2>4, <2>5, <2>6, <2>7, <2>8, <2>9, <2>10 DEF TypeOK, Frames
<1>4. PlaceFits'
  BY OpNamesAre, <1>1, <1>2
  DEF SerialInv, TypeOK, PlaceFits, Early, OpCommands, StreamReturns, host, wire, controller,
        progress, Bounds
<1>5. WireFits'
  BY OpNamesAre, <1>1, <1>2
  DEF SerialInv, TypeOK, WireFits, PlaceFits, Running, StreamReturns, host, wire, controller,
        progress
<1>6. QueryFits'
  BY OpNamesAre, <1>1, <1>2
  DEF SerialInv, TypeOK, QueryFits, PlaceFits, Running, StreamReturns, host, wire, controller,
        progress
<1>7. CountFits'
  BY OpNamesAre, <1>1, <1>2
  DEF SerialInv, TypeOK, CountFits, PlaceFits, WireFits, Settled, StreamReturns, host, wire,
        controller, progress
<1>8. ProgressFits'
  BY OpNamesAre, <1>1, <1>2
  DEF SerialInv, TypeOK, ProgressFits, PlaceFits, CountFits, Streaming, StreamReturns, host, wire,
        controller, progress
<1>9. HomeFits'
  BY OpNamesAre, <1>1, <1>2
  DEF SerialInv, TypeOK, HomeFits, PlaceFits, WireFits, Unhomed, Early, Clean, StreamReturns, host,
        wire, controller, progress
<1>10. StatusFits'
  BY OpNamesAre, <1>1, <1>2
  DEF SerialInv, TypeOK, StatusFits, PlaceFits, WireFits, QueryFits, HomeFits, Running, Early, Clean,
        Unhomed, OpCommands, IdleStates, StreamReturns, host, wire, controller, progress
<1>11. CrossFits'
  BY OpNamesAre, <1>1, <1>2
  DEF SerialInv, TypeOK, CrossFits, PlaceFits, WireFits, Running, Early, StreamReturns, host, wire,
        controller, progress
<1> QED
  BY <1>3, <1>4, <1>5, <1>6, <1>7, <1>8, <1>9, <1>10, <1>11 DEF SerialInv


\* The failure of the stream is recorded, or that fails.
LEMMA RecordedInv ==
  ASSUME Bounds, SerialInv, FailureRecorded \/ RecordingFails
  PROVE  SerialInv'
<1>1. /\ (Sent' <=> Sent) /\ (Asked' <=> Asked) /\ (OneSent => OneSent') /\ (OneAsked => OneAsked')
      /\ (Carried /\ UNCHANGED <<cmd, op>> => Carried') /\ (~Sent => Carried')
  BY RxSame DEF FailureRecorded, RecordingFails, LineFault, host, wire, controller, progress
<1>2. /\ (Acked' <=> Acked) /\ (Reported' <=> Reported) /\ (IdleSaid' <=> IdleSaid) /\ (Word' <=> Word)
      /\ (OneAcked' <=> OneAcked) /\ (OneReported' <=> OneReported)
  BY TxSame DEF FailureRecorded, RecordingFails, LineFault, host, wire, controller, progress
<1>3. TypeOK'
  <2>1. spc' \in {"unopened", "startup", "ready", "write", "reply", "drain", "progress", "returned",
                     "recording", "failed", "closed", "dead"}
    BY DEF SerialInv, TypeOK, FailureRecorded, RecordingFails, LineFault, host, wire, controller,
          progress
  <2>2. op' \in OpNames \cup {"none"} /\ cmd' \in Queries \cup {"line"}
    BY DEF SerialInv, TypeOK, Queries, FailureRecorded, RecordingFails, LineFault, host, wire,
          controller, progress
  <2>3. step' \in 0 .. Lines + CalSteps + 1
    BY DEF SerialInv, TypeOK, Bounds, FailureRecorded, RecordingFails, LineFault, host, wire,
          controller, progress
  <2>4. status' \in StatusLines \cup {"none", "banner"}
    BY DEF SerialInv, TypeOK, StatusLines, FailureRecorded, RecordingFails, LineFault, host, wire,
          controller, progress
  <2>5. evidence' \in 0 .. MaxEvidence /\ settled' \in BOOLEAN
    BY DEF SerialInv, TypeOK, Bounds, FailureRecorded, RecordingFails, LineFault, host, wire,
          controller, progress
  <2>6. failure' \in Failures \cup {"none"} /\ results' \in [OpNames -> Failures \cup {"none", "ok"}]
    BY DEF SerialInv, TypeOK, Failures, FailureRecorded, RecordingFails, LineFault, host, wire,
          controller, progress
  <2>7. rx' \in Seq(Frames) /\ tx' \in Seq(Answers)
    BY DEF SerialInv, TypeOK, Frames, FailureRecorded, RecordingFails, LineFault, host, wire,
          controller, progress
  <2>8. /\ link' \in BOOLEAN /\ trouble' \in BOOLEAN /\ homed' \in BOOLEAN /\ alarm' \in BOOLEAN
        /\ unasked' \in BOOLEAN /\ lifetime' \in BOOLEAN
    BY DEF SerialInv, TypeOK, FailureRecorded, RecordingFails, LineFault, host, wire, controller,
          progress
  <2>9. /\ planner' \in Nat /\ taken' \in Nat /\ lost' \in Nat /\ stray' \in Nat /\ crossed' \in Nat
        /\ pending' \in Nat /\ sfaults' \in Nat
    BY SMTT(30) DEF SerialInv, TypeOK, FailureRecorded, RecordingFails, LineFault, host, wire, controller,
          progress
  <2>10. durable' \in [acks : Nat, failed : BOOLEAN]
    <3> DEFINE n == IF failure = "raised" THEN pending ELSE step
    <3>1. n \in Nat
      BY DEF SerialInv, TypeOK, Bounds
    <3>2. durable' = [acks |-> n, failed |-> TRUE] \/ durable' = durable
      BY DEF FailureRecorded, RecordingFails, progress
    <3> HIDE DEF n
    <3> QED
      BY <3>1, <3>2, Recordable DEF SerialInv, TypeOK
  <2> QED
    BY <2>1, <2>2, <2>3, <2>4, <2>5, <2>6, <2>7, <2>8, <2>9, <2>10 DEF TypeOK, Frames
<1>4. PlaceFits'
  BY OpNamesAre, <1>1, <1>2
  DEF SerialInv, TypeOK, PlaceFits, Early, OpCommands, FailureRecorded, RecordingFails, LineFault,
        host, wire, controller, progress, Bounds
<1>5. WireFits'
  BY OpNamesAre, <1>1, <1>2
  DEF SerialInv, TypeOK, WireFits, PlaceFits, Running, FailureRecorded, RecordingFails, LineFault,
        host, wire, controller, progress
<1>6. QueryFits'
  BY OpNamesAre, <1>1, <1>2
  DEF SerialInv, TypeOK, QueryFits, PlaceFits, Running, FailureRecorded, RecordingFails, LineFault,
        host, wire, controller, progress
<1>7. CountFits'
  BY OpNamesAre, <1>1, <1>2
  DEF SerialInv, TypeOK, CountFits, PlaceFits, WireFits, Settled, FailureRecorded, RecordingFails,
        LineFault, host, wire, controller, progress
<1>8. ProgressFits'
  BY OpNamesAre, <1>1, <1>2
  DEF SerialInv, TypeOK, ProgressFits, PlaceFits, CountFits, Streaming, FailureRecorded,
        RecordingFails, LineFault, host, wire, controller, progress
<1>9. HomeFits'
  BY OpNamesAre, <1>1, <1>2
  DEF SerialInv, TypeOK, HomeFits, PlaceFits, WireFits, Unhomed, Early, Clean, FailureRecorded,
        RecordingFails, LineFault, host, wire, controller, progress
<1>10. StatusFits'
  BY OpNamesAre, <1>1, <1>2
  DEF SerialInv, TypeOK, StatusFits, PlaceFits, WireFits, QueryFits, HomeFits, Running, Early, Clean,
        Unhomed, OpCommands, IdleStates, FailureRecorded, RecordingFails, LineFault, host, wire,
        controller, progress
<1>11. CrossFits'
  BY OpNamesAre, <1>1, <1>2
  DEF SerialInv, TypeOK, CrossFits, PlaceFits, WireFits, Running, Early, FailureRecorded,
        RecordingFails, LineFault, host, wire, controller, progress
<1> QED
  BY <1>3, <1>4, <1>5, <1>6, <1>7, <1>8, <1>9, <1>10, <1>11 DEF SerialInv


\* The callback is called too late.
LEMMA LateInv ==
  ASSUME Bounds, SerialInv, LateProgress
  PROVE  SerialInv'
<1>1. /\ (Sent' <=> Sent) /\ (Asked' <=> Asked) /\ (OneSent => OneSent') /\ (OneAsked => OneAsked')
      /\ (Carried /\ UNCHANGED <<cmd, op>> => Carried') /\ (~Sent => Carried')
  BY RxSame DEF LateProgress, StreamOver, LineFault, host, wire, controller, progress
<1>2. /\ (Acked' <=> Acked) /\ (Reported' <=> Reported) /\ (IdleSaid' <=> IdleSaid) /\ (Word' <=> Word)
      /\ (OneAcked' <=> OneAcked) /\ (OneReported' <=> OneReported)
  BY TxSame DEF LateProgress, StreamOver, LineFault, host, wire, controller, progress
<1>3. TypeOK'
  <2>1. spc' \in {"unopened", "startup", "ready", "write", "reply", "drain", "progress", "returned",
                     "recording", "failed", "closed", "dead"}
    BY DEF SerialInv, TypeOK, LateProgress, StreamOver, LineFault, host, wire, controller, progress
  <2>2. op' \in OpNames \cup {"none"} /\ cmd' \in Queries \cup {"line"}
    BY DEF SerialInv, TypeOK, Queries, LateProgress, StreamOver, LineFault, host, wire, controller,
          progress
  <2>3. step' \in 0 .. Lines + CalSteps + 1
    BY DEF SerialInv, TypeOK, Bounds, LateProgress, StreamOver, LineFault, host, wire, controller,
          progress
  <2>4. status' \in StatusLines \cup {"none", "banner"}
    BY DEF SerialInv, TypeOK, StatusLines, LateProgress, StreamOver, LineFault, host, wire, controller,
          progress
  <2>5. evidence' \in 0 .. MaxEvidence /\ settled' \in BOOLEAN
    BY DEF SerialInv, TypeOK, Bounds, LateProgress, StreamOver, LineFault, host, wire, controller,
          progress
  <2>6. failure' \in Failures \cup {"none"} /\ results' \in [OpNames -> Failures \cup {"none", "ok"}]
    BY DEF SerialInv, TypeOK, Failures, LateProgress, StreamOver, LineFault, host, wire, controller,
          progress
  <2>7. rx' \in Seq(Frames) /\ tx' \in Seq(Answers)
    BY DEF SerialInv, TypeOK, Frames, LateProgress, StreamOver, LineFault, host, wire, controller,
          progress
  <2>8. /\ link' \in BOOLEAN /\ trouble' \in BOOLEAN /\ homed' \in BOOLEAN /\ alarm' \in BOOLEAN
        /\ unasked' \in BOOLEAN /\ lifetime' \in BOOLEAN
    BY DEF SerialInv, TypeOK, LateProgress, StreamOver, LineFault, host, wire, controller, progress
  <2>9. /\ planner' \in Nat /\ taken' \in Nat /\ lost' \in Nat /\ stray' \in Nat /\ crossed' \in Nat
        /\ pending' \in Nat /\ sfaults' \in Nat
    BY DEF SerialInv, TypeOK, LateProgress, StreamOver, LineFault, host, wire, controller, progress
  <2>10. durable' \in [acks : Nat, failed : BOOLEAN]
    <3>1. pending + 1 \in Nat
      BY DEF SerialInv, TypeOK
    <3>2. durable' = [acks |-> pending + 1, failed |-> FALSE] \/ durable' = durable
      BY DEF LateProgress
    <3> QED
      BY <3>1, <3>2, Recordable DEF SerialInv, TypeOK
  <2> QED
    BY <2>1, <2>2, <2>3, <2>4, <2>5, <2>6, <2>7, <2>8, <2>9, <2>10 DEF TypeOK, Frames
<1>4. PlaceFits'
  BY OpNamesAre, <1>1, <1>2
  DEF SerialInv, TypeOK, PlaceFits, Early, OpCommands, LateProgress, StreamOver, LineFault, host,
        wire, controller, progress, Bounds
<1>5. WireFits'
  BY OpNamesAre, <1>1, <1>2
  DEF SerialInv, TypeOK, WireFits, PlaceFits, Running, LateProgress, StreamOver, LineFault, host,
        wire, controller, progress
<1>6. QueryFits'
  BY OpNamesAre, <1>1, <1>2
  DEF SerialInv, TypeOK, QueryFits, PlaceFits, Running, LateProgress, StreamOver, LineFault, host,
        wire, controller, progress
<1>7. CountFits'
  BY OpNamesAre, <1>1, <1>2
  DEF SerialInv, TypeOK, CountFits, PlaceFits, WireFits, Settled, LateProgress, StreamOver,
        LineFault, host, wire, controller, progress
<1>8. ProgressFits'
  BY OpNamesAre, <1>1, <1>2
  DEF SerialInv, TypeOK, ProgressFits, PlaceFits, CountFits, Streaming, LateProgress, StreamOver,
        LineFault, host, wire, controller, progress
<1>9. HomeFits'
  BY OpNamesAre, <1>1, <1>2
  DEF SerialInv, TypeOK, HomeFits, PlaceFits, WireFits, Unhomed, Early, Clean, LateProgress,
        StreamOver, LineFault, host, wire, controller, progress
<1>10. StatusFits'
  BY OpNamesAre, <1>1, <1>2
  DEF SerialInv, TypeOK, StatusFits, PlaceFits, WireFits, QueryFits, HomeFits, Running, Early, Clean,
        Unhomed, OpCommands, IdleStates, LateProgress, StreamOver, LineFault, host, wire, controller,
        progress
<1>11. CrossFits'
  BY OpNamesAre, <1>1, <1>2
  DEF SerialInv, TypeOK, CrossFits, PlaceFits, WireFits, Running, Early, LateProgress, StreamOver,
        LineFault, host, wire, controller, progress
<1> QED
  BY <1>3, <1>4, <1>5, <1>6, <1>7, <1>8, <1>9, <1>10, <1>11 DEF SerialInv


\* The session is closed, or the service dies.
LEMMA CloseInv ==
  ASSUME Bounds, SerialInv, CloseSession \/ ServiceCrash
  PROVE  SerialInv'
<1>1. /\ (Sent' <=> Sent) /\ (Asked' <=> Asked) /\ (OneSent => OneSent') /\ (OneAsked => OneAsked')
      /\ (Carried /\ UNCHANGED <<cmd, op>> => Carried') /\ (~Sent => Carried')
  BY RxSame DEF CloseSession, ServiceCrash, LineFault, host, wire, controller, progress
<1>2. /\ (Acked' <=> Acked) /\ (Reported' <=> Reported) /\ (IdleSaid' <=> IdleSaid) /\ (Word' <=> Word)
      /\ (OneAcked' <=> OneAcked) /\ (OneReported' <=> OneReported)
  BY TxSame DEF CloseSession, ServiceCrash, LineFault, host, wire, controller, progress
<1>3. TypeOK'
  <2>1. spc' \in {"unopened", "startup", "ready", "write", "reply", "drain", "progress", "returned",
                     "recording", "failed", "closed", "dead"}
    BY DEF SerialInv, TypeOK, CloseSession, ServiceCrash, LineFault, host, wire, controller, progress
  <2>2. op' \in OpNames \cup {"none"} /\ cmd' \in Queries \cup {"line"}
    BY DEF SerialInv, TypeOK, Queries, CloseSession, ServiceCrash, LineFault, host, wire, controller,
          progress
  <2>3. step' \in 0 .. Lines + CalSteps + 1
    BY DEF SerialInv, TypeOK, Bounds, CloseSession, ServiceCrash, LineFault, host, wire, controller,
          progress
  <2>4. status' \in StatusLines \cup {"none", "banner"}
    BY DEF SerialInv, TypeOK, StatusLines, CloseSession, ServiceCrash, LineFault, host, wire,
          controller, progress
  <2>5. evidence' \in 0 .. MaxEvidence /\ settled' \in BOOLEAN
    BY DEF SerialInv, TypeOK, Bounds, CloseSession, ServiceCrash, LineFault, host, wire, controller,
          progress
  <2>6. failure' \in Failures \cup {"none"} /\ results' \in [OpNames -> Failures \cup {"none", "ok"}]
    BY DEF SerialInv, TypeOK, Failures, CloseSession, ServiceCrash, LineFault, host, wire, controller,
          progress
  <2>7. rx' \in Seq(Frames) /\ tx' \in Seq(Answers)
    BY DEF SerialInv, TypeOK, Frames, CloseSession, ServiceCrash, LineFault, host, wire, controller,
          progress
  <2>8. /\ link' \in BOOLEAN /\ trouble' \in BOOLEAN /\ homed' \in BOOLEAN /\ alarm' \in BOOLEAN
        /\ unasked' \in BOOLEAN /\ lifetime' \in BOOLEAN
    BY DEF SerialInv, TypeOK, CloseSession, ServiceCrash, LineFault, host, wire, controller, progress
  <2>9. /\ planner' \in Nat /\ taken' \in Nat /\ lost' \in Nat /\ stray' \in Nat /\ crossed' \in Nat
        /\ pending' \in Nat /\ sfaults' \in Nat
    BY DEF SerialInv, TypeOK, CloseSession, ServiceCrash, LineFault, host, wire, controller, progress
  <2>10. durable' \in [acks : Nat, failed : BOOLEAN]
    BY DEF SerialInv, TypeOK, CloseSession, ServiceCrash, LineFault, host, wire, controller, progress
  <2> QED
    BY <2>1, <2>2, <2>3, <2>4, <2>5, <2>6, <2>7, <2>8, <2>9, <2>10 DEF TypeOK, Frames
<1>4. PlaceFits'
  BY OpNamesAre, <1>1, <1>2
  DEF SerialInv, TypeOK, PlaceFits, Early, OpCommands, CloseSession, ServiceCrash, LineFault, host,
        wire, controller, progress, Bounds
<1>5. WireFits'
  BY OpNamesAre, <1>1, <1>2
  DEF SerialInv, TypeOK, WireFits, PlaceFits, Running, CloseSession, ServiceCrash, LineFault, host,
        wire, controller, progress
<1>6. QueryFits'
  BY OpNamesAre, <1>1, <1>2
  DEF SerialInv, TypeOK, QueryFits, PlaceFits, Running, CloseSession, ServiceCrash, LineFault, host,
        wire, controller, progress
<1>7. CountFits'
  BY OpNamesAre, <1>1, <1>2
  DEF SerialInv, TypeOK, CountFits, PlaceFits, WireFits, Settled, CloseSession, ServiceCrash,
        LineFault, host, wire, controller, progress
<1>8. ProgressFits'
  BY OpNamesAre, <1>1, <1>2, SMTT(30)
  DEF SerialInv, TypeOK, ProgressFits, PlaceFits, CountFits, Streaming, CloseSession, ServiceCrash,
        LineFault, host, wire, controller, progress
<1>9. HomeFits'
  BY OpNamesAre, <1>1, <1>2
  DEF SerialInv, TypeOK, HomeFits, PlaceFits, WireFits, Unhomed, Early, Clean, CloseSession,
        ServiceCrash, LineFault, host, wire, controller, progress
<1>10. StatusFits'
  BY OpNamesAre, <1>1, <1>2
  DEF SerialInv, TypeOK, StatusFits, PlaceFits, WireFits, QueryFits, HomeFits, Running, Early, Clean,
        Unhomed, OpCommands, IdleStates, CloseSession, ServiceCrash, LineFault, host, wire, controller,
        progress
<1>11. CrossFits'
  BY OpNamesAre, <1>1, <1>2
  DEF SerialInv, TypeOK, CrossFits, PlaceFits, WireFits, Running, Early, CloseSession, ServiceCrash,
        LineFault, host, wire, controller, progress
<1> QED
  BY <1>3, <1>4, <1>5, <1>6, <1>7, <1>8, <1>9, <1>10, <1>11 DEF SerialInv


\* The command in hand is sent.
LEMMA WriteInv ==
  ASSUME Bounds, SerialInv, Write
  PROVE  SerialInv'
<1>1. [cmd |-> cmd, op |-> op] \in Frames
  BY OpNamesAre DEF SerialInv, TypeOK, PlaceFits, Frames, Write
<1>2. /\ rx' \in Seq(Frames)
      /\ cmd # "?" => Sent' /\ (Asked' <=> Asked) /\ (~Sent => OneSent') /\ (OneAsked => OneAsked')
      /\ cmd = "?" => Asked' /\ (Sent' <=> Sent) /\ (~Asked => OneAsked') /\ (OneSent => OneSent')
      /\ ~Sent => Carried'
  BY <1>1, RxAppend DEF SerialInv, TypeOK, Frames, Write
<1>3. /\ (Acked' <=> Acked) /\ (Reported' <=> Reported) /\ (IdleSaid' <=> IdleSaid) /\ (Word' <=> Word)
      /\ (OneAcked' <=> OneAcked) /\ (OneReported' <=> OneReported)
  BY TxSame DEF Write
<1>4. TypeOK'
  BY OpNamesAre, <1>1, <1>2, <1>3
  DEF SerialInv, TypeOK, PlaceFits, Frames, Queries, Failures, StatusLines, Write, host, wire,
        controller, progress, Bounds
<1>5. PlaceFits'
  BY OpNamesAre, <1>1, <1>2, <1>3
  DEF SerialInv, TypeOK, PlaceFits, Early, OpCommands, Write, host, wire, controller, progress,
        Bounds
<1>6. WireFits'
  BY OpNamesAre, <1>1, <1>2, <1>3
  DEF SerialInv, TypeOK, WireFits, PlaceFits, Running, Write, host, wire, controller, progress
<1>7. QueryFits'
  BY OpNamesAre, <1>1, <1>2, <1>3
  DEF SerialInv, TypeOK, QueryFits, PlaceFits, Running, Write, host, wire, controller, progress
<1>8. CountFits'
  BY OpNamesAre, <1>1, <1>2, <1>3
  DEF SerialInv, TypeOK, CountFits, PlaceFits, WireFits, Settled, Running, Write, host, wire,
        controller, progress
<1>9. ProgressFits'
  BY OpNamesAre, <1>1, <1>2, <1>3
  DEF SerialInv, TypeOK, ProgressFits, PlaceFits, CountFits, Streaming, Write, host, wire,
        controller, progress
<1>10. HomeFits'
  BY OpNamesAre, <1>1, <1>2, <1>3
  DEF SerialInv, TypeOK, HomeFits, PlaceFits, WireFits, Unhomed, Early, Clean, Write, host, wire,
        controller, progress
<1>11. StatusFits'
  BY OpNamesAre, <1>1, <1>2, <1>3
  DEF SerialInv, TypeOK, StatusFits, PlaceFits, WireFits, QueryFits, HomeFits, Running, Early, Clean,
        Unhomed, OpCommands, IdleStates, Write, host, wire, controller, progress
<1>12. CrossFits'
  BY OpNamesAre, <1>1, <1>2, <1>3
  DEF SerialInv, TypeOK, CrossFits, PlaceFits, WireFits, Running, Early, Write, host, wire,
        controller, progress
<1> QED
  BY <1>4, <1>5, <1>6, <1>7, <1>8, <1>9, <1>10, <1>11, <1>12 DEF SerialInv


\* The next operation of the session begins.
LEMMA BeginInv ==
  ASSUME Bounds, SerialInv, BeginOperation
  PROVE  SerialInv'
<1>1. op \in OpNames
  BY OpNamesAre DEF SerialInv, TypeOK, PlaceFits, BeginOperation
<1>2. /\ op' \in OpNames \ Early
      /\ (op' = "home") <=> (op = "preflight")
      /\ (op' = "stream") <=> (op = "zconfirm")
      /\ (op' = "homez") <=> (op = "stream")
  <2> DEFINE i == CHOOSE n \in 1 .. Len(Operations) : Operations[n] = op
  <2>1. i \in 1 .. 6 /\ Operations[i] = op
    BY <1>1, IndexOf
  <2>2. op' = Operations[i + 1] /\ op # "homez"
    BY DEF BeginOperation
  <2> HIDE DEF i
  <2> QED
    BY <1>1, <2>1, <2>2, Following
<1>3. /\ (Sent' <=> Sent) /\ (Asked' <=> Asked) /\ (OneSent => OneSent') /\ (OneAsked => OneAsked')
      /\ (Carried /\ UNCHANGED <<cmd, op>> => Carried') /\ (~Sent => Carried')
  BY RxSame DEF BeginOperation, host, wire, controller, progress
<1>4. /\ (Acked' <=> Acked) /\ (Reported' <=> Reported) /\ (IdleSaid' <=> IdleSaid) /\ (Word' <=> Word)
      /\ (OneAcked' <=> OneAcked) /\ (OneReported' <=> OneReported)
  BY TxSame DEF BeginOperation, host, wire, controller, progress
<1>5. Trouble(tx) => Word
  BY DEF Trouble, Word, SerialInv, TypeOK
<1>6. TypeOK'
  <2>1. spc' \in {"unopened", "startup", "ready", "write", "reply", "drain", "progress", "returned",
                     "recording", "failed", "closed", "dead"}
    BY <1>2 DEF SerialInv, TypeOK, BeginOperation, host, wire, controller, progress
  <2>2. op' \in OpNames \cup {"none"} /\ cmd' \in Queries \cup {"line"}
    BY <1>2 DEF SerialInv, TypeOK, Queries, BeginOperation, host, wire, controller, progress
  <2>3. step' \in 0 .. Lines + CalSteps + 1
    BY <1>2 DEF SerialInv, TypeOK, Bounds, BeginOperation, host, wire, controller, progress
  <2>4. status' \in StatusLines \cup {"none", "banner"}
    BY <1>2 DEF SerialInv, TypeOK, StatusLines, BeginOperation, host, wire, controller, progress
  <2>5. evidence' \in 0 .. MaxEvidence /\ settled' \in BOOLEAN
    BY <1>2 DEF SerialInv, TypeOK, Bounds, BeginOperation, host, wire, controller, progress
  <2>6. failure' \in Failures \cup {"none"} /\ results' \in [OpNames -> Failures \cup {"none", "ok"}]
    BY <1>2 DEF SerialInv, TypeOK, Failures, BeginOperation, host, wire, controller, progress
  <2>7. rx' \in Seq(Frames) /\ tx' \in Seq(Answers)
    BY <1>2 DEF SerialInv, TypeOK, Frames, BeginOperation, host, wire, controller, progress
  <2>8. /\ link' \in BOOLEAN /\ trouble' \in BOOLEAN /\ homed' \in BOOLEAN /\ alarm' \in BOOLEAN
        /\ unasked' \in BOOLEAN /\ lifetime' \in BOOLEAN
    BY <1>2 DEF SerialInv, TypeOK, BeginOperation, host, wire, controller, progress, Trouble
  <2>9. /\ planner' \in Nat /\ taken' \in Nat /\ lost' \in Nat /\ stray' \in Nat /\ crossed' \in Nat
        /\ pending' \in Nat /\ sfaults' \in Nat
    BY <1>2 DEF SerialInv, TypeOK, BeginOperation, host, wire, controller, progress
  <2>10. durable' \in [acks : Nat, failed : BOOLEAN]
    BY <1>2 DEF SerialInv, TypeOK, BeginOperation, host, wire, controller, progress
  <2> QED
    BY <2>1, <2>2, <2>3, <2>4, <2>5, <2>6, <2>7, <2>8, <2>9, <2>10 DEF TypeOK, Frames
<1>7. PlaceFits'
  BY OpNamesAre, <1>1, <1>2, <1>3, <1>4, <1>5
  DEF SerialInv, TypeOK, PlaceFits, Early, OpCommands, BeginOperation, host, wire, controller,
        progress, Bounds
<1>8. WireFits'
  BY OpNamesAre, <1>1, <1>2, <1>3, <1>4, <1>5
  DEF SerialInv, TypeOK, WireFits, PlaceFits, Running, BeginOperation, host, wire, controller,
        progress
<1>9. QueryFits'
  BY OpNamesAre, <1>1, <1>2, <1>3, <1>4, <1>5
  DEF SerialInv, TypeOK, QueryFits, PlaceFits, Running, BeginOperation, host, wire, controller,
        progress
<1>10. CountFits'
  BY OpNamesAre, <1>1, <1>2, <1>3, <1>4, <1>5
  DEF SerialInv, TypeOK, CountFits, PlaceFits, WireFits, Settled, ProgressFits, BeginOperation, host,
        wire, controller, progress
<1>11. ProgressFits'
  BY OpNamesAre, <1>1, <1>2, <1>3, <1>4, <1>5
  DEF SerialInv, TypeOK, ProgressFits, PlaceFits, CountFits, Streaming, BeginOperation, host, wire,
        controller, progress
<1>12. HomeFits'
  BY OpNamesAre, <1>1, <1>2, <1>3, <1>4, <1>5
  DEF SerialInv, TypeOK, HomeFits, PlaceFits, WireFits, Unhomed, Early, Clean, BeginOperation, host,
        wire, controller, progress
<1>13. StatusFits'
  BY OpNamesAre, <1>1, <1>2, <1>3, <1>4, <1>5
  DEF SerialInv, TypeOK, StatusFits, PlaceFits, WireFits, QueryFits, HomeFits, Running, Early, Clean,
        Unhomed, OpCommands, IdleStates, BeginOperation, host, wire, controller, progress
<1>14. CrossFits'
  BY OpNamesAre, <1>1, <1>2, <1>3, <1>4, <1>5
  DEF SerialInv, TypeOK, CrossFits, PlaceFits, WireFits, Running, Early, BeginOperation, host, wire,
        controller, progress
<1> QED
  BY <1>6, <1>7, <1>8, <1>9, <1>10, <1>11, <1>12, <1>13, <1>14 DEF SerialInv


\* The controller accepts a query.
LEMMA AcceptQueryInv ==
  ASSUME Bounds, SerialInv, ControllerAccepts, cmd # "line"
  PROVE  SerialInv'
<1>1. /\ rx' \in Seq(Frames) /\ Head(rx) \in Frames
      /\ Head(rx).cmd # "?" => Sent /\ (Asked' <=> Asked) /\ (OneSent => ~Sent')
      /\ Head(rx).cmd # "?" /\ Carried => Head(rx).cmd = cmd /\ Head(rx).op = op
      /\ Head(rx).cmd = "?" => Asked /\ (Sent' <=> Sent) /\ (OneAsked => ~Asked')
      /\ (OneSent => OneSent') /\ (OneAsked => OneAsked') /\ (Sent' => Sent) /\ (Asked' => Asked)
      /\ Carried => Carried'
  BY RxTail DEF SerialInv, TypeOK, Frames, CommandTaken, host, ControllerAccepts
<1>2. /\ tx' \in Seq(Answers)
      /\ Acked' /\ (~Acked => OneAcked')
      /\ (Reported' <=> Reported) /\ (OneReported' <=> OneReported) /\ (IdleSaid' <=> IdleSaid) /\ (Word => Word')
  BY TxAppend DEF SerialInv, TypeOK, Answers, StatusLines, Troubles, Say, Tells, ControllerAccepts
<1>3. /\ cmd # "?" /\ Sent /\ ~Sent' /\ ~Acked /\ OneAcked' /\ OneSent' /\ Carried'
      /\ Head(rx).cmd = cmd /\ Head(rx).op = op /\ (Running => spc = "reply")
  BY <1>1, <1>2 DEF SerialInv, WireFits, ControllerAccepts
<1>4. UNCHANGED <<host, controller, link, progress, sfaults>>
  BY <1>3 DEF ControllerAccepts, Count, controller, SerialInv, TypeOK
<1>5. TypeOK'
  BY OpNamesAre, <1>1, <1>2, <1>3, <1>4
  DEF SerialInv, TypeOK, PlaceFits, Frames, Queries, Failures, StatusLines, host, progress,
        controller, Bounds
<1>6. PlaceFits'
  BY OpNamesAre, <1>1, <1>2, <1>3, <1>4
  DEF SerialInv, TypeOK, PlaceFits, Early, OpCommands, host, progress, controller, Bounds
<1>7. WireFits'
  BY OpNamesAre, <1>1, <1>2, <1>3, <1>4
  DEF SerialInv, TypeOK, WireFits, PlaceFits, Running, host, progress, controller
<1>8. QueryFits'
  BY OpNamesAre, <1>1, <1>2, <1>3, <1>4
  DEF SerialInv, TypeOK, QueryFits, PlaceFits, Running, host, progress, controller
<1>9. CountFits'
  BY OpNamesAre, <1>1, <1>2, <1>3, <1>4
  DEF SerialInv, TypeOK, CountFits, PlaceFits, WireFits, Settled, host, progress, controller
<1>10. ProgressFits'
  BY OpNamesAre, <1>1, <1>2, <1>3, <1>4
  DEF SerialInv, TypeOK, ProgressFits, PlaceFits, CountFits, Streaming, host, progress, controller
<1>11. HomeFits'
  BY OpNamesAre, <1>1, <1>2, <1>3, <1>4
  DEF SerialInv, TypeOK, HomeFits, PlaceFits, WireFits, Unhomed, Early, Clean, host, progress,
        controller
<1>12. StatusFits'
  BY OpNamesAre, <1>1, <1>2, <1>3, <1>4
  DEF SerialInv, TypeOK, StatusFits, PlaceFits, WireFits, QueryFits, HomeFits, Running, Early, Clean,
        Unhomed, OpCommands, IdleStates, host, progress, controller
<1>13. CrossFits'
  BY OpNamesAre, <1>1, <1>2, <1>3, <1>4
  DEF SerialInv, TypeOK, CrossFits, PlaceFits, WireFits, Running, Early, host, progress, controller
<1> QED
  BY <1>5, <1>6, <1>7, <1>8, <1>9, <1>10, <1>11, <1>12, <1>13 DEF SerialInv


\* The controller accepts a motion.
LEMMA AcceptLineInv ==
  ASSUME Bounds, SerialInv, ControllerAccepts, cmd = "line"
  PROVE  SerialInv'
<1>1. /\ rx' \in Seq(Frames) /\ Head(rx) \in Frames
      /\ Head(rx).cmd # "?" => Sent /\ (Asked' <=> Asked) /\ (OneSent => ~Sent')
      /\ Head(rx).cmd # "?" /\ Carried => Head(rx).cmd = cmd /\ Head(rx).op = op
      /\ Head(rx).cmd = "?" => Asked /\ (Sent' <=> Sent) /\ (OneAsked => ~Asked')
      /\ (OneSent => OneSent') /\ (OneAsked => OneAsked') /\ (Sent' => Sent) /\ (Asked' => Asked)
      /\ Carried => Carried'
  BY RxTail DEF SerialInv, TypeOK, Frames, CommandTaken, host, ControllerAccepts
<1>2. /\ tx' \in Seq(Answers)
      /\ Acked' /\ (~Acked => OneAcked')
      /\ (Reported' <=> Reported) /\ (OneReported' <=> OneReported) /\ (IdleSaid' <=> IdleSaid) /\ (Word => Word')
  BY TxAppend DEF SerialInv, TypeOK, Answers, StatusLines, Troubles, Say, Tells, ControllerAccepts
<1>3. /\ cmd # "?" /\ Sent /\ ~Sent' /\ ~Acked /\ OneAcked' /\ OneSent' /\ Carried'
      /\ Head(rx).cmd = cmd /\ Head(rx).op = op /\ (Running => spc = "reply")
  BY <1>1, <1>2 DEF SerialInv, WireFits, ControllerAccepts
<1>4. /\ UNCHANGED <<host, link, lost, trouble, unasked, progress, sfaults>> /\ link
      /\ alarm => op = "home"
      /\ planner' = planner + 1
      /\ (homed \/ op = "home") => homed' /\ UNCHANGED stray
      /\ ~homed /\ op # "home" => ~homed' /\ stray' = stray + 1
      /\ op = "home" => ~alarm'
      /\ op # "home" => ~alarm /\ ~alarm'
      /\ op = "stream" => taken' = taken + 1
      /\ op # "stream" => taken' = taken
      /\ trouble => crossed' = crossed + 1
      /\ ~trouble => crossed' = crossed
      /\ homed' \in BOOLEAN /\ alarm' \in BOOLEAN
  BY <1>3 DEF ControllerAccepts, Count, SerialInv, TypeOK
<1>5. planner \in Nat /\ taken \in Nat /\ lost \in Nat /\ stray \in Nat /\ crossed \in Nat
  BY DEF SerialInv, TypeOK
<1>6. TypeOK'
  <2>1. spc' \in {"unopened", "startup", "ready", "write", "reply", "drain", "progress", "returned",
                     "recording", "failed", "closed", "dead"}
    BY <1>1, <1>2, <1>4 DEF SerialInv, TypeOK, host, progress
  <2>2. op' \in OpNames \cup {"none"} /\ cmd' \in Queries \cup {"line"}
    BY <1>1, <1>2, <1>4 DEF SerialInv, TypeOK, Queries, host, progress
  <2>3. step' \in 0 .. Lines + CalSteps + 1
    BY <1>1, <1>2, <1>4 DEF SerialInv, TypeOK, Bounds, host, progress
  <2>4. status' \in StatusLines \cup {"none", "banner"}
    BY <1>1, <1>2, <1>4 DEF SerialInv, TypeOK, StatusLines, host, progress
  <2>5. evidence' \in 0 .. MaxEvidence /\ settled' \in BOOLEAN
    BY <1>1, <1>2, <1>4 DEF SerialInv, TypeOK, Bounds, host, progress
  <2>6. failure' \in Failures \cup {"none"} /\ results' \in [OpNames -> Failures \cup {"none", "ok"}]
    BY <1>1, <1>2, <1>4 DEF SerialInv, TypeOK, Failures, host, progress
  <2>7. rx' \in Seq(Frames) /\ tx' \in Seq(Answers)
    BY <1>1, <1>2, <1>4 DEF SerialInv, TypeOK, Frames, host, progress
  <2>8. /\ link' \in BOOLEAN /\ trouble' \in BOOLEAN /\ homed' \in BOOLEAN /\ alarm' \in BOOLEAN
        /\ unasked' \in BOOLEAN /\ lifetime' \in BOOLEAN
    BY <1>1, <1>2, <1>4 DEF SerialInv, TypeOK, host, progress
  <2>9. /\ planner' \in Nat /\ taken' \in Nat /\ lost' \in Nat /\ stray' \in Nat /\ crossed' \in Nat
        /\ pending' \in Nat /\ sfaults' \in Nat
    <3>1. planner' \in Nat
      BY <1>4, <1>5
    <3>2. taken' \in Nat
      BY <1>4, <1>5
    <3>3. lost' \in Nat /\ pending' \in Nat /\ sfaults' \in Nat
      BY <1>4 DEF SerialInv, TypeOK, progress
    <3>4. stray' \in Nat
      BY <1>4, <1>5
    <3>5. crossed' \in Nat
      BY <1>4, <1>5
    <3> QED
      BY <3>1, <3>2, <3>3, <3>4, <3>5
  <2>10. durable' \in [acks : Nat, failed : BOOLEAN]
    BY <1>1, <1>2, <1>4 DEF SerialInv, TypeOK, host, progress
  <2> QED
    BY <2>1, <2>2, <2>3, <2>4, <2>5, <2>6, <2>7, <2>8, <2>9, <2>10 DEF TypeOK, Frames
<1>7. PlaceFits'
  BY OpNamesAre, <1>1, <1>2, <1>3, <1>4, <1>5
  DEF SerialInv, TypeOK, PlaceFits, Early, OpCommands, host, progress, Bounds
<1>8. WireFits'
  BY OpNamesAre, <1>1, <1>2, <1>3, <1>4, <1>5
  DEF SerialInv, TypeOK, WireFits, PlaceFits, Running, host, progress
<1>9. QueryFits'
  BY OpNamesAre, <1>1, <1>2, <1>3, <1>4, <1>5
  DEF SerialInv, TypeOK, QueryFits, PlaceFits, Running, host, progress
<1>10. CountFits'
  <2>1. op = "stream" => taken = step
    BY <1>3 DEF SerialInv, CountFits, Settled
  <2>2. ~Settled'
    BY <1>3, <1>4 DEF Settled, Running, host
  <2> QED
    BY <1>4, <1>5, <2>1, <2>2 DEF SerialInv, TypeOK, Bounds, CountFits, host
<1>11. ProgressFits'
  BY OpNamesAre, <1>1, <1>2, <1>3, <1>4, <1>5
  DEF SerialInv, TypeOK, ProgressFits, PlaceFits, CountFits, Streaming, host, progress
<1>12. HomeFits'
  <2>1. ~Unhomed'
    BY <1>3, <1>4 DEF SerialInv, PlaceFits, Unhomed, Running, host
  <2>2. op = "home" => lost = 0 /\ stray = 0
    BY <1>3 DEF SerialInv, HomeFits, Unhomed, Clean
  <2>3. lost' > 0 => alarm' \/ ~homed'
    BY <1>4, <1>5, <2>2 DEF SerialInv, TypeOK, HomeFits
  <2>4. stray' > 0 => ~homed'
    BY <1>4, <1>5, <2>2 DEF SerialInv, TypeOK, HomeFits
  <2> QED
    BY <2>1, <2>3, <2>4 DEF HomeFits
<1>13. StatusFits'
  <2>1. ~unasked /\ Running /\ op \notin Early => status # "Idle" /\ ~IdleSaid'
    BY <1>2, <1>3, IdleReported DEF SerialInv, QueryFits, StatusFits
  <2>2. (Running' <=> Running) /\ UNCHANGED <<spc, op, cmd, status, failure, unasked>>
    BY <1>4 DEF Running, host
  <2>3. spc # "ready" /\ ~(spc = "returned" /\ failure = "none")
    BY <1>3 DEF Running
  <2> QED
    BY <2>1, <2>2, <2>3 DEF SerialInv, StatusFits
<1>14. CrossFits'
  BY OpNamesAre, <1>1, <1>2, <1>3, <1>4, <1>5
  DEF SerialInv, TypeOK, CrossFits, PlaceFits, WireFits, Running, Early, host, progress
<1> QED
  BY <1>6, <1>7, <1>8, <1>9, <1>10, <1>11, <1>12, <1>13, <1>14 DEF SerialInv


\* The controller refuses a command.
LEMMA RefuseInv ==
  ASSUME Bounds, SerialInv, ControllerRefuses
  PROVE  SerialInv'
<1>1. /\ rx' \in Seq(Frames) /\ Head(rx) \in Frames
      /\ Head(rx).cmd # "?" => Sent /\ (Asked' <=> Asked) /\ (OneSent => ~Sent')
      /\ Head(rx).cmd # "?" /\ Carried => Head(rx).cmd = cmd /\ Head(rx).op = op
      /\ Head(rx).cmd = "?" => Asked /\ (Sent' <=> Sent) /\ (OneAsked => ~Asked')
      /\ (OneSent => OneSent') /\ (OneAsked => OneAsked') /\ (Sent' => Sent) /\ (Asked' => Asked)
      /\ Carried => Carried'
  BY RxTail DEF SerialInv, TypeOK, Frames, CommandTaken, host, ControllerRefuses
<1>2. /\ tx' \in Seq(Answers)
      /\ (Acked' <=> Acked) /\ (OneAcked' <=> OneAcked) /\ Word'
      /\ (Reported' <=> Reported) /\ (OneReported' <=> OneReported) /\ (IdleSaid' <=> IdleSaid)
  BY TxAppend DEF SerialInv, TypeOK, Answers, StatusLines, Troubles, Say, Tells, ControllerRefuses
<1>3. TypeOK'
  BY OpNamesAre, <1>1, <1>2
  DEF SerialInv, TypeOK, PlaceFits, Frames, Queries, Failures, StatusLines, ControllerRefuses,
        CommandTaken, Tells, Say, LineFault, host, progress, Bounds
<1>4. PlaceFits'
  BY OpNamesAre, <1>1, <1>2
  DEF SerialInv, TypeOK, PlaceFits, Early, OpCommands, ControllerRefuses, CommandTaken, Tells, Say,
        LineFault, host, progress, Bounds
<1>5. WireFits'
  BY OpNamesAre, <1>1, <1>2
  DEF SerialInv, TypeOK, WireFits, PlaceFits, Running, ControllerRefuses, CommandTaken, Tells, Say,
        LineFault, host, progress
<1>6. QueryFits'
  BY OpNamesAre, <1>1, <1>2
  DEF SerialInv, TypeOK, QueryFits, PlaceFits, Running, ControllerRefuses, CommandTaken, Tells, Say,
        LineFault, host, progress
<1>7. CountFits'
  BY OpNamesAre, <1>1, <1>2
  DEF SerialInv, TypeOK, CountFits, PlaceFits, WireFits, Settled, ControllerRefuses, CommandTaken,
        Tells, Say, LineFault, host, progress
<1>8. ProgressFits'
  BY OpNamesAre, <1>1, <1>2
  DEF SerialInv, TypeOK, ProgressFits, PlaceFits, CountFits, Streaming, ControllerRefuses,
        CommandTaken, Tells, Say, LineFault, host, progress
<1>9. HomeFits'
  BY OpNamesAre, <1>1, <1>2
  DEF SerialInv, TypeOK, HomeFits, PlaceFits, WireFits, Unhomed, Early, Clean, ControllerRefuses,
        CommandTaken, Tells, Say, LineFault, host, progress
<1>10. StatusFits'
  BY OpNamesAre, <1>1, <1>2
  DEF SerialInv, TypeOK, StatusFits, PlaceFits, WireFits, QueryFits, HomeFits, Running, Early, Clean,
        Unhomed, OpCommands, IdleStates, ControllerRefuses, CommandTaken, Tells, Say, LineFault, host,
        progress
<1>11. CrossFits'
  BY OpNamesAre, <1>1, <1>2
  DEF SerialInv, TypeOK, CrossFits, PlaceFits, WireFits, Running, Early, ControllerRefuses,
        CommandTaken, Tells, Say, LineFault, host, progress
<1> QED
  BY <1>3, <1>4, <1>5, <1>6, <1>7, <1>8, <1>9, <1>10, <1>11 DEF SerialInv


\* The controller answers a status query.
LEMMA ReportInv ==
  ASSUME Bounds, SerialInv, ControllerReports
  PROVE  SerialInv'
<1>1. /\ rx' \in Seq(Frames) /\ Head(rx) \in Frames
      /\ Head(rx).cmd # "?" => Sent /\ (Asked' <=> Asked) /\ (OneSent => ~Sent')
      /\ Head(rx).cmd # "?" /\ Carried => Head(rx).cmd = cmd /\ Head(rx).op = op
      /\ Head(rx).cmd = "?" => Asked /\ (Sent' <=> Sent) /\ (OneAsked => ~Asked')
      /\ (OneSent => OneSent') /\ (OneAsked => OneAsked') /\ (Sent' => Sent) /\ (Asked' => Asked)
      /\ Carried => Carried'
  BY RxTail DEF SerialInv, TypeOK, Frames, CommandTaken, host, ControllerReports
<1>2. /\ tx' \in Seq(Answers)
      /\ (Acked' <=> Acked) /\ (OneAcked' <=> OneAcked) /\ (Word => Word')
      /\ Reported' /\ (~Reported => OneReported') /\ (StatusNow # "Idle" => (IdleSaid' <=> IdleSaid))
      /\ sfaults' \in Nat
  <2>1. CASE Say(StatusNow) /\ UNCHANGED sfaults
    BY <2>1, TxAppend
    DEF SerialInv, TypeOK, Answers, StatusLines, Troubles, Say, Tells, ControllerReports, StatusNow
  <2>2. CASE Say("Door") /\ LineFault
    BY <2>2, TxAppend
    DEF SerialInv, TypeOK, Answers, StatusLines, Troubles, Say, Tells, ControllerReports, StatusNow, LineFault
  <2> QED
    BY <2>1, <2>2 DEF ControllerReports
<1>3. TypeOK'
  BY OpNamesAre, <1>1, <1>2
  DEF SerialInv, TypeOK, PlaceFits, Frames, Queries, Failures, StatusLines, ControllerReports,
        CommandTaken, Say, host, progress, controller, Bounds
<1>4. PlaceFits'
  BY OpNamesAre, <1>1, <1>2
  DEF SerialInv, TypeOK, PlaceFits, Early, OpCommands, ControllerReports, CommandTaken, Say, host,
        progress, controller, Bounds
<1>5. WireFits'
  BY OpNamesAre, <1>1, <1>2
  DEF SerialInv, TypeOK, WireFits, PlaceFits, Running, ControllerReports, CommandTaken, Say, host,
        progress, controller
<1>6. QueryFits'
  BY OpNamesAre, <1>1, <1>2
  DEF SerialInv, TypeOK, QueryFits, PlaceFits, Running, ControllerReports, CommandTaken, Say, host,
        progress, controller
<1>7. CountFits'
  BY OpNamesAre, <1>1, <1>2
  DEF SerialInv, TypeOK, CountFits, PlaceFits, WireFits, Settled, ControllerReports, CommandTaken,
        Say, host, progress, controller
<1>8. ProgressFits'
  BY OpNamesAre, <1>1, <1>2
  DEF SerialInv, TypeOK, ProgressFits, PlaceFits, CountFits, Streaming, ControllerReports,
        CommandTaken, Say, host, progress, controller
<1>9. HomeFits'
  BY OpNamesAre, <1>1, <1>2
  DEF SerialInv, TypeOK, HomeFits, PlaceFits, WireFits, Unhomed, Early, Clean, ControllerReports,
        CommandTaken, Say, host, progress, controller
<1>10. StatusFits'
  BY OpNamesAre, <1>1, <1>2
  DEF SerialInv, TypeOK, StatusFits, PlaceFits, WireFits, QueryFits, HomeFits, Running, Early, Clean,
        Unhomed, OpCommands, IdleStates, StatusNow, ControllerReports, CommandTaken, Say, host,
        progress, controller
<1>11. CrossFits'
  BY OpNamesAre, <1>1, <1>2
  DEF SerialInv, TypeOK, CrossFits, PlaceFits, WireFits, Running, Early, ControllerReports,
        CommandTaken, Say, host, progress, controller
<1> QED
  BY <1>3, <1>4, <1>5, <1>6, <1>7, <1>8, <1>9, <1>10, <1>11 DEF SerialInv


\* A motion is finished.
LEMMA MoveInv ==
  ASSUME Bounds, SerialInv, ControllerMoves
  PROVE  SerialInv'
<1>1. /\ (Sent' <=> Sent) /\ (Asked' <=> Asked) /\ (OneSent => OneSent') /\ (OneAsked => OneAsked')
      /\ (Carried /\ UNCHANGED <<cmd, op>> => Carried') /\ (~Sent => Carried')
  BY RxSame DEF ControllerMoves, wire, host, progress
<1>2. /\ (Acked' <=> Acked) /\ (Reported' <=> Reported) /\ (IdleSaid' <=> IdleSaid) /\ (Word' <=> Word)
      /\ (OneAcked' <=> OneAcked) /\ (OneReported' <=> OneReported)
  BY TxSame DEF ControllerMoves, wire, host, progress
<1>3. TypeOK'
  BY OpNamesAre, <1>1, <1>2
  DEF SerialInv, TypeOK, PlaceFits, Frames, Queries, Failures, StatusLines, ControllerMoves, wire,
        host, progress, Bounds
<1>4. PlaceFits'
  BY OpNamesAre, <1>1, <1>2
  DEF SerialInv, TypeOK, PlaceFits, Early, OpCommands, ControllerMoves, wire, host, progress, Bounds
<1>5. WireFits'
  BY OpNamesAre, <1>1, <1>2
  DEF SerialInv, TypeOK, WireFits, PlaceFits, Running, ControllerMoves, wire, host, progress
<1>6. QueryFits'
  BY OpNamesAre, <1>1, <1>2
  DEF SerialInv, TypeOK, QueryFits, PlaceFits, Running, ControllerMoves, wire, host, progress
<1>7. CountFits'
  BY OpNamesAre, <1>1, <1>2
  DEF SerialInv, TypeOK, CountFits, PlaceFits, WireFits, Settled, ControllerMoves, wire, host,
        progress
<1>8. ProgressFits'
  BY OpNamesAre, <1>1, <1>2
  DEF SerialInv, TypeOK, ProgressFits, PlaceFits, CountFits, Streaming, ControllerMoves, wire, host,
        progress
<1>9. HomeFits'
  BY OpNamesAre, <1>1, <1>2
  DEF SerialInv, TypeOK, HomeFits, PlaceFits, WireFits, Unhomed, Early, Clean, ControllerMoves, wire,
        host, progress
<1>10. StatusFits'
  BY OpNamesAre, <1>1, <1>2
  DEF SerialInv, TypeOK, StatusFits, PlaceFits, WireFits, QueryFits, HomeFits, Running, Early, Clean,
        Unhomed, OpCommands, IdleStates, ControllerMoves, wire, host, progress
<1>11. CrossFits'
  BY OpNamesAre, <1>1, <1>2
  DEF SerialInv, TypeOK, CrossFits, PlaceFits, WireFits, Running, Early, ControllerMoves, wire, host,
        progress
<1> QED
  BY <1>3, <1>4, <1>5, <1>6, <1>7, <1>8, <1>9, <1>10, <1>11 DEF SerialInv


\* The controller reports its status unasked.
LEMMA AutoReportInv ==
  ASSUME Bounds, SerialInv, ControllerAutoReports
  PROVE  SerialInv'
<1>1. /\ (Sent' <=> Sent) /\ (Asked' <=> Asked) /\ (OneSent => OneSent') /\ (OneAsked => OneAsked')
      /\ (Carried /\ UNCHANGED <<cmd, op>> => Carried') /\ (~Sent => Carried')
  BY RxSame DEF ControllerAutoReports, LineFault, Say, host, progress
<1>2. /\ tx' \in Seq(Answers)
      /\ (Acked' <=> Acked) /\ (OneAcked' <=> OneAcked) /\ (Word => Word')
      /\ Reported' /\ (~Reported => OneReported') /\ (StatusNow # "Idle" => (IdleSaid' <=> IdleSaid))
  BY TxAppend DEF SerialInv, TypeOK, Answers, StatusLines, Troubles, Say, Tells, ControllerAutoReports, StatusNow
<1>3. TypeOK'
  BY OpNamesAre, <1>1, <1>2
  DEF SerialInv, TypeOK, PlaceFits, Frames, Queries, Failures, StatusLines, ControllerAutoReports,
        LineFault, Say, host, progress, Bounds
<1>4. PlaceFits'
  BY OpNamesAre, <1>1, <1>2
  DEF SerialInv, TypeOK, PlaceFits, Early, OpCommands, ControllerAutoReports, LineFault, Say, host,
        progress, Bounds
<1>5. WireFits'
  BY OpNamesAre, <1>1, <1>2
  DEF SerialInv, TypeOK, WireFits, PlaceFits, Running, ControllerAutoReports, LineFault, Say, host,
        progress
<1>6. QueryFits'
  BY OpNamesAre, <1>1, <1>2
  DEF SerialInv, TypeOK, QueryFits, PlaceFits, Running, ControllerAutoReports, LineFault, Say, host,
        progress
<1>7. CountFits'
  BY OpNamesAre, <1>1, <1>2
  DEF SerialInv, TypeOK, CountFits, PlaceFits, WireFits, Settled, ControllerAutoReports, LineFault,
        Say, host, progress
<1>8. ProgressFits'
  BY OpNamesAre, <1>1, <1>2
  DEF SerialInv, TypeOK, ProgressFits, PlaceFits, CountFits, Streaming, ControllerAutoReports,
        LineFault, Say, host, progress
<1>9. HomeFits'
  BY OpNamesAre, <1>1, <1>2
  DEF SerialInv, TypeOK, HomeFits, PlaceFits, WireFits, Unhomed, Early, Clean, ControllerAutoReports,
        LineFault, Say, host, progress
<1>10. StatusFits'
  BY OpNamesAre, <1>1, <1>2
  DEF SerialInv, TypeOK, StatusFits, PlaceFits, WireFits, QueryFits, HomeFits, Running, Early, Clean,
        Unhomed, OpCommands, IdleStates, ControllerAutoReports, LineFault, Say, host, progress
<1>11. CrossFits'
  BY OpNamesAre, <1>1, <1>2
  DEF SerialInv, TypeOK, CrossFits, PlaceFits, WireFits, Running, Early, ControllerAutoReports,
        LineFault, Say, host, progress
<1> QED
  BY <1>3, <1>4, <1>5, <1>6, <1>7, <1>8, <1>9, <1>10, <1>11 DEF SerialInv


\* The controller goes into alarm.
LEMMA AlarmInv ==
  ASSUME Bounds, SerialInv, ControllerAlarms
  PROVE  SerialInv'
<1>1. /\ (Sent' <=> Sent) /\ (Asked' <=> Asked) /\ (OneSent => OneSent') /\ (OneAsked => OneAsked')
      /\ (Carried /\ UNCHANGED <<cmd, op>> => Carried') /\ (~Sent => Carried')
  BY RxSame DEF ControllerAlarms, LineFault, Tells, Say, host, progress
<1>2. /\ tx' \in Seq(Answers)
      /\ (Acked' <=> Acked) /\ (OneAcked' <=> OneAcked) /\ Word'
      /\ (Reported' <=> Reported) /\ (OneReported' <=> OneReported) /\ (IdleSaid' <=> IdleSaid)
  BY TxAppend DEF SerialInv, TypeOK, Answers, StatusLines, Troubles, Say, Tells, ControllerAlarms
<1>3. TypeOK'
  BY OpNamesAre, <1>1, <1>2
  DEF SerialInv, TypeOK, PlaceFits, Frames, Queries, Failures, StatusLines, ControllerAlarms,
        LineFault, Tells, Say, host, progress, Bounds
<1>4. PlaceFits'
  BY OpNamesAre, <1>1, <1>2
  DEF SerialInv, TypeOK, PlaceFits, Early, OpCommands, ControllerAlarms, LineFault, Tells, Say, host,
        progress, Bounds
<1>5. WireFits'
  BY OpNamesAre, <1>1, <1>2
  DEF SerialInv, TypeOK, WireFits, PlaceFits, Running, ControllerAlarms, LineFault, Tells, Say, host,
        progress
<1>6. QueryFits'
  BY OpNamesAre, <1>1, <1>2
  DEF SerialInv, TypeOK, QueryFits, PlaceFits, Running, ControllerAlarms, LineFault, Tells, Say,
        host, progress
<1>7. CountFits'
  BY OpNamesAre, <1>1, <1>2
  DEF SerialInv, TypeOK, CountFits, PlaceFits, WireFits, Settled, ControllerAlarms, LineFault, Tells,
        Say, host, progress
<1>8. ProgressFits'
  BY OpNamesAre, <1>1, <1>2
  DEF SerialInv, TypeOK, ProgressFits, PlaceFits, CountFits, Streaming, ControllerAlarms, LineFault,
        Tells, Say, host, progress
<1>9. HomeFits'
  BY OpNamesAre, <1>1, <1>2, SMTT(30)
  DEF SerialInv, TypeOK, HomeFits, PlaceFits, WireFits, Unhomed, Early, Clean, ControllerAlarms,
        LineFault, Tells, Say, host, progress
<1>10. StatusFits'
  BY OpNamesAre, <1>1, <1>2
  DEF SerialInv, TypeOK, StatusFits, PlaceFits, WireFits, QueryFits, HomeFits, Running, Early, Clean,
        Unhomed, OpCommands, IdleStates, ControllerAlarms, LineFault, Tells, Say, host, progress
<1>11. CrossFits'
  BY OpNamesAre, <1>1, <1>2
  DEF SerialInv, TypeOK, CrossFits, PlaceFits, WireFits, Running, Early, ControllerAlarms, LineFault,
        Tells, Say, host, progress
<1> QED
  BY <1>3, <1>4, <1>5, <1>6, <1>7, <1>8, <1>9, <1>10, <1>11 DEF SerialInv


\* The controller resets.
LEMMA ResetInv ==
  ASSUME Bounds, SerialInv, ControllerResets
  PROVE  SerialInv'
<1>1. rx' \in Seq(Frames) /\ ~Sent' /\ ~Asked' /\ OneSent' /\ OneAsked' /\ Carried'
  BY RxEmpty DEF ControllerResets
<1>2. /\ tx' \in Seq(Answers)
      /\ (Acked' <=> Acked) /\ (OneAcked' <=> OneAcked) /\ Word'
      /\ (Reported' <=> Reported) /\ (OneReported' <=> OneReported) /\ (IdleSaid' <=> IdleSaid)
  BY TxAppend DEF SerialInv, TypeOK, Answers, StatusLines, Troubles, Say, Tells, ControllerResets
<1>3. TypeOK'
  <2>1. spc' \in {"unopened", "startup", "ready", "write", "reply", "drain", "progress", "returned",
                     "recording", "failed", "closed", "dead"}
    BY <1>1, <1>2 DEF SerialInv, TypeOK, ControllerResets, LineFault, Tells, Say, host, progress
  <2>2. op' \in OpNames \cup {"none"} /\ cmd' \in Queries \cup {"line"}
    BY <1>1, <1>2 DEF SerialInv, TypeOK, Queries, ControllerResets, LineFault, Tells, Say, host, progress
  <2>3. step' \in 0 .. Lines + CalSteps + 1
    BY <1>1, <1>2 DEF SerialInv, TypeOK, Bounds, ControllerResets, LineFault, Tells, Say, host, progress
  <2>4. status' \in StatusLines \cup {"none", "banner"}
    BY <1>1, <1>2 DEF SerialInv, TypeOK, StatusLines, ControllerResets, LineFault, Tells, Say, host, progress
  <2>5. evidence' \in 0 .. MaxEvidence /\ settled' \in BOOLEAN
    BY <1>1, <1>2 DEF SerialInv, TypeOK, Bounds, ControllerResets, LineFault, Tells, Say, host, progress
  <2>6. failure' \in Failures \cup {"none"} /\ results' \in [OpNames -> Failures \cup {"none", "ok"}]
    BY <1>1, <1>2 DEF SerialInv, TypeOK, Failures, ControllerResets, LineFault, Tells, Say, host, progress
  <2>7. rx' \in Seq(Frames) /\ tx' \in Seq(Answers)
    BY <1>1, <1>2 DEF SerialInv, TypeOK, Frames, ControllerResets, LineFault, Tells, Say, host, progress
  <2>8. /\ link' \in BOOLEAN /\ trouble' \in BOOLEAN /\ homed' \in BOOLEAN /\ alarm' \in BOOLEAN
        /\ unasked' \in BOOLEAN /\ lifetime' \in BOOLEAN
    BY <1>1, <1>2 DEF SerialInv, TypeOK, ControllerResets, LineFault, Tells, Say, host, progress
  <2>9. /\ planner' \in Nat /\ taken' \in Nat /\ lost' \in Nat /\ stray' \in Nat /\ crossed' \in Nat
        /\ pending' \in Nat /\ sfaults' \in Nat
    BY <1>1, <1>2, SMTT(30) DEF SerialInv, TypeOK, ControllerResets, LineFault, Tells, Say, host, progress
  <2>10. durable' \in [acks : Nat, failed : BOOLEAN]
    BY <1>1, <1>2 DEF SerialInv, TypeOK, ControllerResets, LineFault, Tells, Say, host, progress
  <2> QED
    BY <2>1, <2>2, <2>3, <2>4, <2>5, <2>6, <2>7, <2>8, <2>9, <2>10 DEF TypeOK, Frames
<1>4. PlaceFits'
  BY OpNamesAre, <1>1, <1>2
  DEF SerialInv, TypeOK, PlaceFits, Early, OpCommands, ControllerResets, LineFault, Tells, Say, host,
        progress, Bounds
<1>5. WireFits'
  BY OpNamesAre, <1>1, <1>2
  DEF SerialInv, TypeOK, WireFits, PlaceFits, Running, ControllerResets, LineFault, Tells, Say, host,
        progress
<1>6. QueryFits'
  BY OpNamesAre, <1>1, <1>2
  DEF SerialInv, TypeOK, QueryFits, PlaceFits, Running, ControllerResets, LineFault, Tells, Say,
        host, progress
<1>7. CountFits'
  BY OpNamesAre, <1>1, <1>2
  DEF SerialInv, TypeOK, CountFits, PlaceFits, WireFits, Settled, ControllerResets, LineFault, Tells,
        Say, host, progress
<1>8. ProgressFits'
  BY OpNamesAre, <1>1, <1>2
  DEF SerialInv, TypeOK, ProgressFits, PlaceFits, CountFits, Streaming, ControllerResets, LineFault,
        Tells, Say, host, progress
<1>9. HomeFits'
  BY OpNamesAre, <1>1, <1>2, SMTT(30)
  DEF SerialInv, TypeOK, HomeFits, PlaceFits, WireFits, Unhomed, Early, Clean, ControllerResets,
        LineFault, Tells, Say, host, progress
<1>10. StatusFits'
  BY OpNamesAre, <1>1, <1>2
  DEF SerialInv, TypeOK, StatusFits, PlaceFits, WireFits, QueryFits, HomeFits, Running, Early, Clean,
        Unhomed, OpCommands, IdleStates, ControllerResets, LineFault, Tells, Say, host, progress
<1>11. CrossFits'
  BY OpNamesAre, <1>1, <1>2
  DEF SerialInv, TypeOK, CrossFits, PlaceFits, WireFits, Running, Early, ControllerResets, LineFault,
        Tells, Say, host, progress
<1> QED
  BY <1>3, <1>4, <1>5, <1>6, <1>7, <1>8, <1>9, <1>10, <1>11 DEF SerialInv


\* A line to the host is garbled.
LEMMA GarbleInv ==
  ASSUME Bounds, SerialInv, LineGarbled
  PROVE  SerialInv'
<1>1. /\ (Sent' <=> Sent) /\ (Asked' <=> Asked) /\ (OneSent => OneSent') /\ (OneAsked => OneAsked')
      /\ (Carried /\ UNCHANGED <<cmd, op>> => Carried') /\ (~Sent => Carried')
  BY RxSame DEF LineGarbled, LineFault, controller, host, progress
<1>2. /\ tx' \in Seq(Answers) /\ (OneAcked => OneAcked') /\ (OneReported => OneReported')
      /\ (Acked' => Acked) /\ (Reported' => Reported) /\ (IdleSaid' => IdleSaid) /\ Word'
  BY TxGarbled DEF SerialInv, TypeOK, LineGarbled
<1>3. TypeOK'
  BY OpNamesAre, <1>1, <1>2
  DEF SerialInv, TypeOK, PlaceFits, Frames, Queries, Failures, StatusLines, LineGarbled, LineFault,
        controller, host, progress, Bounds
<1>4. PlaceFits'
  BY OpNamesAre, <1>1, <1>2
  DEF SerialInv, TypeOK, PlaceFits, Early, OpCommands, LineGarbled, LineFault, controller, host,
        progress, Bounds
<1>5. WireFits'
  BY OpNamesAre, <1>1, <1>2
  DEF SerialInv, TypeOK, WireFits, PlaceFits, Running, LineGarbled, LineFault, controller, host,
        progress
<1>6. QueryFits'
  BY OpNamesAre, <1>1, <1>2
  DEF SerialInv, TypeOK, QueryFits, PlaceFits, Running, LineGarbled, LineFault, controller, host,
        progress
<1>7. CountFits'
  BY OpNamesAre, <1>1, <1>2
  DEF SerialInv, TypeOK, CountFits, PlaceFits, WireFits, Settled, LineGarbled, LineFault, controller,
        host, progress
<1>8. ProgressFits'
  BY OpNamesAre, <1>1, <1>2
  DEF SerialInv, TypeOK, ProgressFits, PlaceFits, CountFits, Streaming, LineGarbled, LineFault,
        controller, host, progress
<1>9. HomeFits'
  BY OpNamesAre, <1>1, <1>2
  DEF SerialInv, TypeOK, HomeFits, PlaceFits, WireFits, Unhomed, Early, Clean, LineGarbled,
        LineFault, controller, host, progress
<1>10. StatusFits'
  BY OpNamesAre, <1>1, <1>2
  DEF SerialInv, TypeOK, StatusFits, PlaceFits, WireFits, QueryFits, HomeFits, Running, Early, Clean,
        Unhomed, OpCommands, IdleStates, LineGarbled, LineFault, controller, host, progress
<1>11. CrossFits'
  BY OpNamesAre, <1>1, <1>2
  DEF SerialInv, TypeOK, CrossFits, PlaceFits, WireFits, Running, Early, LineGarbled, LineFault,
        controller, host, progress
<1> QED
  BY <1>3, <1>4, <1>5, <1>6, <1>7, <1>8, <1>9, <1>10, <1>11 DEF SerialInv


\* A line to the host is lost.
LEMMA LoseTxInv ==
  ASSUME Bounds, SerialInv, tx # <<>>, Head(tx) # "garbage", tx' = Tail(tx), LineFault,
         trouble' = IF Head(tx) \in Troubles THEN Trouble(tx') ELSE trouble,
         crossed' = IF trouble' THEN crossed ELSE 0,
         UNCHANGED <<host, rx, link, planner, homed, taken, alarm, lost, stray, unasked, progress>>
  PROVE  SerialInv'
<1>1. /\ (Sent' <=> Sent) /\ (Asked' <=> Asked) /\ (OneSent => OneSent') /\ (OneAsked => OneAsked')
      /\ (Carried /\ UNCHANGED <<cmd, op>> => Carried') /\ (~Sent => Carried')
  BY RxSame DEF host
<1>2. /\ tx' \in Seq(Answers) /\ Head(tx) \in Answers
      /\ Head(tx) = "ok" => Acked /\ (OneAcked => ~Acked')
      /\ Head(tx) # "ok" => (Acked' <=> Acked)
      /\ Head(tx) \in StatusLines => Reported /\ (OneReported => ~Reported')
      /\ Head(tx) \notin StatusLines => (Reported' <=> Reported)
      /\ (OneAcked => OneAcked') /\ (OneReported => OneReported')
      /\ (Acked' => Acked) /\ (Reported' => Reported) /\ (IdleSaid' => IdleSaid)
      /\ Head(tx) = "Idle" => IdleSaid
      /\ Head(tx) \notin Troubles \cup {"garbage"} => (Word' <=> Word)
      /\ Trouble(tx') => Word'
  BY TxTail DEF SerialInv, TypeOK
<1>3. TypeOK'
  <2>1. spc' \in {"unopened", "startup", "ready", "write", "reply", "drain", "progress", "returned",
                     "recording", "failed", "closed", "dead"}
    BY <1>2 DEF SerialInv, TypeOK, LineFault, host, progress
  <2>2. op' \in OpNames \cup {"none"} /\ cmd' \in Queries \cup {"line"}
    BY <1>2 DEF SerialInv, TypeOK, Queries, LineFault, host, progress
  <2>3. step' \in 0 .. Lines + CalSteps + 1
    BY <1>2 DEF SerialInv, TypeOK, Bounds, LineFault, host, progress
  <2>4. status' \in StatusLines \cup {"none", "banner"}
    BY <1>2 DEF SerialInv, TypeOK, StatusLines, LineFault, host, progress
  <2>5. evidence' \in 0 .. MaxEvidence /\ settled' \in BOOLEAN
    BY <1>2 DEF SerialInv, TypeOK, Bounds, LineFault, host, progress
  <2>6. failure' \in Failures \cup {"none"} /\ results' \in [OpNames -> Failures \cup {"none", "ok"}]
    BY <1>2 DEF SerialInv, TypeOK, Failures, LineFault, host, progress
  <2>7. rx' \in Seq(Frames) /\ tx' \in Seq(Answers)
    BY <1>2 DEF SerialInv, TypeOK, Frames, LineFault, host, progress
  <2>8. /\ link' \in BOOLEAN /\ trouble' \in BOOLEAN /\ homed' \in BOOLEAN /\ alarm' \in BOOLEAN
        /\ unasked' \in BOOLEAN /\ lifetime' \in BOOLEAN
    BY <1>2 DEF SerialInv, TypeOK, LineFault, host, progress, Trouble
  <2>9. /\ planner' \in Nat /\ taken' \in Nat /\ lost' \in Nat /\ stray' \in Nat /\ crossed' \in Nat
        /\ pending' \in Nat /\ sfaults' \in Nat
    BY <1>2, SMTT(30) DEF SerialInv, TypeOK, LineFault, host, progress
  <2>10. durable' \in [acks : Nat, failed : BOOLEAN]
    BY <1>2 DEF SerialInv, TypeOK, LineFault, host, progress
  <2> QED
    BY <2>1, <2>2, <2>3, <2>4, <2>5, <2>6, <2>7, <2>8, <2>9, <2>10 DEF TypeOK, Frames
<1>4. PlaceFits'
  BY OpNamesAre, <1>1, <1>2
  DEF SerialInv, TypeOK, PlaceFits, Early, OpCommands, LineFault, host, progress, Bounds
<1>5. WireFits'
  BY OpNamesAre, <1>1, <1>2
  DEF SerialInv, TypeOK, WireFits, PlaceFits, Running, LineFault, host, progress
<1>6. QueryFits'
  BY OpNamesAre, <1>1, <1>2
  DEF SerialInv, TypeOK, QueryFits, PlaceFits, Running, LineFault, host, progress
<1>7. CountFits'
  BY OpNamesAre, <1>1, <1>2
  DEF SerialInv, TypeOK, CountFits, PlaceFits, WireFits, Settled, LineFault, host, progress
<1>8. ProgressFits'
  BY OpNamesAre, <1>1, <1>2
  DEF SerialInv, TypeOK, ProgressFits, PlaceFits, CountFits, Streaming, LineFault, host, progress
<1>9. HomeFits'
  BY OpNamesAre, <1>1, <1>2
  DEF SerialInv, TypeOK, HomeFits, PlaceFits, WireFits, Unhomed, Early, Clean, LineFault, host,
        progress
<1>10. StatusFits'
  BY OpNamesAre, <1>1, <1>2
  DEF SerialInv, TypeOK, StatusFits, PlaceFits, WireFits, QueryFits, HomeFits, Running, Early, Clean,
        Unhomed, OpCommands, IdleStates, LineFault, host, progress
<1>11. CrossFits'
  BY OpNamesAre, <1>1, <1>2, SMTT(30)
  DEF SerialInv, TypeOK, CrossFits, PlaceFits, WireFits, Running, Early, LineFault, host, progress
<1> QED
  BY <1>3, <1>4, <1>5, <1>6, <1>7, <1>8, <1>9, <1>10, <1>11 DEF SerialInv


\* A command is lost.
LEMMA LoseRxInv ==
  ASSUME Bounds, SerialInv, rx # <<>>, rx' = Tail(rx), LineFault,
         UNCHANGED <<host, tx, link, controller, progress>>
  PROVE  SerialInv'
<1>1. /\ rx' \in Seq(Frames) /\ Head(rx) \in Frames
      /\ Head(rx).cmd # "?" => Sent /\ (Asked' <=> Asked) /\ (OneSent => ~Sent')
      /\ Head(rx).cmd # "?" /\ Carried => Head(rx).cmd = cmd /\ Head(rx).op = op
      /\ Head(rx).cmd = "?" => Asked /\ (Sent' <=> Sent) /\ (OneAsked => ~Asked')
      /\ (OneSent => OneSent') /\ (OneAsked => OneAsked') /\ (Sent' => Sent) /\ (Asked' => Asked)
      /\ Carried => Carried'
  BY RxTail DEF SerialInv, TypeOK, Frames, host
<1>2. /\ (Acked' <=> Acked) /\ (Reported' <=> Reported) /\ (IdleSaid' <=> IdleSaid) /\ (Word' <=> Word)
      /\ (OneAcked' <=> OneAcked) /\ (OneReported' <=> OneReported)
  BY TxSame
<1>3. TypeOK'
  BY OpNamesAre, <1>1, <1>2
  DEF SerialInv, TypeOK, PlaceFits, Frames, Queries, Failures, StatusLines, LineFault, controller,
        host, progress, Bounds
<1>4. PlaceFits'
  BY OpNamesAre, <1>1, <1>2
  DEF SerialInv, TypeOK, PlaceFits, Early, OpCommands, LineFault, controller, host, progress, Bounds
<1>5. WireFits'
  BY OpNamesAre, <1>1, <1>2
  DEF SerialInv, TypeOK, WireFits, PlaceFits, Running, LineFault, controller, host, progress
<1>6. QueryFits'
  BY OpNamesAre, <1>1, <1>2
  DEF SerialInv, TypeOK, QueryFits, PlaceFits, Running, LineFault, controller, host, progress
<1>7. CountFits'
  BY OpNamesAre, <1>1, <1>2
  DEF SerialInv, TypeOK, CountFits, PlaceFits, WireFits, Settled, LineFault, controller, host,
        progress
<1>8. ProgressFits'
  BY OpNamesAre, <1>1, <1>2
  DEF SerialInv, TypeOK, ProgressFits, PlaceFits, CountFits, Streaming, LineFault, controller, host,
        progress
<1>9. HomeFits'
  BY OpNamesAre, <1>1, <1>2
  DEF SerialInv, TypeOK, HomeFits, PlaceFits, WireFits, Unhomed, Early, Clean, LineFault, controller,
        host, progress
<1>10. StatusFits'
  BY OpNamesAre, <1>1, <1>2
  DEF SerialInv, TypeOK, StatusFits, PlaceFits, WireFits, QueryFits, HomeFits, Running, Early, Clean,
        Unhomed, OpCommands, IdleStates, LineFault, controller, host, progress
<1>11. CrossFits'
  BY OpNamesAre, <1>1, <1>2
  DEF SerialInv, TypeOK, CrossFits, PlaceFits, WireFits, Running, Early, LineFault, controller, host,
        progress
<1> QED
  BY <1>3, <1>4, <1>5, <1>6, <1>7, <1>8, <1>9, <1>10, <1>11 DEF SerialInv


\* The line is unplugged.
LEMMA UnplugInv ==
  ASSUME Bounds, SerialInv, Unplugged
  PROVE  SerialInv'
<1>1. rx' \in Seq(Frames) /\ ~Sent' /\ ~Asked' /\ OneSent' /\ OneAsked' /\ Carried'
  BY RxEmpty DEF Unplugged
<1>2. /\ tx' \in Seq(Answers)
      /\ ~Acked' /\ ~Reported' /\ ~IdleSaid' /\ ~Word' /\ OneAcked' /\ OneReported'
  BY TxEmpty DEF Unplugged
<1>3. TypeOK'
  <2>1. spc' \in {"unopened", "startup", "ready", "write", "reply", "drain", "progress", "returned",
                     "recording", "failed", "closed", "dead"}
    BY <1>1, <1>2 DEF SerialInv, TypeOK, Unplugged, LineFault, controller, host, progress
  <2>2. op' \in OpNames \cup {"none"} /\ cmd' \in Queries \cup {"line"}
    BY <1>1, <1>2 DEF SerialInv, TypeOK, Queries, Unplugged, LineFault, controller, host, progress
  <2>3. step' \in 0 .. Lines + CalSteps + 1
    BY <1>1, <1>2 DEF SerialInv, TypeOK, Bounds, Unplugged, LineFault, controller, host, progress
  <2>4. status' \in StatusLines \cup {"none", "banner"}
    BY <1>1, <1>2 DEF SerialInv, TypeOK, StatusLines, Unplugged, LineFault, controller, host, progress
  <2>5. evidence' \in 0 .. MaxEvidence /\ settled' \in BOOLEAN
    BY <1>1, <1>2 DEF SerialInv, TypeOK, Bounds, Unplugged, LineFault, controller, host, progress
  <2>6. failure' \in Failures \cup {"none"} /\ results' \in [OpNames -> Failures \cup {"none", "ok"}]
    BY <1>1, <1>2 DEF SerialInv, TypeOK, Failures, Unplugged, LineFault, controller, host, progress
  <2>7. rx' \in Seq(Frames) /\ tx' \in Seq(Answers)
    BY <1>1, <1>2 DEF SerialInv, TypeOK, Frames, Unplugged, LineFault, controller, host, progress
  <2>8. /\ link' \in BOOLEAN /\ trouble' \in BOOLEAN /\ homed' \in BOOLEAN /\ alarm' \in BOOLEAN
        /\ unasked' \in BOOLEAN /\ lifetime' \in BOOLEAN
    BY <1>1, <1>2 DEF SerialInv, TypeOK, Unplugged, LineFault, controller, host, progress
  <2>9. /\ planner' \in Nat /\ taken' \in Nat /\ lost' \in Nat /\ stray' \in Nat /\ crossed' \in Nat
        /\ pending' \in Nat /\ sfaults' \in Nat
    BY <1>1, <1>2 DEF SerialInv, TypeOK, Unplugged, LineFault, controller, host, progress
  <2>10. durable' \in [acks : Nat, failed : BOOLEAN]
    BY <1>1, <1>2 DEF SerialInv, TypeOK, Unplugged, LineFault, controller, host, progress
  <2> QED
    BY <2>1, <2>2, <2>3, <2>4, <2>5, <2>6, <2>7, <2>8, <2>9, <2>10 DEF TypeOK, Frames
<1>4. PlaceFits'
  BY OpNamesAre, <1>1, <1>2
  DEF SerialInv, TypeOK, PlaceFits, Early, OpCommands, Unplugged, LineFault, controller, host,
        progress, Bounds
<1>5. WireFits'
  BY OpNamesAre, <1>1, <1>2
  DEF SerialInv, TypeOK, WireFits, PlaceFits, Running, Unplugged, LineFault, controller, host,
        progress
<1>6. QueryFits'
  BY OpNamesAre, <1>1, <1>2
  DEF SerialInv, TypeOK, QueryFits, PlaceFits, Running, Unplugged, LineFault, controller, host,
        progress
<1>7. CountFits'
  BY OpNamesAre, <1>1, <1>2
  DEF SerialInv, TypeOK, CountFits, PlaceFits, WireFits, Settled, Unplugged, LineFault, controller,
        host, progress
<1>8. ProgressFits'
  BY OpNamesAre, <1>1, <1>2
  DEF SerialInv, TypeOK, ProgressFits, PlaceFits, CountFits, Streaming, Unplugged, LineFault,
        controller, host, progress
<1>9. HomeFits'
  BY OpNamesAre, <1>1, <1>2
  DEF SerialInv, TypeOK, HomeFits, PlaceFits, WireFits, Unhomed, Early, Clean, Unplugged, LineFault,
        controller, host, progress
<1>10. StatusFits'
  BY OpNamesAre, <1>1, <1>2
  DEF SerialInv, TypeOK, StatusFits, PlaceFits, WireFits, QueryFits, HomeFits, Running, Early, Clean,
        Unhomed, OpCommands, IdleStates, Unplugged, LineFault, controller, host, progress
<1>11. CrossFits'
  BY OpNamesAre, <1>1, <1>2
  DEF SerialInv, TypeOK, CrossFits, PlaceFits, WireFits, Running, Early, Unplugged, LineFault,
        controller, host, progress
<1> QED
  BY <1>3, <1>4, <1>5, <1>6, <1>7, <1>8, <1>9, <1>10, <1>11 DEF SerialInv

-----------------------------------------------------------------------------
(* The steps together *)

\* What an operation may fail with.
LEMMA OutcomeFails ==
  ASSUME NEW line \in Answers, LineFailure(line) # "none"
  PROVE  Outcome(line) \in Failures
BY DEF Outcome, LineFailure, Failures

LEMMA SilenceFails == Silence \in Failures
BY DEF Silence, Failures

\* A line is read in the boot output, as an answer or in the drain.
LEMMA ReadInv ==
  ASSUME Bounds, SerialInv, StartupReads \/ ReadsReply \/ Drains
  PROVE  SerialInv'
<1> DEFINE line == Head(tx)
<1>1. tx \in Seq(Answers) /\ tx # <<>> /\ tx' = Tail(tx) /\ line \in Answers
  BY SMTT(30) DEF SerialInv, TypeOK, StartupReads, ReadsReply, Drains
<1>2. UNCHANGED <<rx, link, controller, progress, sfaults>>
  BY DEF StartupReads, ReadsReply, Drains
<1>3. spc \in {"startup", "reply", "drain"} /\ sfaults' \in Nat /\ UNCHANGED <<durable, lifetime, pending>>
  BY <1>2 DEF SerialInv, TypeOK, StartupReads, ReadsReply, Drains, progress
<1>4. CASE \E kind \in Failures : FailsWith(kind)
  <2>1. PICK kind \in Failures : FailsWith(kind)
    BY <1>4
  <2> QED
    BY <1>1, <1>2, <1>3, <2>1, FailInv
<1>5. CASE StartupReads
  <2>1. line = "garbage" => FailsWith("DECODE") /\ "DECODE" \in Failures
    BY <1>5 DEF StartupReads, Failures
  <2> QED
    BY <1>4, <1>5, <2>1, StartupReadInv
<1>6. CASE ReadsReply
  <2>1. LineFailure(line) # "none" => FailsWith(Outcome(line))
    BY <1>6 DEF ReadsReply
  <2> QED
    BY <1>1, <1>4, <1>6, <2>1, OutcomeFails, ReplyInv
<1>7. CASE Drains
  <2>1. LineFailure(line) # "none" => FailsWith(Outcome(line))
    BY <1>7 DEF Drains
  <2> QED
    BY <1>1, <1>4, <1>7, <2>1, OutcomeFails, DrainInv
<1> QED
  BY <1>5, <1>6, <1>7

\* The other ways in which an operation fails.
LEMMA FailureInv ==
  ASSUME Bounds, SerialInv,
         StartupFails \/ WaitGivesUp \/ WriteFails \/ ReadFails \/ DeadlineExpires \/ ProofFails \/ ProgressFails
  PROVE  SerialInv'
<1>1. spc \in {"startup", "write", "reply", "drain", "progress"}
  BY DEF StartupFails, WaitGivesUp, WriteFails, ReadFails, DeadlineExpires, ProofFails, ProgressFails, Busy, Drained
<1>2. UNCHANGED <<rx, tx, link, controller, durable, lifetime>> /\ sfaults' \in Nat
  BY DEF SerialInv, TypeOK, StartupFails, WaitGivesUp, WriteFails, ReadFails, DeadlineExpires, ProofFails, ProgressFails,
         wire, progress, LineFault
<1>3. pending' = IF spc = "progress" THEN pending + 1 ELSE pending
  BY DEF StartupFails, WaitGivesUp, WriteFails, ReadFails, DeadlineExpires, ProofFails, ProgressFails, progress, Busy, Drained
<1>4. \E kind \in Failures : FailsWith(kind)
  <2>1. {"TRANSPORT_LOSS", "TIMEOUT", "SHORT_WRITE", "PROOF", "raised", "CALLBACK"} \subseteq Failures
    BY DEF Failures
  <2> QED
    BY <2>1, SilenceFails DEF StartupFails, WaitGivesUp, WriteFails, ReadFails, DeadlineExpires, ProofFails, ProgressFails
<1>5. PICK kind \in Failures : FailsWith(kind)
  BY <1>4
<1> QED
  BY <1>1, <1>2, <1>3, <1>5, FailInv

\* The snapshot is complete.
LEMMA ConcludesInv ==
  ASSUME Bounds, SerialInv, Concludes
  PROVE  SerialInv'
<1>1. CASE PreflightReady /\ SuccessProven
  BY <1>1, ConcludeInv
<1>2. CASE ~(PreflightReady /\ SuccessProven)
  <2>1. \E kind \in Failures : FailsWith(kind)
    BY <1>2 DEF Concludes, Failures
  <2>2. PICK kind \in Failures : FailsWith(kind)
    BY <2>1
  <2>3. /\ spc = "drain" /\ UNCHANGED <<rx, tx, link, controller, durable, lifetime, pending>>
        /\ sfaults' \in Nat
    BY DEF Concludes, Drained, wire, progress, SerialInv, TypeOK
  <2> QED
    BY <2>2, <2>3, FailInv
<1> QED
  BY <1>1, <1>2

LEMMA SessionInv == ASSUME Bounds, SerialInv, SessionStep PROVE SerialInv'
<1>1. CASE OpenSession \/ OpenFails
  BY <1>1, OpenInv
<1>2. CASE StartupReads \/ ReadsReply \/ Drains
  BY <1>2, ReadInv
<1>3. CASE StartupFails \/ WaitGivesUp \/ WriteFails \/ ReadFails \/ ProofFails \/ ProgressFails
  BY <1>3, FailureInv
<1>4. CASE LineAcknowledged
  BY <1>4, LineAckInv, StreamAckInv
<1>5. CASE FailureRecorded \/ RecordingFails
  BY <1>5, RecordedInv
<1> QED
  BY <1>1, <1>2, <1>3, <1>4, <1>5, SettlesInv, BeginInv, WriteInv, QuerySeenInv, ConcludesInv, RecordInv,
     ReturnInv, CloseInv DEF SessionStep

LEMMA ControllerInv == ASSUME Bounds, SerialInv, Controller \/ LineFaults PROVE SerialInv'
<1>1. CASE ControllerAccepts
  BY <1>1, AcceptQueryInv, AcceptLineInv
<1>2. CASE LineLost
  <2>1. CASE rx # <<>> /\ CommandTaken /\ UNCHANGED <<tx, trouble, crossed>>
    BY <1>2, <2>1, LoseRxInv DEF LineLost, CommandTaken, controller
  <2>2. CASE /\ tx # <<>> /\ Head(tx) # "garbage" /\ tx' = Tail(tx)
             /\ trouble' = IF Head(tx) \in Troubles THEN Trouble(tx') ELSE trouble
             /\ crossed' = IF trouble' THEN crossed ELSE 0
             /\ UNCHANGED rx
    BY <1>2, <2>2, LoseTxInv DEF LineLost
  <2> QED
    BY <1>2, <2>1, <2>2 DEF LineLost
<1> QED
  BY <1>1, <1>2, RefuseInv, ReportInv, MoveInv, AutoReportInv, AlarmInv, ResetInv, GarbleInv, UnplugInv
     DEF Controller, LineFaults

LEMMA InitInv == ASSUME Bounds, Init PROVE SerialInv
<1>1. \A i \in DOMAIN tx : tx[i] = "banner"
  BY DEF Init
<1>2. ~Sent /\ ~Asked /\ OneSent /\ OneAsked /\ Carried
  BY DEF Init, Sent, Asked, OneSent, OneAsked, Carried
<1>3. ~Acked /\ ~Reported /\ ~IdleSaid /\ OneAcked /\ OneReported
  BY <1>1 DEF Acked, Reported, IdleSaid, OneAcked, OneReported, StatusLines
<1>4. tx \in Seq(Answers) /\ rx \in Seq(Frames)
  <2>1. "banner" \in Answers
    BY DEF Answers, Troubles
  <2>2. <<"banner">> \in Seq(Answers) /\ <<>> \in Seq(Answers) /\ <<>> \in Seq(Frames)
    <3> HIDE DEF Answers, Frames
    <3> QED
      BY <2>1
  <2>3. rx = <<>> /\ (tx = <<>> \/ tx = <<"banner">>)
    BY DEF Init
  <2> QED
    BY <2>2, <2>3
<1>5. results \in [OpNames -> Failures \cup {"none", "ok"}] /\ results["stream"] = "none"
  BY OpNamesAre DEF Init
<1>6. TypeOK
  <2>1. durable \in [acks : Nat, failed : BOOLEAN]
    BY DEF Init
  <2>2. {planner, taken, lost, stray, crossed, pending, sfaults} \subseteq Nat
    BY DEF Init
  <2>3. step \in 0 .. Lines + CalSteps + 1 /\ evidence \in 0 .. MaxEvidence
    BY DEF Init, Bounds
  <2> QED
    BY <1>4, <1>5, <2>1, <2>2, <2>3 DEF Init, TypeOK, Frames, Queries, StatusLines
<1> QED
  BY <1>2, <1>3, <1>5, <1>6 DEF Init, SerialInv, PlaceFits, WireFits, QueryFits, CountFits, ProgressFits, HomeFits,
     StatusFits, CrossFits, Settled, Unhomed, Clean, Early, Running, Streaming

LEMMA StutterInv == ASSUME Bounds, SerialInv, UNCHANGED serialVars PROVE SerialInv'
BY DEF serialVars, host, wire, controller, progress, SerialInv, TypeOK, PlaceFits, WireFits, QueryFits, CountFits,
   ProgressFits, HomeFits, StatusFits, CrossFits, Settled, Unhomed, Clean, Running, Sent, Acked, Asked, Reported,
   IdleSaid, Word, OneSent, OneAcked, OneAsked, OneReported, Carried

LEMMA StepInv == ASSUME Bounds PROVE SerialInv /\ [Next]_serialVars => SerialInv'
<1> SUFFICES ASSUME SerialInv, [Next]_serialVars PROVE SerialInv'
  OBVIOUS
<1>1. CASE DeadlineExpires
  BY <1>1, FailureInv
<1>2. CASE ServiceCrash
  BY <1>2, CloseInv
<1> QED
  BY <1>1, <1>2, StutterInv, SessionInv, ControllerInv, LateInv DEF Next

-----------------------------------------------------------------------------
(* Theorems *)

LEMMA AlwaysInv == ASSUME Bounds PROVE Spec => []SerialInv
<1>1. Init => SerialInv
  BY InitInv
<1>2. SerialInv /\ [Next]_serialVars => SerialInv'
  BY StepInv
<1> QED
  BY <1>1, <1>2, PTL DEF Spec

\* The session, the line, the controller and the progress row keep their types; in
\* particular the evidence stays within its limit.
THEOREM TypeCorrect == ASSUME Bounds PROVE Spec => []TypeOK
<1>1. SerialInv => TypeOK
  BY DEF SerialInv
<1> QED
  BY <1>1, AlwaysInv, PTL

\* For a program of any length and any faults of the line, the controller, the
\* storage and the service: the controller has accepted the acknowledged lines and
\* at most one more, the database never claims a line the controller did not
\* accept, and the row of a failed stream is short by at most the line in doubt
\* (serial_fluidnc.stream_program, record_progress).
THEOREM AlwaysAckedPrefix == ASSUME Bounds PROVE Spec => []AckedPrefix
<1>1. Bounds /\ SerialInv => AckedPrefix
  BY DEF Bounds, SerialInv, TypeOK, CountFits, ProgressFits, AckedPrefix
<1> QED
  BY <1>1, AlwaysInv, PTL

\* A stream reported as successful was drawn: every line accepted at a known
\* position, none thrown away, nothing left in the planner, unless an unasked
\* status line was taken for the Idle proof; and word of trouble is crossed by at
\* most one line (_line_failure, _drain_post_ack, _wait_for_idle_snapshot).
THEOREM StreamAlwaysSafe == ASSUME Bounds PROVE Spec => []StreamSafe
<1>1. SerialInv => StreamDrawn
  BY DEF SerialInv, StatusFits, CountFits, Settled, StreamDrawn, Running, Early, IdleStates, Clean, OpCommands
<1>2. SerialInv => StopsAtTrouble
  BY DEF SerialInv, CrossFits, StopsAtTrouble
<1> QED
  BY <1>1, <1>2, AlwaysInv, PTL DEF StreamSafe

\* Once the stream call is over and its end recorded, the progress row stays as it
\* is, also when an adapter calls the callback it kept (_StreamProgressLifetime).
THEOREM ProgressStaysFinal == ASSUME Bounds PROVE Spec => ProgressFinal
<1>1. SerialInv /\ [Next]_serialVars => [StreamOver => UNCHANGED durable]_serialVars
  <2> SUFFICES ASSUME SerialInv, Next, StreamOver PROVE UNCHANGED durable
    OBVIOUS
  <2>1. ~ProgressRecorded /\ ~FailureRecorded
    BY DEF SerialInv, PlaceFits, ProgressFits, Streaming, StreamOver, ProgressRecorded, FailureRecorded
  <2>2. CASE LateProgress
    BY <2>2 DEF SerialInv, ProgressFits, Streaming, StreamOver, LateProgress
  <2>3. CASE SessionStep
    BY <2>1, <2>3 DEF SessionStep, OpenSession, OpenFails, StartupReads, StartupSettles, StartupFails,
      BeginOperation, WaitGivesUp, Write, WriteFails, ReadsReply, Drains, ReadFails, LineAcknowledged, StatusSeen, ParserSeen,
      Concludes, ProofFails, ProgressFails, StreamReturns, RecordingFails, CloseSession, progress
  <2>4. CASE Controller \/ LineFaults
    BY <2>4 DEF Controller, LineFaults, ControllerAccepts, ControllerRefuses, ControllerReports, ControllerMoves,
      ControllerAutoReports, ControllerAlarms, ControllerResets, LineGarbled, LineLost, Unplugged, progress
  <2>5. CASE DeadlineExpires \/ ServiceCrash
    BY <2>5 DEF DeadlineExpires, ServiceCrash, progress
  <2> QED
    BY <2>2, <2>3, <2>4, <2>5 DEF Next
<1> QED
  BY <1>1, AlwaysInv, PTL DEF Spec, ProgressFinal
=============================================================================
