---------------------------- MODULE LogPipeProofs ----------------------------
(***************************************************************************)
(* Proofs about LogPipe for any number of writers, any parts, and any      *)
(* sizes of lines, ring and files: the safety properties the model checker *)
(* verifies for two writers and three lines.                               *)
(***************************************************************************)
EXTENDS LogPipe, SequenceTheorems, TLAPS

(* The writer that has the lock, and what m_tmpBuffer then holds. *)
Locked ==
    /\ \A w \in Writers : wpc[w] \in {"append", "publish"} <=> lock = w
    /\ \A w \in Writers : mine[w] = IF lock = w THEN tmp ELSE <<>>
    /\ lock = None => tmp = <<>>

(* A line fits, and a line that was staged finds the room it was promised. *)
LinesFit ==
    /\ pos < MaxLine \/ (pos = MaxLine /\ Last(tmp)[2].chars > Last(tmp)[2].reserve)
    /\ \A i \in 1 .. Len(ring) : ring[i].length <= MaxLine
    /\ \A w \in Writers :
          wpc[w] = "publish" =>
             pos < MaxLine /\ staged = WholeLine(tmp) /\ RoomFor(WholeLine(tmp))
    /\ staged # None => \E w \in Writers : wpc[w] = "publish"

(* The bytes of the oldest record that the log thread has read already. *)
Begun == CASE cpc = "length" -> IntSize
           [] cpc \in {"print", "file", "copy", "free"} -> 2 * IntSize
           [] OTHER -> 0

(* The records lie one behind the other: ends[i] is where record i ends,   *)
(* counted from where the oldest begins.                                   *)
EndsOf(ends) ==
    /\ ends \in [0 .. Len(ring) -> Nat] /\ ends[0] = 0
    /\ \A i \in 1 .. Len(ring) : ends[i] = ends[i - 1] + 2 * IntSize + ring[i].length
    /\ \A i, j \in 0 .. Len(ring) : i <= j => ends[i] <= ends[j]

Bytes == \E ends : EndsOf(ends) /\ ends[Len(ring)] = used + Begun

(* The log thread at work on a record: it has one, and it copies the       *)
(* record to the file unless that failed, where a line has room.           *)
Reading ==
    /\ cpc \in {"level", "length", "print", "file", "copy", "free"} => ring # <<>>
    /\ accepted = out \o (IF cpc \in {"file", "copy", "free"} THEN Tail(ring) ELSE ring)
    /\ ~file.failed =>
          out = IF cpc \in {"file", "copy"} THEN Append(filed, Record) ELSE filed
    /\ file.open /\ ~file.failed => file.mapped
    /\ cpc = "copy" =>
          /\ file.mapped \/ file.failed
          /\ file.mapped => file.offset + MaxLine < FileSize

(* The inductive invariant. *)
Inv == TypeOK /\ Locked /\ LinesFit /\ Bytes /\ Reading

-----------------------------------------------------------------------------
(* The '\0' behind a line that fills m_tmpBuffer changes nothing: the byte  *)
(* of m_pos on which it falls is 0.                                        *)
LEMMA LineIsWhole ==
  ASSUME NEW text, pos \in Nat
  PROVE  Line(text) = WholeLine(text)
<1>1. LowByte = 0
  BY LogPipeAssumption DEF LowByte
<1>2. (pos + 1) - 0 = pos + 1
  OBVIOUS
<1> QED
  BY <1>1, <1>2 DEF Line, WholeLine

(* Records that go from the front of the ring to the end of what is out. *)
LEMMA ConcatAppend ==
  ASSUME NEW o \in Seq(Lines), NEW s \in Seq(Lines), NEW e \in Lines
  PROVE  Append(o \o s, e) = o \o Append(s, e)
<1>1. /\ o \o s \in Seq(Lines) /\ <<e>> \in Seq(Lines)
  BY ConcatProperties
<1>2. Append(o \o s, e) = (o \o s) \o <<e>> /\ Append(s, e) = s \o <<e>>
  BY <1>1, AppendIsConcat
<1> QED
  BY <1>1, <1>2, ConcatAssociative

LEMMA TakeFirst ==
  ASSUME NEW o \in Seq(Lines), NEW s \in Seq(Lines), s # <<>>
  PROVE  /\ Head(s) \in Lines /\ Tail(s) \in Seq(Lines) /\ Head(s) = s[1]
         /\ Append(o, Head(s)) \in Seq(Lines)
         /\ Append(o, Head(s)) \o Tail(s) = o \o s
<1>1. Head(s) \in Lines /\ Tail(s) \in Seq(Lines) /\ Head(s) = s[1]
  BY HeadTailProperties
<1>2. <<Head(s)>> \in Seq(Lines) /\ Append(o, Head(s)) = o \o <<Head(s)>>
  BY <1>1, AppendIsConcat
<1>3. <<Head(s)>> \o Tail(s) = s
  <2>1. Len(s) \in Nat \ {0} /\ Len(Tail(s)) = Len(s) - 1
    BY HeadTailProperties, EmptySeq, LenProperties
  <2> DEFINE u == <<Head(s)>> \o Tail(s)
  <2>2. /\ u \in Seq(Lines) /\ Len(u) = 1 + Len(Tail(s))
        /\ \A i \in 1 .. 1 + Len(Tail(s)) :
              u[i] = IF i <= 1 THEN <<Head(s)>>[i] ELSE Tail(s)[i - 1]
    BY <1>1, <1>2, ConcatProperties
  <2>3. \A i \in 1 .. Len(Tail(s)) : Tail(s)[i] = s[i + 1]
    BY HeadTailProperties
  <2> HIDE DEF u
  <2>4. ASSUME NEW i \in 1 .. Len(u) PROVE u[i] = s[i]
    <3>1. CASE i = 1
      BY <1>1, <2>1, <2>2, <3>1
    <3>2. CASE i # 1
      <4>1. i - 1 \in 1 .. Len(Tail(s)) /\ (i - 1) + 1 = i
        BY <2>1, <2>2, <3>2
      <4> QED
        BY <2>1, <2>2, <2>3, <3>2, <4>1
    <3> QED
      BY <3>1, <3>2
  <2>5. u = s
    BY <2>1, <2>2, <2>4, SeqEqual
  <2> QED
    BY <2>5 DEF u
<1>4. Append(o, Head(s)) \in Seq(Lines)
  BY <1>1, AppendProperties
<1> QED
  BY <1>1, <1>2, <1>3, <1>4, ConcatAssociative

-----------------------------------------------------------------------------
LEMMA InitInv == Init => Inv
<1> SUFFICES ASSUME Init PROVE Inv
  OBVIOUS
<1> USE LogPipeAssumption DEF Init
<1>1. TypeOK
  <2>1. <<>> \in Texts
    BY EmptySeq DEF Texts
  <2>2. 0 \in 0 .. Capacity - 1 /\ Prefix \in Prefix .. MaxLine
    OBVIOUS
  <2> QED
    BY <2>1, <2>2, EmptySeq DEF TypeOK, File
<1>2. Locked /\ LinesFit
  BY DEF Locked, LinesFit
<1>3. Bytes
  <2>1. EndsOf([i \in 0 .. 0 |-> 0])
    BY DEF EndsOf
  <2> QED
    BY <2>1 DEF Bytes, Begun
<1>4. Reading
  BY EmptySeq, ConcatEmptySeq DEF Reading
<1> QED
  BY <1>1, <1>2, <1>3, <1>4 DEF Inv

(* A writer that does not publish leaves the log thread alone. *)
LEMMA ReaderKept ==
  ASSUME Inv, UNCHANGED <<queue, cpc, file, accepted, out, filed>>
  PROVE  Bytes' /\ Reading'
<1> USE DEF queue, history
<1>1. Bytes'
  BY DEF Inv, Bytes, EndsOf, Begun
<1>2. Reading'
  BY DEF Inv, Reading, Record
<1> QED
  BY <1>1, <1>2

(* The log thread leaves the writers alone: it only takes out of the ring. *)
LEMMA WritersKept ==
  ASSUME Inv, UNCHANGED writing, used' \in Nat, used' <= used,
         \A i \in 1 .. Len(ring') : ring'[i].length <= MaxLine
  PROVE  Locked' /\ LinesFit'
<1>1. Locked'
  BY DEF Inv, Locked, writing
<1>2. ASSUME RoomFor(WholeLine(tmp)) PROVE RoomFor(WholeLine(tmp))'
  <2>1. used \in Nat /\ pos \in Nat
    BY LogPipeAssumption DEF Inv, TypeOK
  <2>2. used + 2 * IntSize + (pos + 1) < Capacity
    BY <1>2 DEF RoomFor, WholeLine
  <2>3. \A u, v, i, n, c \in Nat :
           v <= u /\ u + 2 * i + (n + 1) < c => v + 2 * i + (n + 1) < c
    OBVIOUS
  <2>4. used' + 2 * IntSize + (pos + 1) < Capacity
    BY ONLY <2>1, <2>2, <2>3, used' \in Nat, used' <= used, LogPipeAssumption
  <2> QED
    BY <2>4 DEF RoomFor, WholeLine, writing
<1>3. LinesFit'
  BY <1>2 DEF Inv, LinesFit, writing, WholeLine
<1> QED
  BY <1>1, <1>3

-----------------------------------------------------------------------------
(* The writers. *)

LEMMA BeginInv ==
  ASSUME Inv, NEW w \in Writers, Begin(w) \/ SetCurLevel(w)
  PROVE  Inv'
<1>1. /\ UNCHANGED <<tmp, pos, overrun, mine, staged, queue, cpc, file, manager, history>>
      /\ \/ /\ wpc[w] = "idle" /\ wpc' = [wpc EXCEPT ![w] = "wait"]
            /\ UNCHANGED <<lock, allowed>>
         \/ /\ wpc[w] = "wait" /\ wpc' = [wpc EXCEPT ![w] = "append"]
            /\ lock = None /\ lock' = w /\ allowed' \in BOOLEAN
  BY DEF Begin, SetCurLevel, Goes
<1>2. TypeOK'
  <2>1. wpc' \in [Writers -> {"idle", "wait", "append", "publish"}]
    BY <1>1 DEF Inv, TypeOK
  <2>2. lock' \in Writers \cup {None} /\ allowed' \in BOOLEAN
    BY <1>1 DEF Inv, TypeOK
  <2> QED
    BY <1>1, <2>1, <2>2 DEF Inv, TypeOK, queue, manager, history
<1>3. \A u \in Writers : wpc'[u] = IF u = w THEN wpc'[w] ELSE wpc[u]
  BY <1>1 DEF Inv, TypeOK
<1>4. wpc'[w] \in {"wait", "append"}
  BY <1>1 DEF Inv, TypeOK
<1>5. Locked'
  BY <1>1, <1>3, LogPipeAssumption DEF Inv, TypeOK, Locked
<1>6. LinesFit'
  BY <1>1, <1>3, <1>4 DEF Inv, LinesFit, queue, RoomFor, WholeLine
<1>7. Bytes' /\ Reading'
  BY <1>1, ReaderKept DEF history
<1> QED
  BY <1>2, <1>5, <1>6, <1>7 DEF Inv

(* operator<<: only a number may make a line as long as m_tmpBuffer. *)
LEMMA AppendPartInv ==
  ASSUME Inv, NEW w \in Writers, NEW p \in Parts, AppendPart(w, p)
  PROVE  Inv'
<1> DEFINE part == <<w, p>>
<1>1. /\ UNCHANGED <<lock, overrun, allowed, staged, queue, cpc, file, manager, history>>
      /\ wpc[w] = "append" /\ wpc' = [wpc EXCEPT ![w] = "append"]
      /\ Len(mine[w]) < MaxParts /\ pos + p.reserve < MaxLine
      /\ tmp' = Append(tmp, part) /\ mine' = [mine EXCEPT ![w] = Append(@, part)]
      /\ pos' = pos + p.chars
  BY DEF AppendPart, Goes
<1>2. /\ p.chars \in Nat /\ p.reserve \in Nat /\ p.chars <= p.reserve + 1
      /\ MaxLine \in Nat /\ MaxParts \in Nat
  BY LogPipeAssumption
<1>3. wpc' = wpc
  BY <1>1 DEF Inv, TypeOK
<1>4. lock = w /\ mine[w] = tmp
  BY <1>1 DEF Inv, Locked
<1>5. tmp \in Seq(Writers \X Parts) /\ part \in Writers \X Parts
  BY DEF Inv, TypeOK, Texts
<1>6. Append(tmp, part) \in Texts
  BY <1>1, <1>2, <1>4, <1>5, AppendProperties, LenProperties DEF Texts
<1>7. TypeOK'
  <2>1. pos' \in Prefix .. MaxLine
    <3>1. \A n, f, c, r, m \in Nat :
             f <= n /\ n + r < m /\ c <= r + 1 => n + c \in f .. m
      OBVIOUS
    <3>2. pos \in Nat /\ Prefix <= pos
      BY LogPipeAssumption DEF Inv, TypeOK
    <3> QED
      BY ONLY <1>1, <1>2, <3>1, <3>2, LogPipeAssumption
  <2>2. mine' \in [Writers -> Texts]
    BY <1>1, <1>4, <1>6 DEF Inv, TypeOK
  <2> QED
    BY <1>1, <1>3, <1>6, <2>1, <2>2 DEF Inv, TypeOK, queue, manager, history
<1>8. Locked'
  <2>1. \A u \in Writers : mine'[u] = IF u = w THEN tmp' ELSE mine[u]
    BY <1>1, <1>4 DEF Inv, TypeOK
  <2> QED
    BY <1>1, <1>3, <1>4, <2>1, LogPipeAssumption DEF Inv, TypeOK, Locked
<1>9. LinesFit'
  <2>1. Last(tmp') = part
    BY <1>1, <1>5, AppendProperties DEF Last
  <2>2. pos' < MaxLine \/ (pos' = MaxLine /\ p.chars > p.reserve)
    <3>1. \A n, c, r, m \in Nat :
             n + r < m /\ c <= r + 1 => n + c < m \/ (n + c = m /\ c > r)
      OBVIOUS
    <3>2. pos \in Nat
      BY LogPipeAssumption DEF Inv, TypeOK
    <3> QED
      BY ONLY <1>1, <1>2, <3>1, <3>2
  <2>3. \A u \in Writers : wpc'[u] # "publish"
    BY <1>1, <1>3, <1>4 DEF Inv, TypeOK, Locked
  <2> QED
    BY <1>1, <1>3, <2>1, <2>2, <2>3 DEF Inv, LinesFit, queue
<1>10. Bytes' /\ Reading'
  BY <1>1, ReaderKept DEF history
<1> QED
  BY <1>7, <1>8, <1>9, <1>10 DEF Inv

LEMMA StageInv ==
  ASSUME Inv, NEW w \in Writers, Stage(w)
  PROVE  Inv'
<1>1. /\ UNCHANGED <<lock, tmp, pos, overrun, allowed, mine, queue, cpc, file, manager, history>>
      /\ wpc[w] = "append" /\ wpc' = [wpc EXCEPT ![w] = "publish"]
      /\ pos < MaxLine /\ RoomFor(WholeLine(tmp)) /\ staged' = WholeLine(tmp)
  <2>1. Line(tmp) = WholeLine(tmp)
    BY LineIsWhole, LogPipeAssumption DEF Inv, TypeOK
  <2> QED
    BY <2>1 DEF Stage, Goes
<1>2. lock = w /\ WholeLine(tmp) \in Lines
  BY <1>1, LogPipeAssumption DEF Inv, Locked, TypeOK, Lines, WholeLine
<1>3. \A u \in Writers : wpc'[u] = IF u = w THEN "publish" ELSE wpc[u]
  BY <1>1 DEF Inv, TypeOK
<1>4. TypeOK'
  BY <1>1, <1>2 DEF Inv, TypeOK, queue, manager, history
<1>5. Locked'
  BY <1>1, <1>2, <1>3 DEF Inv, Locked
<1>6. LinesFit'
  <2>1. staged' = WholeLine(tmp)' /\ RoomFor(WholeLine(tmp))'
    BY <1>1 DEF WholeLine, RoomFor, queue
  <2>2. \A u \in Writers : wpc'[u] = "publish" => u = w
    BY <1>2, <1>3 DEF Inv, Locked
  <2>3. wpc'[w] = "publish"
    BY <1>3
  <2> QED
    BY <1>1, <2>1, <2>2, <2>3 DEF Inv, LinesFit, queue
<1>7. Bytes' /\ Reading'
  BY <1>1, ReaderKept DEF history
<1> QED
  BY <1>4, <1>5, <1>6, <1>7 DEF Inv

(* _Reset leaves an empty line, which fits, and nobody has the lock. *)
LEMMA LeaveKeeps ==
  ASSUME Inv, NEW w \in Writers, Leave(w), wpc[w] \in {"append", "publish"},
         staged' = None,
         \A i \in 1 .. Len(ring') : ring'[i].length <= MaxLine
  PROVE  /\ Locked' /\ LinesFit' /\ lock' = None /\ tmp' \in Texts
         /\ pos' \in Prefix .. MaxLine
         /\ allowed' \in BOOLEAN /\ mine' \in [Writers -> Texts]
         /\ wpc' \in [Writers -> {"idle", "wait", "append", "publish"}]
<1>1. lock = w
  BY DEF Inv, Locked
<1>2. \A u \in Writers : /\ wpc'[u] = IF u = w THEN "idle" ELSE wpc[u]
                         /\ mine'[u] = IF u = w THEN <<>> ELSE mine[u]
  BY DEF Inv, TypeOK, Leave
<1>3. <<>> \in Texts
  BY EmptySeq, LogPipeAssumption DEF Texts
<1>4. \A u \in Writers : wpc'[u] \notin {"append", "publish"}
  BY <1>1, <1>2 DEF Inv, Locked
<1>5. Locked'
  BY <1>1, <1>2, <1>4, LogPipeAssumption DEF Inv, Locked, Leave
<1>6. LinesFit'
  BY <1>4, LogPipeAssumption DEF LinesFit, Leave
<1>7. Prefix \in Prefix .. MaxLine
  BY LogPipeAssumption
<1> QED
  BY <1>3, <1>5, <1>6, <1>7 DEF Inv, TypeOK, Leave

LEMMA DropLineInv ==
  ASSUME Inv, NEW w \in Writers, DropLine(w)
  PROVE  Inv'
<1>1. /\ UNCHANGED <<overrun, staged, queue, cpc, file, manager, history>>
      /\ wpc[w] = "append" /\ Leave(w)
  BY DEF DropLine
<1>2. \A i \in 1 .. Len(ring') : ring'[i].length <= MaxLine
  BY <1>1 DEF Inv, LinesFit, queue
<1>3. staged' = None
  BY <1>1 DEF Inv, LinesFit, Locked
<1>4. TypeOK'
  BY <1>1, <1>2, <1>3, LeaveKeeps DEF Inv, TypeOK, queue, manager, history
<1>5. Bytes' /\ Reading'
  BY <1>1, ReaderKept DEF history
<1> QED
  BY <1>1, <1>2, <1>3, <1>4, <1>5, LeaveKeeps DEF Inv

(* A line as long as m_tmpBuffer: nothing else changes. *)
LEMMA OverrunInv ==
  ASSUME Inv, NEW w \in Writers, Overrun(w)
  PROVE  Inv'
<1>1. /\ UNCHANGED <<lock, tmp, pos, allowed, mine, staged, queue, cpc, file, manager, history>>
      /\ wpc[w] = "append" /\ wpc' = [wpc EXCEPT ![w] = "append"] /\ overrun' = TRUE
  BY DEF Overrun, Goes
<1>2. wpc' = wpc
  BY <1>1 DEF Inv, TypeOK
<1>3. TypeOK'
  BY <1>1, <1>2 DEF Inv, TypeOK, queue, manager, history
<1>4. Locked' /\ LinesFit'
  BY <1>1, <1>2 DEF Inv, Locked, LinesFit, queue, RoomFor, WholeLine
<1>5. Bytes' /\ Reading'
  BY <1>1, ReaderKept DEF history
<1> QED
  BY <1>3, <1>4, <1>5 DEF Inv

(* The record a writer publishes goes behind those in the ring, and its    *)
(* bytes behind theirs.                                                    *)
LEMMA PublishInv ==
  ASSUME Inv, NEW w \in Writers, Publish(w)
  PROVE  Inv'
<1> DEFINE line == WholeLine(tmp)
<1>1. /\ wpc[w] = "publish" /\ ring' = Append(ring, staged)
      /\ used' = used + 2 * IntSize + WholeLine(tmp).length
      /\ staged' = None /\ accepted' = Append(accepted, WholeLine(mine[w]))
      /\ missed' \in BOOLEAN /\ Leave(w)
      /\ UNCHANGED <<overrun, cpc, file, manager, out, filed>>
  <2>1. wpc[w] = "publish" /\ staged = WholeLine(tmp) /\ missed \in BOOLEAN
    BY DEF Publish, Inv, LinesFit, TypeOK
  <2> QED
    BY <2>1 DEF Publish
<1>2. /\ staged = line /\ RoomFor(line) /\ WholeLine(mine[w]) = line
      /\ line \in Lines /\ line.length = pos + 1 /\ pos < MaxLine
  <2>1. staged = line /\ RoomFor(line) /\ pos < MaxLine /\ mine[w] = tmp
    BY <1>1 DEF Inv, LinesFit, Locked
  <2>2. pos \in Nat /\ tmp \in Texts
    BY LogPipeAssumption DEF Inv, TypeOK
  <2> QED
    BY <2>1, <2>2 DEF WholeLine, Lines
<1>3. /\ ring \in Seq(Lines) /\ out \in Seq(Lines) /\ accepted \in Seq(Lines)
      /\ used \in Nat /\ pos \in Nat /\ Len(ring) \in Nat
  BY LenProperties, LogPipeAssumption DEF Inv, TypeOK
<1> HIDE DEF line
<1>4. /\ ring' \in Seq(Lines) /\ Len(ring') = Len(ring) + 1 /\ ring' # <<>>
      /\ \A i \in 1 .. Len(ring) : ring'[i] = ring[i]
      /\ ring'[Len(ring) + 1] = line
  <2>1. ring' = Append(ring, line)
    BY <1>1, <1>2
  <2> QED
    BY ONLY <1>2, <1>3, <2>1, AppendProperties
<1>5. used' \in 0 .. Capacity - 1 /\ used' = used + 2 * IntSize + (pos + 1)
  <2>1. \A u, i, n, c \in Nat : /\ u + 2 * i + (n + 1) < c =>
                                   u + 2 * i + (n + 1) \in 0 .. c - 1
    OBVIOUS
  <2>2. used + 2 * IntSize + line.length < Capacity
    BY <1>2 DEF RoomFor
  <2>3. used' = used + 2 * IntSize + (pos + 1)
    BY <1>1, <1>2 DEF line
  <2> QED
    BY ONLY <1>2, <1>3, <2>1, <2>2, <2>3, LogPipeAssumption
<1>6. \A i \in 1 .. Len(ring') : ring'[i].length <= MaxLine
  <2>1. line.length <= MaxLine
    BY <1>2, <1>3, LogPipeAssumption
  <2>2. ASSUME NEW i \in 1 .. Len(ring') PROVE ring'[i].length <= MaxLine
    <3>1. CASE i \in 1 .. Len(ring)
      BY <1>4, <3>1 DEF Inv, LinesFit
    <3>2. CASE i = Len(ring) + 1
      BY <1>4, <2>1, <3>2
    <3> QED
      BY <1>3, <1>4, <3>1, <3>2
  <2> QED
    BY <2>2
<1>7. TypeOK'
  <2>1. accepted' \in Seq(Lines)
    BY <1>1, <1>2, <1>3, AppendProperties
  <2> QED
    BY <1>1, <1>4, <1>5, <1>6, <2>1, LeaveKeeps DEF Inv, TypeOK, manager
<1>8. Bytes'
  <2>1. PICK ends : EndsOf(ends) /\ ends[Len(ring)] = used + Begun
    BY DEF Inv, Bytes
  <2> DEFINE L == Len(ring)
  <2> PICK e2 : e2 = [i \in 0 .. L + 1 |-> IF i <= L THEN ends[i]
                                          ELSE ends[L] + 2 * IntSize + (pos + 1)]
    OBVIOUS
  <2>2. /\ ends \in [0 .. L -> Nat] /\ ends[0] = 0 /\ L \in Nat
        /\ \A i \in 1 .. L : ends[i] = ends[i - 1] + 2 * IntSize + ring[i].length
        /\ \A i, j \in 0 .. L : i <= j => ends[i] <= ends[j]
    BY <1>3, <2>1 DEF EndsOf
  <2>3. ends[L] \in Nat /\ ends[L] + 2 * IntSize + (pos + 1) \in Nat
        /\ ends[L] <= ends[L] + 2 * IntSize + (pos + 1)
    <3>1. \A m, i, n \in Nat : /\ m + 2 * i + (n + 1) \in Nat
                               /\ m <= m + 2 * i + (n + 1)
      OBVIOUS
    <3>2. ends[L] \in Nat
      BY <2>2
    <3> QED
      BY ONLY <1>3, <3>1, <3>2, LogPipeAssumption
  <2>4. e2[L + 1] = ends[L] + 2 * IntSize + (pos + 1)
    BY <2>2
  <2>5. \A i \in 0 .. L : e2[i] = ends[i]
    BY <2>2
  <2>6. e2 \in [0 .. L + 1 -> Nat]
    BY <2>2, <2>3
  <2>7. \A i, j \in 0 .. L + 1 : i <= j => e2[i] <= e2[j]
    <3>1. ASSUME NEW i \in 0 .. L + 1, NEW j \in 0 .. L + 1, i <= j
          PROVE  e2[i] <= e2[j]
      <4>1. CASE j \in 0 .. L
        BY <2>2, <2>5, <3>1, <4>1
      <4>2. CASE j = L + 1 /\ i \in 0 .. L
        <5>1. ends[i] <= ends[L] /\ ends[i] \in Nat
          BY <2>2, <4>2
        <5> QED
          BY <2>3, <2>4, <2>5, <4>2, <5>1
      <4>3. CASE i = L + 1 /\ j = L + 1
        BY <2>3, <2>4, <4>3
      <4> QED
        BY <2>2, <3>1, <4>1, <4>2, <4>3
    <3> QED
      BY <3>1
  <2>8. \A i \in 1 .. L + 1 : e2[i] = e2[i - 1] + 2 * IntSize + ring'[i].length
    <3>1. ASSUME NEW i \in 1 .. L + 1
          PROVE  e2[i] = e2[i - 1] + 2 * IntSize + ring'[i].length
      <4>1. i - 1 \in 0 .. L /\ (i \in 1 .. L \/ (i = L + 1 /\ i - 1 = L))
        BY <2>2
      <4>2. CASE i \in 1 .. L
        <5>1. i \in 0 .. L
          BY <2>2, <4>2
        <5>2. e2[i] = ends[i] /\ e2[i - 1] = ends[i - 1] /\ ring'[i] = ring[i]
          BY <1>4, <2>5, <4>1, <4>2, <5>1
        <5> QED
          BY <2>2, <4>2, <5>2
      <4>3. CASE i = L + 1 /\ i - 1 = L
        <5>1. e2[i - 1] = ends[L] /\ e2[i] = ends[L] + 2 * IntSize + (pos + 1)
              /\ ring'[i].length = pos + 1
          BY <1>2, <1>4, <2>2, <2>4, <2>5, <4>3
        <5> QED
          BY <5>1
      <4> QED
        BY <4>1, <4>2, <4>3
    <3> QED
      BY <3>1
  <2>9. e2[0] = 0
    BY <2>2, <2>5
  <2>10. EndsOf(e2)'
    BY <1>4, <2>6, <2>7, <2>8, <2>9 DEF EndsOf
  <2>11. e2[L + 1] = used' + Begun'
    <3>1. Begun' = Begun /\ Begun \in Nat
      BY <1>1, LogPipeAssumption DEF Begun
    <3>2. \A m, u, b, i, n \in Nat :
             m = u + b => m + 2 * i + (n + 1) = u + 2 * i + (n + 1) + b
      OBVIOUS
    <3> QED
      BY ONLY <1>3, <1>5, <2>1, <2>3, <2>4, <3>1, <3>2, LogPipeAssumption
  <2> QED
    BY <1>4, <2>10, <2>11 DEF Bytes
<1>9. Reading'
  <2>0. \A o, t \in Seq(Lines), e \in Lines : Append(o \o t, e) = o \o Append(t, e)
    <3>1. ASSUME NEW o \in Seq(Lines), NEW t \in Seq(Lines), NEW e \in Lines
          PROVE  Append(o \o t, e) = o \o Append(t, e)
      BY ONLY <3>1, ConcatAppend
    <3> QED
      BY ONLY <3>1
  <2>1. CASE cpc \in {"file", "copy", "free"}
    <3>1. ring # <<>> /\ accepted = out \o Tail(ring) /\ Tail(ring) \in Seq(Lines)
      BY <1>3, <2>1, HeadTailProperties DEF Inv, Reading
    <3>2. Head(ring') = Head(ring) /\ Tail(ring') = Append(Tail(ring), line)
      BY <1>1, <1>2, <1>3, <3>1, HeadTailAppend
    <3>3. accepted' = out' \o Tail(ring')
      <4>1. Append(out \o Tail(ring), line) = out \o Append(Tail(ring), line)
        BY ONLY <1>2, <1>3, <2>0, <3>1
      <4> QED
        BY <1>1, <1>2, <3>1, <3>2, <4>1
    <3> QED
      BY <1>1, <1>4, <2>1, <3>2, <3>3 DEF Inv, Reading, Record
  <2>2. CASE cpc \notin {"file", "copy", "free"}
    <3>1. accepted' = out' \o ring'
      <4>1. Append(out \o ring, line) = out \o Append(ring, line)
        BY ONLY <1>2, <1>3, <2>0
      <4>2. accepted = out \o ring
        BY <2>2 DEF Inv, Reading
      <4> QED
        BY <1>1, <1>2, <4>1, <4>2
    <3> QED
      BY <1>1, <1>4, <2>2, <3>1 DEF Inv, Reading, Record
  <2> QED
    BY <2>1, <2>2
<1>10. Locked' /\ LinesFit'
  BY <1>1, <1>6, LeaveKeeps
<1> QED
  BY <1>7, <1>8, <1>9, <1>10 DEF Inv

-----------------------------------------------------------------------------
(* The log thread. *)

LEMMA QueueKept ==
  ASSUME Inv, UNCHANGED <<writing, queue>>, Begun' = Begun
  PROVE  Locked' /\ LinesFit' /\ Bytes'
<1>1. used' = used /\ ring' = ring /\ used \in Nat
  BY DEF queue, Inv, TypeOK
<1>2. Locked' /\ LinesFit'
  BY <1>1, WritersKept DEF Inv, LinesFit
<1>3. Bytes'
  BY <1>1 DEF Inv, Bytes, EndsOf
<1> QED
  BY <1>2, <1>3

(* What follows whenever the log thread has a record in hand: its bytes    *)
(* are in the ring as far as they were not read.                           *)
LEMMA OldestFits ==
  ASSUME Inv, ring # <<>>
  PROVE  /\ Record = ring[1] /\ Record \in Lines /\ Record.length \in Nat
         /\ Record.length <= MaxLine
         /\ 2 * IntSize + Record.length <= used + Begun
<1>1. ring \in Seq(Lines) /\ Len(ring) \in Nat /\ Len(ring) >= 1 /\ used \in Nat
  BY EmptySeq DEF Inv, TypeOK
<1>2. Record = ring[1] /\ Record \in Lines /\ Record.length \in Nat
  BY <1>1, TakeFirst DEF Record, Lines
<1>3. Record.length <= MaxLine
  BY <1>1, <1>2 DEF Inv, LinesFit
<1>4. PICK ends : EndsOf(ends) /\ ends[Len(ring)] = used + Begun
  BY DEF Inv, Bytes
<1>5. ends[0] = 0 /\ ends[1] = ends[0] + 2 * IntSize + ring[1].length
  BY <1>1, <1>4 DEF EndsOf
<1>6. ends[1] <= ends[Len(ring)]
  BY <1>1, <1>4 DEF EndsOf
<1>7. ends[1] = 2 * IntSize + Record.length
  BY <1>2, <1>5, LogPipeAssumption
<1> QED
  BY <1>2, <1>3, <1>4, <1>6, <1>7

LEMMA ReadIntInv ==
  ASSUME Inv, ReadInt
  PROVE  Inv'
<1>1. /\ \/ cpc = "level" /\ cpc' = "length"
         \/ cpc = "length" /\ cpc' = "print"
      /\ used' = used - IntSize /\ ring' = ring
      /\ UNCHANGED <<writing, file, manager, history>>
  BY DEF ReadInt, Reads
<1>2. /\ Begun \in Nat /\ Begun' = Begun + IntSize
      /\ used \in 0 .. Capacity - 1 /\ Begun + IntSize <= 2 * IntSize
  <2>1. CASE cpc = "level" /\ cpc' = "length"
    <3>1. Begun = 0 /\ Begun' = IntSize
      BY <2>1 DEF Begun
    <3> QED
      BY <3>1, LogPipeAssumption DEF Inv, TypeOK
  <2>2. CASE cpc = "length" /\ cpc' = "print"
    <3>1. Begun = IntSize /\ Begun' = 2 * IntSize
      BY <2>2 DEF Begun
    <3> QED
      BY <3>1, LogPipeAssumption DEF Inv, TypeOK
  <2> QED
    BY <1>1, <2>1, <2>2
<1>3. Record.length \in Nat /\ 2 * IntSize + Record.length <= used + Begun
  BY <1>1, OldestFits DEF Inv, Reading
<1>4. used' \in 0 .. Capacity - 1 /\ used' <= used /\ used' + Begun' = used + Begun
  <2>1. \A u, b, i, n, c \in Nat :
           2 * i + n <= u + b /\ b + i <= 2 * i /\ u < c =>
              /\ u - i \in 0 .. c - 1 /\ u - i <= u /\ (u - i) + (b + i) = u + b
    OBVIOUS
  <2>2. used \in Nat /\ used < Capacity
    BY <1>2, LogPipeAssumption
  <2> QED
    BY ONLY <1>1, <1>2, <1>3, <2>1, <2>2, LogPipeAssumption
<1>5. Locked' /\ LinesFit'
  <2>1. used' \in Nat
    BY <1>4
  <2> QED
    BY <1>1, <1>4, <2>1, WritersKept DEF Inv, LinesFit
<1>6. Bytes'
  BY <1>1, <1>4 DEF Inv, Bytes, EndsOf
<1>7. TypeOK'
  BY <1>1, <1>4 DEF Inv, TypeOK, writing, manager, history
<1>8. Reading'
  BY <1>1 DEF Inv, Reading, Record, history
<1> QED
  BY <1>5, <1>6, <1>7, <1>8 DEF Inv

LEMMA UpdateInv ==
  ASSUME Inv, CallUpdate \/ TestEmpty \/ KeepFile \/ TestValid \/ Exit \/ Invalidate \/ StopLog
  PROVE  Inv'
<1>1. /\ UNCHANGED <<writing, queue, file, history>>
      /\ \/ cpc = "idle" /\ cpc' = "test"
         \/ cpc = "test" /\ cpc' = IF ring = <<>> THEN "valid" ELSE "level"
         \/ cpc = "file" /\ cpc' = "copy" /\ ~MustChange
         \/ cpc = "valid" /\ cpc' = "idle"
         \/ cpc' = cpc
      /\ valid' \in BOOLEAN /\ alive' \in BOOLEAN
      /\ exiting' \in BOOLEAN /\ gone' \in BOOLEAN
  BY DEF CallUpdate, TestEmpty, KeepFile, TestValid, Exit, Invalidate, StopLog, Reads, manager,
         Inv, TypeOK
<1>2. Locked' /\ LinesFit' /\ Bytes'
  BY <1>1, QueueKept DEF Begun
<1>3. TypeOK'
  BY <1>1 DEF Inv, TypeOK, writing, queue, history
<1>4. ASSUME ~MustChange PROVE file.open /\ file.offset + MaxLine < FileSize
  <2>1. \A o, m, f \in Nat : ~ (o + m >= f) => o + m < f
    OBVIOUS
  <2>2. file.offset \in Nat
    BY DEF Inv, TypeOK, File
  <2> QED
    BY <1>4, <2>1, <2>2, LogPipeAssumption DEF MustChange
<1>5. Reading'
  BY <1>1, <1>4 DEF Inv, Reading, Record, queue, history
<1> QED
  BY <1>2, <1>3, <1>5 DEF Inv

LEMMA PrintRecordInv ==
  ASSUME Inv, PrintRecord
  PROVE  Inv'
<1>1. /\ cpc = "print" /\ cpc' = "file" /\ out' = Append(out, Head(ring))
      /\ UNCHANGED <<writing, queue, file, manager, accepted, filed, missed>>
  BY DEF PrintRecord, Reads, Record
<1>2. /\ ring # <<>> /\ ring \in Seq(Lines) /\ out \in Seq(Lines)
      /\ accepted = out \o ring
  BY <1>1 DEF Inv, Reading, TypeOK
<1>3. out' \in Seq(Lines) /\ accepted = out' \o Tail(ring)
  BY <1>1, <1>2, TakeFirst
<1>4. Locked' /\ LinesFit' /\ Bytes'
  BY <1>1, QueueKept DEF Begun
<1>5. TypeOK'
  BY <1>1, <1>3 DEF Inv, TypeOK, writing, queue, manager
<1>6. Reading'
  BY <1>1, <1>2, <1>3 DEF Inv, Reading, Record, queue
<1> QED
  BY <1>4, <1>5, <1>6 DEF Inv

LEMMA ChangeFileInv ==
  ASSUME Inv,
         \/ \E size \in {0, file.offset} : ChangeFile(size)
         \/ \E opened \in BOOLEAN : ChangeFails(opened)
  PROVE  Inv'
<1>1. /\ UNCHANGED <<writing, queue, manager, history>> /\ cpc = "file"
      /\ file' \in File /\ file'.mapped \in BOOLEAN
      /\ \/ cpc' = "file" /\ file'.mapped /\ file'.failed = file.failed
         \/ cpc' = "copy" /\ ~file'.mapped /\ file'.failed
  <2>1. file \in File
    BY DEF Inv, TypeOK
  <2>2. ASSUME NEW size \in {0, file.offset}, ChangeFile(size)
        PROVE  /\ UNCHANGED <<writing, queue, manager, history>> /\ cpc = "file"
               /\ file' \in File /\ cpc' = "file" /\ file'.mapped = TRUE
               /\ file'.failed = file.failed
    <3>1. size \in Nat /\ file' = [file EXCEPT !.open = TRUE, !.mapped = TRUE, !.offset = size]
      BY <2>1, <2>2 DEF ChangeFile, File
    <3> QED
      BY <2>1, <2>2, <3>1 DEF ChangeFile, Reads, File
  <2>3. ASSUME NEW opened \in BOOLEAN, ChangeFails(opened)
        PROVE  /\ UNCHANGED <<writing, queue, manager, history>> /\ cpc = "file"
               /\ file' \in File /\ cpc' = "copy" /\ file'.mapped = FALSE
               /\ file'.failed = TRUE
    BY <2>3 DEF ChangeFails, Reads, File
  <2> QED
    BY <2>2, <2>3
<1>2. Locked' /\ LinesFit' /\ Bytes'
  BY <1>1, QueueKept DEF Begun
<1>3. TypeOK'
  BY <1>1 DEF Inv, TypeOK, writing, queue, manager, history
<1>4. Reading'
  BY <1>1 DEF Inv, Reading, Record, queue, history
<1> QED
  BY <1>2, <1>3, <1>4 DEF Inv

(* _CheckChangeFile left room for a line: the copy ends inside the file. *)
LEMMA CopyInv ==
  ASSUME Inv, Copy
  PROVE  Inv'
<1>1. /\ cpc = "copy" /\ cpc' = "free"
      /\ UNCHANGED <<writing, queue, manager, accepted, out, missed>>
      /\ \/ /\ file.mapped /\ filed' = Append(filed, Record)
            /\ file' = [file EXCEPT !.offset = @ + Record.length]
         \/ ~file.mapped /\ UNCHANGED <<file, filed>>
  BY DEF Copy, Reads
<1>2. ring # <<>> /\ Record \in Lines /\ Record.length \in Nat
  BY <1>1, OldestFits DEF Inv, Reading
<1>3. /\ file' \in File /\ file'.open = file.open /\ file'.mapped = file.mapped
      /\ file'.failed = file.failed /\ filed' \in Seq(Lines)
  <2>1. file \in File /\ filed \in Seq(Lines)
    BY DEF Inv, TypeOK
  <2>2. CASE /\ file.mapped /\ filed' = Append(filed, Record)
             /\ file' = [file EXCEPT !.offset = @ + Record.length]
    <3>1. file.offset + Record.length \in Nat
      <4>1. \A m, n \in Nat : m + n \in Nat
        OBVIOUS
      <4>2. file.offset \in Nat
        BY <2>1 DEF File
      <4> QED
        BY ONLY <1>2, <4>1, <4>2
    <3>2. filed' \in Seq(Lines)
      BY <1>2, <2>1, <2>2, AppendProperties
    <3>3. /\ file' \in File /\ file'.open = file.open /\ file'.mapped = file.mapped
          /\ file'.failed = file.failed
      BY <2>1, <2>2, <3>1 DEF File
    <3> QED
      BY <3>2, <3>3
  <2> QED
    BY <1>1, <2>1, <2>2
<1>4. Locked' /\ LinesFit' /\ Bytes'
  BY <1>1, QueueKept DEF Begun
<1>5. TypeOK'
  BY <1>1, <1>3 DEF Inv, TypeOK, writing, queue, manager
<1>6. Reading'
  BY <1>1, <1>3 DEF Inv, Reading, Record, queue
<1> QED
  BY <1>4, <1>5, <1>6 DEF Inv

(* The oldest record is given up, and the others move to its place. *)
LEMMA FreeInv ==
  ASSUME Inv, Free
  PROVE  Inv'
<1>1. /\ cpc = "free" /\ cpc' = "test"
      /\ ring' = Tail(ring) /\ used' = used - Record.length
      /\ UNCHANGED <<writing, file, manager, history>>
  BY DEF Free, Reads
<1>2. ring # <<>> /\ Begun = 2 * IntSize /\ Begun' = 0
  BY <1>1 DEF Inv, Reading, Begun
<1>3. /\ Record = ring[1] /\ Record.length \in Nat
      /\ 2 * IntSize + Record.length <= used + 2 * IntSize
  BY <1>2, OldestFits
<1>4. used' \in 0 .. Capacity - 1 /\ used' <= used
  <2>1. \A u, n, i, c \in Nat :
           2 * i + n <= u + 2 * i /\ u < c => u - n \in 0 .. c - 1 /\ u - n <= u
    OBVIOUS
  <2>2. used \in Nat /\ used < Capacity
    BY LogPipeAssumption DEF Inv, TypeOK
  <2> QED
    BY ONLY <1>1, <1>3, <2>1, <2>2, LogPipeAssumption
<1> DEFINE L == Len(ring) - 1
<1>5. /\ ring \in Seq(Lines) /\ Len(ring) \in Nat /\ L \in Nat
      /\ ring' \in Seq(Lines) /\ Len(ring') = L
      /\ \A i \in 1 .. L : ring'[i] = ring[i + 1]
  BY <1>1, <1>2, HeadTailProperties, EmptySeq DEF Inv, TypeOK
<1>6. TypeOK'
  BY <1>1, <1>4, <1>5 DEF Inv, TypeOK, writing, manager, history
<1>7. Locked' /\ LinesFit'
  <2>1. \A i \in 1 .. Len(ring') : ring'[i].length <= MaxLine
    BY <1>5 DEF Inv, LinesFit
  <2>2. used' \in Nat
    BY <1>4
  <2> QED
    BY <1>1, <1>4, <2>1, <2>2, WritersKept
<1>8. Bytes'
  <2>1. PICK ends : EndsOf(ends) /\ ends[Len(ring)] = used + Begun
    BY DEF Inv, Bytes
  <2>2. /\ ends \in [0 .. L + 1 -> Nat] /\ ends[0] = 0
        /\ \A i \in 1 .. L + 1 : ends[i] = ends[i - 1] + 2 * IntSize + ring[i].length
        /\ \A i, j \in 0 .. L + 1 : i <= j => ends[i] <= ends[j]
    BY <1>5, <2>1 DEF EndsOf
  <2> PICK e2 : e2 = [i \in 0 .. L |-> ends[i + 1] - ends[1]]
    OBVIOUS
  <2>3. \A i \in 0 .. L : /\ i + 1 \in 0 .. L + 1 /\ 1 \in 0 .. L + 1 /\ 1 <= i + 1
                          /\ e2[i] = ends[i + 1] - ends[1]
    BY <1>5
  <2>4. \A i \in 0 .. L : ends[i + 1] \in Nat /\ ends[1] \in Nat /\ ends[1] <= ends[i + 1]
    BY <2>2, <2>3
  <2>5. e2 \in [0 .. L -> Nat]
    <3>1. \A i \in 0 .. L : ends[i + 1] - ends[1] \in Nat
      BY <2>4
    <3> QED
      BY <3>1
  <2>6. e2[0] = 0
    <3>1. 0 \in 0 .. L
      BY <1>5
    <3>2. e2[0] = ends[0 + 1] - ends[1] /\ ends[0 + 1] \in Nat
      BY <2>3, <2>4, <3>1
    <3>3. 0 + 1 = 1 /\ \A n \in Nat : n - n = 0
      OBVIOUS
    <3> QED
      BY <3>2, <3>3
  <2>7. ASSUME NEW i \in 1 .. L
        PROVE  e2[i] = e2[i - 1] + 2 * IntSize + ring'[i].length
    <3>1. i \in 0 .. L /\ i - 1 \in 0 .. L /\ i + 1 \in 1 .. L + 1 /\ (i + 1) - 1 = i
          /\ (i - 1) + 1 = i
      BY <1>5
    <3>2. ends[i + 1] = ends[i] + 2 * IntSize + ring'[i].length
      BY <1>5, <2>2, <3>1
    <3>3. e2[i] = ends[i + 1] - ends[1] /\ e2[i - 1] = ends[i] - ends[1]
      BY <2>3, <3>1
    <3>4. ring'[i].length \in Nat /\ ends[i] \in Nat /\ ends[1] \in Nat
      <4>1. ring'[i] \in Lines
        BY <1>5, ElementOfSeq
      <4>2. ends[i] \in Nat
        BY <2>4, <3>1
      <4>3. 0 \in 0 .. L
        BY <1>5
      <4> QED
        BY <2>4, <4>1, <4>2, <4>3 DEF Lines
    <3>5. \A m, f, k, n \in Nat : (m + 2 * k + n) - f = (m - f) + 2 * k + n
      OBVIOUS
    <3> QED
      BY ONLY <3>2, <3>3, <3>4, <3>5, LogPipeAssumption
  <2>8. ASSUME NEW i \in 0 .. L, NEW j \in 0 .. L, i <= j
        PROVE  e2[i] <= e2[j]
    <3>1. ends[i + 1] <= ends[j + 1]
      BY <1>5, <2>2, <2>3, <2>8
    <3> QED
      BY <2>3, <2>4, <3>1
  <2>9. EndsOf(e2)'
    BY <1>5, <2>5, <2>6, <2>7, <2>8 DEF EndsOf
  <2>10. e2[L] = used' + Begun'
    <3>1. e2[L] = ends[L + 1] - ends[1] /\ ends[L + 1] = used + Begun
      BY <1>5, <2>1, <2>3
    <3>2. ends[1] = 2 * IntSize + Record.length
      BY <1>3, <1>5, <2>2, LogPipeAssumption
    <3>3. \A u, k, n \in Nat : (u + 2 * k) - (2 * k + n) = (u - n) + 0
      OBVIOUS
    <3>4. used \in Nat
      BY LogPipeAssumption DEF Inv, TypeOK
    <3> QED
      BY ONLY <1>1, <1>2, <1>3, <3>1, <3>2, <3>3, <3>4, LogPipeAssumption
  <2> QED
    BY <1>5, <2>9, <2>10 DEF Bytes
<1>9. Reading'
  BY <1>1 DEF Inv, Reading, history
<1> QED
  BY <1>6, <1>7, <1>8, <1>9 DEF Inv

-----------------------------------------------------------------------------
LEMMA NextInv == Inv /\ [Next]_vars => Inv'
<1> SUFFICES ASSUME Inv, [Next]_vars PROVE Inv'
  OBVIOUS
<1>1. CASE UNCHANGED vars
  <2>1. UNCHANGED <<writing, queue, cpc, file, manager, history>>
    BY <1>1 DEF vars
  <2>2. Bytes' /\ Reading'
    BY <2>1, ReaderKept DEF history
  <2>3. Locked' /\ LinesFit'
    BY <2>1, QueueKept DEF Begun
  <2>4. TypeOK'
    BY <2>1 DEF Inv, TypeOK, writing, queue, manager, history
  <2> QED
    BY <2>2, <2>3, <2>4 DEF Inv
<1>2. CASE Consume
  BY <1>2, UpdateInv, ReadIntInv, PrintRecordInv, CopyInv, FreeInv, ChangeFileInv DEF Consume
<1>3. CASE Invalidate \/ StopLog
  BY <1>3, UpdateInv
<1>4. ASSUME NEW w \in Writers, Begin(w) \/ Write(w)
      PROVE  Inv'
  BY <1>4, BeginInv, AppendPartInv, StageInv, DropLineInv, OverrunInv,
     PublishInv DEF Write
<1> QED
  BY <1>1, <1>2, <1>3, <1>4 DEF Next

(* The inductive invariant holds in every state. *)
THEOREM Invariance == Spec => []Inv
<1> QED
  BY InitInv, NextInv, PTL DEF Spec

(* The variables keep their types: operator<< leaves m_pos between the     *)
(* prefix and the end of m_tmpBuffer, and Flush, Peek and AdjustReadPtr    *)
(* leave fewer bytes in the ring than it has cells.                        *)
THEOREM TypeCorrect == Spec => []TypeOK
<1> QED
  BY Invariance, PTL DEF Inv

(* Logger::Update prints what Flush accepted, in order and with the parts  *)
(* and the length the writer meant, and copies it all to a file unless one *)
(* could not be opened or mapped: until a line is as long as m_tmpBuffer.  *)
THEOREM WholeLinesInOrder == Spec => []OutInOrder
<1>1. Inv => OutInOrder
  BY DEF Inv, Reading, OutInOrder
<1> QED
  BY <1>1, Invariance, PTL

(* Logger::Update never copies beyond the end of the mapped file, Flush    *)
(* never stages a record for which the ring has no room, and '\n' and '\0' *)
(* reach one byte behind m_tmpBuffer at most, or two after a long number.  *)
THEOREM NothingOverflows == Spec => []WritesFit
<1>1. Inv => WritesFit
  <2> SUFFICES ASSUME Inv PROVE WritesFit
    OBVIOUS
  <2>1. ASSUME cpc = "copy", file.mapped
        PROVE  file.offset + Record.length <= FileSize
    <3>1. Record.length \in Nat /\ Record.length <= MaxLine
      BY <2>1, OldestFits DEF Inv, Reading
    <3>2. file.offset + MaxLine < FileSize /\ file.offset \in Nat
      BY <2>1 DEF Inv, Reading, TypeOK, File
    <3>3. \A o, n, m, f \in Nat : n <= m + 1 /\ o + m < f => o + n <= f
      OBVIOUS
    <3> QED
      BY ONLY <3>1, <3>2, <3>3, LogPipeAssumption
  <2>2. ASSUME staged # None
        PROVE  used + 2 * IntSize + staged.length < Capacity
    BY <2>2 DEF Inv, LinesFit, RoomFor
  <2>3. \/ pos + 2 <= MaxLine + 1
        \/ pos + 2 = MaxLine + 2 /\ Last(tmp)[2].chars > Last(tmp)[2].reserve
    <3>1. pos \in Nat /\ MaxLine \in Nat
      BY LogPipeAssumption DEF Inv, TypeOK
    <3>2. pos < MaxLine \/ (pos = MaxLine /\ Last(tmp)[2].chars > Last(tmp)[2].reserve)
      BY DEF Inv, LinesFit
    <3>3. \A n, m \in Nat : (n < m => n + 2 <= m + 1) /\ (n = m => n + 2 = m + 2)
      OBVIOUS
    <3> QED
      BY <3>1, <3>2, <3>3
  <2> QED
    BY <2>1, <2>2, <2>3 DEF WritesFit
<1> QED
  BY <1>1, Invariance, PTL
=============================================================================
