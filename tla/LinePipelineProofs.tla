------------------------- MODULE LinePipelineProofs -------------------------
(***************************************************************************)
(* Proofs about LinePipeline, for any files, any number of unmarshalers    *)
(* and any batch size: types, no line twice in what is delivered, and that *)
(* the pipeline implements LineDelivery.                                   *)
(***************************************************************************)
EXTENDS LinePipeline, FiniteSetTheorems, SequenceTheorems, TLAPS

(* The input is chosen once, from the values the constants allow.          *)
InputOK ==
  /\ files \in Seq(File)
  /\ skip \in Nat
  /\ goroutines \in Nat \ {0}
  /\ BatchSize \in Nat \ {0}

(* What the types need to know of where the goroutines are.                *)
PlaceInv ==
  /\ at = <<at[1], at[2]>>
  /\ scanner \in {"scanning", "sending"} => at[1] \in DOMAIN files /\ results # <<>>
  /\ scanner = "sending" => at \in Lines
  /\ \A u \in Unmarshalers : unmarshaler[u] = "sending" => holds[u] \in Lines
  /\ batcher = "receiving" => Len(batch) < BatchSize
  /\ batcher = "flushing" => Len(batch) = BatchSize
  /\ batcher = "last" => batch # <<>>
  /\ batcher \in {"closing", "closed"} => batch = <<>>

TypeInv == InputOK /\ TypeOK /\ PlaceInv

Held(line)      == \E u \in Unmarshalers : holds[u] = line
Batched(line)   == line \in ToSet(batch)
Gone(line)      == \E i \in DOMAIN delivered : line \in ToSet(delivered[i])

(* The scanner has let go of it: a line before the last one it read, or    *)
(* that one once an unmarshaler has received it.                           *)
Passed(line) == Precedes(line, at) \/ (line = at /\ scanner # "sending")

(* A line is in one place at a time, and in none before the scanner has    *)
(* let go of it.                                                           *)
OnePlace ==
  /\ \A line \in Lines : Held(line) \/ Batched(line) \/ Gone(line) => Passed(line)
  /\ \A u, v \in Unmarshalers : holds[u] \in Lines /\ holds[u] = holds[v] => u = v
  /\ \A u \in Unmarshalers : holds[u] \in Lines => ~Batched(holds[u]) /\ ~Gone(holds[u])
  /\ \A line \in ToSet(batch) : ~Gone(line)
  /\ IsInjective(batch)

(* Only the last batch may be short.                                       *)
FullBefore ==
  batcher \in {"receiving", "flushing", "last"} =>
    \A i \in DOMAIN delivered : Len(delivered[i]) = BatchSize

-----------------------------------------------------------------------------
(* Lines.                                                                  *)

LEMMA LineParts ==
  ASSUME InputOK, NEW line \in Lines
  PROVE  /\ line = <<line[1], line[2]>>
         /\ line[1] \in DOMAIN files /\ line[1] \in Nat /\ line[1] # 0
         /\ line[2] \in DOMAIN files[line[1]].lines /\ line[2] \in Nat /\ line[2] # 0
         /\ line # none
<1>1. PICK f \in DOMAIN files : \E l \in DOMAIN files[f].lines : line = <<f, l>>
  BY DEF Lines
<1>2. files[f] \in File
  BY DEF InputOK
<1>4. PICK l \in DOMAIN files[f].lines : line = <<f, l>>
  BY <1>1
<1>3. f \in Nat /\ f # 0 /\ l \in Nat /\ l # 0
  BY <1>2 DEF InputOK, File
<1>. QED  BY <1>4, <1>3 DEF none

LEMMA IsLine ==
  ASSUME NEW f, f \in DOMAIN files, NEW l, l \in DOMAIN files[f].lines
  PROVE  <<f, l>> \in Lines
BY DEF Lines

LEMMA NoneIsNoLine == InputOK => none \notin Lines
BY LineParts

(* Where the scanner may be.                                               *)
LEMMA AtParts ==
  ASSUME InputOK, TypeOK
  PROVE  /\ at[1] \in Nat /\ at[2] \in Nat /\ Len(files) \in Nat
         /\ at[1] \in DOMAIN files =>
              /\ files[at[1]].lines \in Seq(LineKinds)
              /\ at[2] \in 0..Len(files[at[1]].lines)
<1>1. ASSUME NEW f, f \in DOMAIN files
      PROVE  f \in Nat /\ f # 0 /\ files[f].lines \in Seq(LineKinds)
  <2>1. files[f] \in File
    BY <1>1 DEF InputOK
  <2>. QED  BY <1>1, <2>1 DEF InputOK, File
<1>2. CASE at = none
  BY <1>1, <1>2 DEF none, InputOK
<1>3. CASE at[1] \in DOMAIN files /\ at[2] \in 0..Len(files[at[1]].lines)
  BY <1>1, <1>3 DEF InputOK
<1>. QED  BY <1>2, <1>3 DEF TypeOK

-----------------------------------------------------------------------------
(* Types.                                                                  *)

LEMMA TypeStep == TypeInv /\ [Next]_vars => TypeInv'
<1>. SUFFICES ASSUME TypeInv, [Next]_vars PROVE TypeInv'
  OBVIOUS
<1>. USE DEF TypeInv, input, scannerVars, unmarshVars, batchVars
<1>1. InputOK' /\ Unmarshalers' = Unmarshalers /\ Lines' = Lines
  BY DEF InputOK, Next, Scanner, Unmarshaler, OpenNext, EndOfFile, ScanLine, Unmarshal, UnmarshalerDone,
     Batch, CloseMapped, BatcherEnds, CloseBatches, Receive, vars, Unmarshalers, Lines
<1>2. CASE OpenNext
  <2>1. at[1] \in Nat /\ Len(files) \in Nat
    BY AtParts
  <2>2. CASE at[1] + 1 > Len(files)
    BY <1>1, <1>2, <2>1, <2>2 DEF OpenNext, TypeOK, PlaceInv
  <2>3. CASE at[1] + 1 <= Len(files)
    <3>1. at[1] + 1 \in DOMAIN files
      BY <2>1, <2>3 DEF InputOK
    <3>2. Len(files[at[1] + 1].lines) \in Nat
      BY <3>1 DEF InputOK, File
    <3>3. at' = <<at[1] + 1, 0>>
      BY <1>2, <2>1, <2>3 DEF OpenNext
    <3>4. \/ scanner' = "scanning" /\ results' = Append(results, 0)
          \/ scanner' = "opening" /\ results' = results
      BY <1>2, <2>1, <2>3 DEF OpenNext, SkipsUnreadable
    <3>5. results' \in Seq(Nat) /\ (scanner' = "scanning" => results' # <<>>)
      <4>1. results \in Seq(Nat) /\ 0 \in Nat
        BY DEF TypeOK
      <4>2. Append(results, 0) \in Seq(Nat) /\ Append(results, 0) # <<>>
        BY <4>1, AppendProperties
      <4>. QED  BY <3>4, <4>1, <4>2
    <3>6. UNCHANGED <<files, totalLines, holds, unmarshaler, rejected, mappedClosed, batcher, batch, delivered>>
      BY <1>2 DEF OpenNext
    <3>. QED  BY <1>1, <3>1, <3>2, <3>3, <3>4, <3>5, <3>6 DEF TypeOK, PlaceInv
  <2>. QED  BY <2>1, <2>2, <2>3
<1>3. CASE EndOfFile
  BY <1>1, <1>3 DEF EndOfFile, TypeOK, PlaceInv
<1>4. CASE ScanLine
  <2>1. /\ at[1] \in DOMAIN files /\ at[1] \in Nat /\ at[2] \in Nat
        /\ files[at[1]].lines \in Seq(LineKinds)
        /\ at[2] \in 0..Len(files[at[1]].lines)
        /\ results \in Seq(Nat) /\ results # <<>>
    BY <1>4, AtParts DEF ScanLine, PlaceInv, TypeOK
  <2>2. at[2] + 1 \in DOMAIN files[at[1]].lines
    BY <1>4, <2>1 DEF ScanLine, Upcoming
  <2>3. at' = <<at[1], at[2] + 1>> /\ at' \in Lines
    BY <1>4, <2>1, <2>2, IsLine DEF ScanLine
  <2>4. /\ totalLines' \in Nat
        /\ scanner' \in {"scanning", "sending"}
        /\ \/ results' = results
           \/ results' = [results EXCEPT ![Len(results)] = @ + 1]
    BY <1>4 DEF ScanLine, TypeOK
  <2>5. results' \in Seq(Nat) /\ results' # <<>>
    <3>1. Len(results) \in DOMAIN results /\ results[Len(results)] + 1 \in Nat
      BY <2>1
    <3>2. [results EXCEPT ![Len(results)] = @ + 1] \in Seq(Nat)
      BY <2>1, <3>1, ExceptSeq
    <3>3. DOMAIN [results EXCEPT ![Len(results)] = @ + 1] = DOMAIN results
      OBVIOUS
    <3>4. DOMAIN results # {} /\ DOMAIN <<>> = {}
      BY <3>1
    <3>. QED  BY <2>1, <2>4, <3>2, <3>3, <3>4
  <2>6. UNCHANGED <<files, holds, unmarshaler, rejected, mappedClosed, batcher, batch, delivered>>
    BY <1>4 DEF ScanLine
  <2>7. at'[1] \in DOMAIN files' /\ at'[2] \in 0..Len(files'[at'[1]].lines)
    BY <2>1, <2>2, <2>3, <2>6
  <2>8. TypeOK'
    BY <1>1, <2>4, <2>5, <2>6, <2>7 DEF TypeOK
  <2>9. PlaceInv'
    BY <1>1, <2>3, <2>4, <2>5, <2>6, <2>7 DEF PlaceInv
  <2>. QED  BY <1>1, <2>8, <2>9
<1>5. ASSUME NEW u \in Unmarshalers, Unmarshal(u)
      PROVE  TypeInv'
  <2>1. at \in Lines
    BY <1>5 DEF Unmarshal, PlaceInv
  <2>2. scanner' = "scanning" /\ at[1] \in DOMAIN files /\ results # <<>>
    BY <1>5 DEF Unmarshal, PlaceInv
  <2>3. UNCHANGED <<files, at, totalLines, results, mappedClosed, batcher, batch, delivered>>
    BY <1>5 DEF Unmarshal
  <2>4. \/ /\ holds' = [holds EXCEPT ![u] = at]
           /\ unmarshaler' = [unmarshaler EXCEPT ![u] = "sending"]
           /\ rejected' = rejected
        \/ rejected' = rejected \cup {at} /\ UNCHANGED <<holds, unmarshaler>>
    BY <1>5 DEF Unmarshal
  <2>. QED  BY <1>1, <2>1, <2>2, <2>3, <2>4 DEF TypeOK, PlaceInv
<1>6. ASSUME NEW u \in Unmarshalers, UnmarshalerDone(u)
      PROVE  TypeInv'
  BY <1>1, <1>6 DEF UnmarshalerDone, TypeOK, PlaceInv
<1>7. ASSUME NEW u \in Unmarshalers, Batch(u)
      PROVE  TypeInv'
  <2>1. holds[u] \in Lines /\ batch \in Seq(Lines) /\ Len(batch) < BatchSize
    BY <1>7 DEF Batch, TypeOK, PlaceInv
  <2>2. /\ batch' = Append(batch, holds[u])
        /\ holds' = [holds EXCEPT ![u] = none]
        /\ unmarshaler' = [unmarshaler EXCEPT ![u] = "receiving"]
        /\ batcher' = IF Len(batch') = BatchSize THEN "flushing" ELSE "receiving"
        /\ UNCHANGED <<files, scanner, at, totalLines, results, rejected, mappedClosed, delivered>>
    BY <1>7 DEF Batch, Full
  <2>3. batch' \in Seq(Lines) /\ Len(batch') = Len(batch) + 1 /\ Len(batch) \in Nat
    BY <2>1, <2>2
  <2>4. BatchSize \in Nat
    BY DEF TypeInv, InputOK
  <2>5. TypeOK'
    BY <1>1, <2>1, <2>2, <2>3, <2>4 DEF TypeOK
  <2>6. PlaceInv'
    BY <1>1, <2>1, <2>2, <2>3, <2>4 DEF TypeOK, PlaceInv
  <2>. QED  BY <1>1, <2>5, <2>6
<1>8. CASE CloseMapped
  BY <1>1, <1>8 DEF CloseMapped, TypeOK, PlaceInv
<1>9. CASE BatcherEnds \/ CloseBatches
  BY <1>1, <1>9 DEF BatcherEnds, CloseBatches, LastBatch, TypeOK, PlaceInv
<1>10. CASE Receive
  <2>1. /\ batch \in Seq(Lines) /\ delivered' = Append(delivered, batch) /\ batch' = <<>>
        /\ batcher' \in {"closing", "receiving"}
        /\ UNCHANGED <<files, scanner, at, totalLines, results, holds, unmarshaler, rejected, mappedClosed>>
    BY <1>10 DEF Receive, TypeOK
  <2>2. delivered' \in Seq(Seq(Lines))
    BY <2>1 DEF TypeOK
  <2>3. BatchSize \in Nat /\ BatchSize > 0
    BY DEF TypeInv, InputOK
  <2>. QED  BY <1>1, <2>1, <2>2, <2>3 DEF TypeOK, PlaceInv
<1>11. CASE UNCHANGED vars
  BY <1>1, <1>11 DEF vars, TypeOK, PlaceInv
<1>. QED
  BY <1>2, <1>3, <1>4, <1>5, <1>6, <1>7, <1>8, <1>9, <1>10, <1>11 DEF Next, Scanner, Unmarshaler

LEMMA TypeInit == PipelineAssumption /\ Init => TypeInv
<1>. SUFFICES ASSUME PipelineAssumption, Init PROVE TypeInv
  OBVIOUS
<1>1. InputOK
  BY DEF PipelineAssumption, Init, InputOK
<1>2. /\ holds \in [Unmarshalers -> Lines \cup {none}]
      /\ unmarshaler \in [Unmarshalers -> {"receiving", "sending", "done"}]
  BY DEF Init
<1>3. results \in Seq(Nat) /\ batch \in Seq(Lines) /\ delivered \in Seq(Seq(Lines)) /\ Len(batch) = 0
  BY DEF Init
<1>4. 0 <= BatchSize
  BY <1>1 DEF InputOK
<1>5. TypeOK
  BY <1>2, <1>3, <1>4 DEF Init, TypeOK
<1>6. PlaceInv
  <2>1. at = <<at[1], at[2]>>
    BY DEF Init, none
  <2>2. Len(batch) < BatchSize
    BY <1>1, <1>3 DEF InputOK
  <2>. QED  BY <2>1, <2>2 DEF Init, PlaceInv
<1>. QED  BY <1>1, <1>6, <1>5 DEF TypeInv

(* Every goroutine, the line in its hand and the batch keep their types,   *)
(* and a batch never outgrows its size (resources/pipeline.go).            *)
THEOREM PipelineTypes == PipelineAssumption /\ Spec => []TypeOK
<1>1. TypeInv => TypeOK
  BY DEF TypeInv
<1>. QED  BY <1>1, TypeInit, TypeStep, PTL DEF Spec

-----------------------------------------------------------------------------
(* What is appended.                                                       *)

LEMMA AppendSet ==
  ASSUME NEW S, NEW s \in Seq(S), NEW e \in S
  PROVE  /\ ToSet(Append(s, e)) = ToSet(s) \cup {e}
         /\ IsInjective(s) /\ e \notin ToSet(s) => IsInjective(Append(s, e))
<1>. DEFINE a == Append(s, e)
<1>1. /\ Len(s) \in Nat /\ DOMAIN s = 1..Len(s)
      /\ Len(a) = Len(s) + 1 /\ DOMAIN a = 1..Len(a) /\ a[Len(s) + 1] = e
      /\ \A i \in 1..Len(s) : a[i] = s[i]
  BY AppendProperties
<1>. HIDE DEF a
<1>2. DOMAIN a = DOMAIN s \cup {Len(s) + 1} /\ Len(s) + 1 \notin DOMAIN s
  BY <1>1
<1>3. ToSet(a) = ToSet(s) \cup {e}
  BY <1>1, <1>2 DEF ToSet
<1>4. ASSUME IsInjective(s), e \notin ToSet(s)
      PROVE  IsInjective(a)
  <2>1. \A i \in DOMAIN s : a[i] = s[i] /\ a[i] # e
    BY <1>1, <1>4 DEF ToSet
  <2>. QED  BY <1>1, <1>2, <1>4, <2>1 DEF IsInjective
<1>. QED  BY <1>3, <1>4 DEF a

(* A received batch is gone, and nothing else with it.                     *)
LEMMA ReceivedGone ==
  ASSUME TypeInv, Receive, NEW line
  PROVE  Gone(line)' <=> Gone(line) \/ Batched(line)
<1>1. delivered \in Seq(Seq(Lines)) /\ batch \in Seq(Lines) /\ delivered' = Append(delivered, batch)
  BY DEF TypeInv, TypeOK, Receive
<1>2. /\ Len(delivered) \in Nat
      /\ DOMAIN delivered' = DOMAIN delivered \cup {Len(delivered) + 1}
      /\ delivered'[Len(delivered) + 1] = batch
      /\ \A i \in DOMAIN delivered : delivered'[i] = delivered[i]
  BY <1>1
<1>. QED  BY <1>2 DEF Gone, Batched

-----------------------------------------------------------------------------
(* The scanner lets go of lines and never takes one back.                  *)

LEMMA PassedStays ==
  ASSUME TypeInv, OpenNext \/ EndOfFile \/ ScanLine, NEW line \in Lines, Passed(line)
  PROVE  Passed(line)'
<1>1. /\ line = <<line[1], line[2]>> /\ line[1] \in Nat /\ line[2] \in Nat
      /\ at[1] \in Nat /\ at[2] \in Nat
  BY LineParts, AtParts DEF TypeInv
<1>2. Precedes(line, at) \/ line = at
  BY DEF Passed
<1>3. CASE EndOfFile
  BY <1>3 DEF EndOfFile, Passed
<1>4. CASE OpenNext
  <2>1. scanner' # "sending" /\ (at' = at \/ at' = <<at[1] + 1, 0>>)
    BY <1>4 DEF OpenNext, SkipsUnreadable
  <2>2. at' = <<at[1] + 1, 0>> => at'[1] = at[1] + 1
    OBVIOUS
  <2>. QED  BY <1>1, <1>2, <2>1, <2>2 DEF Passed, Precedes
<1>5. CASE ScanLine
  <2>1. at'[1] = at[1] /\ at'[2] = at[2] + 1
    BY <1>5 DEF ScanLine
  <2>. QED  BY <1>1, <1>2, <2>1 DEF Passed, Precedes
<1>. QED  BY <1>3, <1>4, <1>5

-----------------------------------------------------------------------------
(* A line is in one place.                                                 *)

LEMMA PlaceStep == TypeInv /\ OnePlace /\ [Next]_vars => OnePlace'
<1>. SUFFICES ASSUME TypeInv, OnePlace, [Next]_vars PROVE OnePlace'
  OBVIOUS
<1>1. Unmarshalers' = Unmarshalers /\ Lines' = Lines
  BY DEF Next, Scanner, Unmarshaler, OpenNext, EndOfFile, ScanLine, Unmarshal, UnmarshalerDone,
     Batch, CloseMapped, BatcherEnds, CloseBatches, Receive, vars, input, Unmarshalers, Lines
<1>2. ASSUME UNCHANGED <<holds, batch, delivered>>,
             \A line \in Lines : Passed(line) => Passed(line)'
      PROVE  OnePlace'
  BY <1>1, <1>2 DEF OnePlace, Held, Batched, Gone
<1>3. ASSUME UNCHANGED <<holds, batch, delivered, at, scanner>>
      PROVE  OnePlace'
  BY <1>2, <1>3 DEF Passed
<1>. USE DEF scannerVars, unmarshVars, batchVars
<1>4. CASE Scanner
  <2>1. UNCHANGED <<holds, batch, delivered>>
    BY <1>4 DEF Scanner, OpenNext, EndOfFile, ScanLine
  <2>. QED  BY <1>2, <1>4, <2>1, PassedStays DEF Scanner
<1>5. ASSUME NEW u \in Unmarshalers, Unmarshal(u)
      PROVE  OnePlace'
  <2>1. at \in Lines /\ at[1] \in Nat /\ at[2] \in Nat
    BY <1>5, AtParts DEF Unmarshal, TypeInv, PlaceInv
  <2>2. ~Held(at) /\ ~Batched(at) /\ ~Gone(at)
    BY <1>5, <2>1 DEF Unmarshal, OnePlace, Passed, Precedes
  <2>3. scanner' # "sending" /\ UNCHANGED <<at, batch, delivered>>
    BY <1>5 DEF Unmarshal
  <2>4. \A line \in Lines : Passed(line) \/ line = at => Passed(line)'
    BY <2>3 DEF Passed
  <2>5. CASE UNCHANGED holds
    BY <1>2, <2>3, <2>4, <2>5
  <2>6. CASE holds' = [holds EXCEPT ![u] = at]
    <3>1. \A v \in Unmarshalers : holds'[v] = IF v = u THEN at ELSE holds[v]
      BY <2>6 DEF TypeInv, TypeOK
    <3>2. \A line : (Batched(line)' <=> Batched(line)) /\ (Gone(line)' <=> Gone(line))
      BY <2>3 DEF Batched, Gone
    <3>3. \A line \in Lines : Held(line)' => Held(line) \/ line = at
      BY <1>1, <3>1 DEF Held
    <3>4. \A line \in Lines : Held(line)' \/ Batched(line)' \/ Gone(line)' => Passed(line)'
      BY <2>4, <3>2, <3>3 DEF OnePlace
    <3>5. \A v, w \in Unmarshalers : holds'[v] \in Lines /\ holds'[v] = holds'[w] => v = w
      BY <2>2, <3>1 DEF OnePlace, Held
    <3>6. \A v \in Unmarshalers : holds'[v] \in Lines => ~Batched(holds'[v]) /\ ~Gone(holds'[v])
      BY <2>2, <3>1 DEF OnePlace
    <3>. QED  BY <1>1, <2>3, <3>2, <3>4, <3>5, <3>6 DEF OnePlace, Batched, Gone
  <2>. QED  BY <1>5, <2>5, <2>6 DEF Unmarshal
<1>6. ASSUME NEW u \in Unmarshalers, UnmarshalerDone(u)
      PROVE  OnePlace'
  BY <1>3, <1>6 DEF UnmarshalerDone
<1>7. ASSUME NEW u \in Unmarshalers, Batch(u)
      PROVE  OnePlace'
  <2>. DEFINE x == holds[u]
  <2>1. x \in Lines /\ x # none /\ none \notin Lines /\ batch \in Seq(Lines)
    BY <1>7, NoneIsNoLine, LineParts DEF Batch, TypeInv, PlaceInv, TypeOK
  <2>2. batch' = Append(batch, x) /\ UNCHANGED <<at, scanner, delivered>>
    BY <1>7 DEF Batch
  <2>3. \A v \in Unmarshalers : holds'[v] = IF v = u THEN none ELSE holds[v]
    BY <1>7 DEF Batch, TypeInv, TypeOK
  <2>4. Held(x) /\ ~Batched(x) /\ ~Gone(x)
    BY <2>1 DEF OnePlace, Held
  <2>5. ToSet(batch') = ToSet(batch) \cup {x} /\ IsInjective(batch')
    BY <2>1, <2>2, <2>4, AppendSet DEF OnePlace, Batched
  <2>. HIDE DEF x
  <2>6. \A line : (Gone(line)' <=> Gone(line)) /\ (Batched(line)' <=> Batched(line) \/ line = x)
    BY <2>2, <2>5 DEF Gone, Batched
  <2>7. \A line \in Lines : (Held(line)' => Held(line)) /\ (Passed(line)' <=> Passed(line))
    BY <1>1, <2>1, <2>2, <2>3 DEF Held, Passed
  <2>8. \A line \in Lines : Held(line)' \/ Batched(line)' \/ Gone(line)' => Passed(line)'
    BY <2>1, <2>4, <2>6, <2>7 DEF OnePlace
  <2>9. \A v \in Unmarshalers : holds'[v] \in Lines => v # u /\ holds'[v] = holds[v] /\ holds[v] # x
    BY <2>1, <2>3 DEF OnePlace, x
  <2>10. \A v, w \in Unmarshalers : holds'[v] \in Lines /\ holds'[v] = holds'[w] => v = w
    BY <2>9 DEF OnePlace
  <2>11. \A v \in Unmarshalers :
           holds'[v] \in Lines => holds'[v] \notin ToSet(batch') /\ ~Gone(holds'[v])
    BY <2>5, <2>9 DEF OnePlace, Batched
  <2>12. \A line \in ToSet(batch') : ~Gone(line)'
    BY <2>4, <2>5, <2>6 DEF OnePlace
  <2>. QED  BY <1>1, <2>2, <2>5, <2>8, <2>10, <2>11, <2>12 DEF OnePlace, Batched, Gone
<1>8. CASE CloseMapped \/ BatcherEnds \/ CloseBatches
  BY <1>3, <1>8 DEF CloseMapped, BatcherEnds, CloseBatches
<1>9. CASE Receive
  <2>1. batch' = <<>> /\ UNCHANGED <<at, scanner, holds>>
    BY <1>9 DEF Receive
  <2>2. ToSet(batch') = {} /\ IsInjective(batch')
    BY <2>1 DEF ToSet, IsInjective
  <2>3. \A line : Gone(line)' <=> Gone(line) \/ Batched(line)
    BY <1>9, ReceivedGone
  <2>4. \A line \in Lines : (Held(line)' <=> Held(line)) /\ (Passed(line)' <=> Passed(line)) /\ ~Batched(line)'
    BY <1>1, <2>1, <2>2 DEF Held, Passed, Batched
  <2>5. \A line \in Lines : Held(line)' \/ Batched(line)' \/ Gone(line)' => Passed(line)'
    BY <2>3, <2>4 DEF OnePlace
  <2>6. \A v \in Unmarshalers : holds[v] \in Lines => ~Batched(holds[v])' /\ ~Gone(holds[v])'
    BY <2>1, <2>2, <2>3 DEF OnePlace, Batched
  <2>. QED  BY <1>1, <2>1, <2>2, <2>5, <2>6 DEF OnePlace
<1>10. CASE UNCHANGED vars
  BY <1>3, <1>10 DEF vars
<1>. QED
  BY <1>4, <1>5, <1>6, <1>7, <1>8, <1>9, <1>10 DEF Next, Unmarshaler

-----------------------------------------------------------------------------
(* Batches.                                                                *)

LEMMA FullStep ==
  TypeInv /\ OnePlace /\ FullBefore /\ BatchesFull /\ [Next]_vars => FullBefore' /\ BatchesFull'
<1>. SUFFICES ASSUME TypeInv, OnePlace, FullBefore, BatchesFull, [Next]_vars
              PROVE  FullBefore' /\ BatchesFull'
  OBVIOUS
<1>1. ASSUME delivered' = delivered,
             batcher' \in {"receiving", "flushing", "last"} => batcher \in {"receiving", "flushing", "last"}
      PROVE  FullBefore' /\ BatchesFull'
  BY <1>1 DEF FullBefore, BatchesFull
<1>. USE DEF scannerVars, unmarshVars, batchVars
<1>2. CASE Scanner
  BY <1>1, <1>2 DEF Scanner, OpenNext, EndOfFile, ScanLine
<1>3. ASSUME NEW u \in Unmarshalers, Unmarshal(u) \/ UnmarshalerDone(u) \/ Batch(u)
      PROVE  FullBefore' /\ BatchesFull'
  BY <1>1, <1>3 DEF Unmarshal, UnmarshalerDone, Batch
<1>4. CASE CloseMapped \/ BatcherEnds \/ CloseBatches
  BY <1>1, <1>4 DEF CloseMapped, BatcherEnds, CloseBatches
<1>5. CASE Receive
  <2>1. /\ batcher \in {"flushing", "last"}
        /\ batcher' = IF batcher = "last" THEN "closing" ELSE "receiving"
        /\ delivered \in Seq(Seq(Lines)) /\ batch \in Seq(Lines)
        /\ delivered' = Append(delivered, batch)
    BY <1>5 DEF Receive, TypeInv, TypeOK
  <2>. DEFINE n == Len(delivered)
  <2>2. /\ n \in Nat /\ DOMAIN delivered = 1..n /\ DOMAIN delivered' = 1..(n + 1)
        /\ Len(delivered') = n + 1 /\ delivered'[n + 1] = batch
        /\ \A i \in 1..n : delivered'[i] = delivered[i]
    BY <2>1
  <2>3. BatchSize \in Nat /\ BatchSize # 0 /\ Len(<<>>) = 0
    BY DEF TypeInv, InputOK
  <2>4. IsInjective(batch) /\ batch # <<>> /\ (batcher = "flushing" => Len(batch) = BatchSize)
    BY <2>1, <2>3 DEF OnePlace, TypeInv, PlaceInv
  <2>5. \A i \in 1..n : Len(delivered[i]) = BatchSize /\ IsInjective(delivered[i]) /\ delivered[i] # <<>>
    BY <2>1, <2>2 DEF FullBefore, BatchesFull
  <2>6. \A i \in 1..n : ToSet(batch) \cap ToSet(delivered[i]) = {}
    BY <2>2 DEF OnePlace, Gone
  <2>. HIDE DEF n
  <2>7. \A i \in 1..(n + 1) : i \in 1..n \/ i = n + 1
    BY <2>2
  <2>8. FullBefore'
    BY <2>1, <2>2, <2>4, <2>5, <2>7 DEF FullBefore
  <2>9. ASSUME NEW i \in 1..(n + 1)
        PROVE  /\ IsInjective(delivered'[i]) /\ delivered'[i] # <<>>
               /\ i < n + 1 => Len(delivered'[i]) = BatchSize
    BY <2>2, <2>4, <2>5, <2>7
  <2>10. ASSUME NEW i \in 1..(n + 1), NEW j \in 1..(n + 1), i # j
         PROVE  ToSet(delivered'[i]) \cap ToSet(delivered'[j]) = {}
    <3>1. CASE i \in 1..n /\ j \in 1..n
      BY <2>2, <2>10, <3>1 DEF BatchesFull
    <3>2. CASE i \in 1..n /\ j = n + 1
      BY <2>2, <2>6, <3>2
    <3>3. CASE i = n + 1 /\ j \in 1..n
      BY <2>2, <2>6, <3>3
    <3>. QED  BY <2>7, <2>10, <3>1, <3>2, <3>3
  <2>. QED  BY <2>2, <2>8, <2>9, <2>10 DEF BatchesFull
<1>6. CASE UNCHANGED vars
  BY <1>1, <1>6 DEF vars
<1>. QED  BY <1>2, <1>3, <1>4, <1>5, <1>6 DEF Next, Unmarshaler

(* However many goroutines unmarshal, no line is delivered twice, every    *)
(* batch but the last is full and none is empty (Batcher.Map).             *)
THEOREM NoLineTwice == PipelineAssumption /\ Spec => []BatchesFull
<1>1. PipelineAssumption /\ Init => OnePlace /\ FullBefore /\ BatchesFull
  <2>. SUFFICES ASSUME PipelineAssumption, Init PROVE OnePlace /\ FullBefore /\ BatchesFull
    OBVIOUS
  <2>1. /\ batch = <<>> /\ delivered = <<>> /\ \A u \in Unmarshalers : holds[u] = none
        /\ none \notin Lines
    BY TypeInit, NoneIsNoLine DEF Init, TypeInv
  <2>2. ToSet(batch) = {} /\ IsInjective(batch) /\ DOMAIN delivered = {}
    BY <2>1 DEF ToSet, IsInjective
  <2>. QED  BY <2>1, <2>2 DEF OnePlace, FullBefore, BatchesFull, Held, Batched, Gone
<1>. QED
  BY <1>1, TypeInit, TypeStep, PlaceStep, FullStep, PTL DEF Spec

-----------------------------------------------------------------------------
(* The pipeline implements LineDelivery.                                   *)

ReadSoFar == {line \in Readable : Precedes(line, at) \/ line = at}

(* totalLines counts the readable lines up to the one last read, over all  *)
(* files, and a file is left when no readable line of it is left.          *)
CountInv ==
  /\ IsFiniteSet(ReadSoFar) /\ Cardinality(ReadSoFar) = totalLines
  /\ scanner \in {"scanning", "sending"} =>
       /\ files[at[1]].ok
       /\ \A l \in 1..at[2] : files[at[1]].lines[l] # "long"
  /\ scanner \in {"opening", "finished"} =>
       \A line \in Readable : line[1] = at[1] => line[2] <= at[2]
  /\ scanner = "sending" => at \in Wanted
  /\ scanner = "finished" => at[1] = Len(files)

(* The channels are closed one after the other.                            *)
ClosingInv ==
  /\ \A u \in Unmarshalers : holds[u] \in Lines => unmarshaler[u] = "sending"
  /\ \A u \in Unmarshalers : unmarshaler[u] = "done" => scanner = "finished"
  /\ mappedClosed => AllDone
  /\ batcher \in {"last", "closing", "closed"} => mappedClosed

Placed(line) == Held(line) \/ Batched(line) \/ Gone(line) \/ line \in rejected

(* Of the lines the scanner has let go of, the wanted ones are somewhere,  *)
(* and no other.                                                           *)
AccountInv ==
  /\ \A line \in Lines : Placed(line) => line \in Wanted /\ Passed(line)
  /\ \A line \in Wanted : Passed(line) => Placed(line)
  /\ \A line \in rejected : ~Held(line) /\ ~Batched(line) /\ ~Gone(line)
  /\ IsFiniteSet(ToSet(batch)) /\ Cardinality(ToSet(batch)) = Len(batch)

-----------------------------------------------------------------------------
(* Counting.                                                               *)

LEMMA WantedKept ==
  TypeInv /\ [Next]_vars => /\ files' = files /\ skip' = skip /\ Unmarshalers' = Unmarshalers
                           /\ Lines' = Lines /\ Readable' = Readable /\ Wanted' = Wanted
<1>. SUFFICES ASSUME [Next]_vars
              PROVE  /\ files' = files /\ skip' = skip /\ Unmarshalers' = Unmarshalers
                     /\ Lines' = Lines /\ Readable' = Readable /\ Wanted' = Wanted
  OBVIOUS
<1>1. UNCHANGED <<files, skip, goroutines>>
  BY DEF Next, Scanner, Unmarshaler, OpenNext, EndOfFile, ScanLine, Unmarshal, UnmarshalerDone, Batch,
     CloseMapped, BatcherEnds, CloseBatches, Receive, vars, input
<1>2. Lines' = Lines
  BY <1>1 DEF Lines
<1>3. Readable' = Readable
  BY <1>1, <1>2 DEF Readable, Kind
<1>. QED  BY <1>1, <1>2, <1>3 DEF Unmarshalers, Wanted

LEMMA ReadableParts ==
  ASSUME InputOK, NEW line \in Readable
  PROVE  /\ line = <<line[1], line[2]>> /\ line \in Lines
         /\ line[1] \in DOMAIN files /\ line[1] \in 1..Len(files)
         /\ line[2] \in Nat /\ line[2] # 0 /\ line[2] <= Len(files[line[1]].lines)
         /\ files[line[1]].ok
         /\ files[line[1]].lines[line[2]] # "empty"
         /\ \A l \in 1..line[2] : files[line[1]].lines[l] # "long"
<1>1. /\ line \in Lines /\ files[line[1]].ok
      /\ files[line[1]].lines[line[2]] # "empty"
      /\ \A l \in 1..line[2] : files[line[1]].lines[l] # "long"
  BY DEF Readable, Kind
<1>2. /\ line = <<line[1], line[2]>> /\ line[1] \in DOMAIN files
      /\ line[2] \in DOMAIN files[line[1]].lines /\ line[2] \in Nat /\ line[2] # 0
  BY <1>1, LineParts
<1>3. files[line[1]] \in File /\ DOMAIN files = 1..Len(files)
  BY <1>2 DEF InputOK
<1>4. DOMAIN files[line[1]].lines = 1..Len(files[line[1]].lines) /\ Len(files[line[1]].lines) \in Nat
  BY <1>3 DEF File
<1>. QED  BY <1>1, <1>2, <1>3, <1>4

(* A line is counted when it is not empty, and passed on when more than    *)
(* skip are counted: when it is wanted.                                    *)
LEMMA ScanCounts ==
  ASSUME TypeInv, CountInv, ScanLine
  PROVE  /\ IsFiniteSet(ReadSoFar)' /\ (Cardinality(ReadSoFar) = totalLines)'
         /\ at' \notin ReadSoFar
         /\ ReadSoFar' = IF at' \in Readable THEN ReadSoFar \cup {at'} ELSE ReadSoFar
         /\ files'[at'[1]].ok
         /\ \A l \in 1..at'[2] : files'[at'[1]].lines[l] # "long"
         /\ at' \in Wanted <=> scanner' = "sending"
<1>. USE DEF TypeInv
<1>1. /\ at[1] \in DOMAIN files /\ at[1] \in Nat /\ at[2] \in Nat
      /\ files[at[1]].lines \in Seq(LineKinds)
      /\ at[2] \in 0..Len(files[at[1]].lines)
  BY AtParts DEF ScanLine, PlaceInv
<1>2. /\ at' = <<at[1], at[2] + 1>>
      /\ Upcoming \notin {"end", "long"}
      /\ UNCHANGED <<files, skip>> /\ scanner = "scanning"
  BY DEF ScanLine, input
<1>3. at[2] < Len(files[at[1]].lines) /\ Upcoming = files[at[1]].lines[at[2] + 1]
  BY <1>2 DEF Upcoming
<1>4. /\ at'[1] = at[1] /\ at'[2] = at[2] + 1
      /\ at[2] + 1 \in DOMAIN files[at[1]].lines
  BY <1>1, <1>2, <1>3
<1>5. at' \in Lines
  BY <1>1, <1>2, <1>4, IsLine
<1>6. /\ files[at'[1]].ok
      /\ \A l \in 1..at'[2] : files[at'[1]].lines[l] # "long"
  <2>1. \A l \in 1..(at[2] + 1) : l \in 1..at[2] \/ l = at[2] + 1
    BY <1>1
  <2>. QED  BY <1>2, <1>3, <1>4, <2>1 DEF CountInv
<1>7. at' \in Readable <=> Upcoming # "empty"
  BY <1>3, <1>4, <1>5, <1>6 DEF Readable, Kind
<1>8. \A line \in Readable : Precedes(line, at') <=> line \in ReadSoFar
  <2>. SUFFICES ASSUME NEW line \in Readable PROVE Precedes(line, at') <=> Precedes(line, at) \/ line = at
    BY DEF ReadSoFar
  <2>1. line = <<line[1], line[2]>> /\ line[1] \in Nat /\ line[2] \in Nat
    BY ReadableParts
  <2>2. at = <<at[1], at[2]>>
    BY DEF PlaceInv
  <2>. QED  BY <1>1, <1>4, <2>1, <2>2 DEF Precedes
<1>9. Readable' = Readable /\ Wanted' = Wanted
  BY WantedKept DEF Next, Scanner
<1>10. at' \notin ReadSoFar
  BY <1>1, <1>4 DEF ReadSoFar, Precedes
<1>11. ReadSoFar' = IF at' \in Readable THEN ReadSoFar \cup {at'} ELSE ReadSoFar
  <2>1. ReadSoFar' = {line \in Readable : Precedes(line, at') \/ line = at'}
    BY <1>9 DEF ReadSoFar
  <2>2. ReadSoFar \subseteq Readable
    BY DEF ReadSoFar
  <2>. QED  BY <1>8, <2>1, <2>2
<1>12. totalLines' = IF at' \in Readable THEN totalLines + 1 ELSE totalLines
  BY <1>7 DEF ScanLine
<1>13. /\ IsFiniteSet(ReadSoFar') /\ Cardinality(ReadSoFar') = totalLines'
  BY <1>10, <1>11, <1>12, FS_AddElement DEF CountInv
<1>14. at' \in Wanted <=> at' \in Readable /\ totalLines >= skip
  <2>1. {other \in Readable : Precedes(other, at')} = ReadSoFar
    BY <1>8 DEF ReadSoFar
  <2>. QED  BY <2>1 DEF Wanted, CountInv
<1>15. totalLines \in Nat /\ skip \in Nat
  BY DEF TypeOK, InputOK
<1>16. scanner' = "sending" <=> at' \in Readable /\ totalLines + 1 > skip
  BY <1>2, <1>7, <1>15 DEF ScanLine, Skipped
<1>. QED  BY <1>2, <1>6, <1>10, <1>11, <1>13, <1>14, <1>15, <1>16

(* No readable line is between the end of a file and the next one.         *)
LEMMA ReadKept ==
  ASSUME TypeInv, CountInv, OpenNext
  PROVE  ReadSoFar' = ReadSoFar
<1>0. at[1] \in Nat /\ at[2] \in Nat /\ at = <<at[1], at[2]>> /\ scanner = "opening"
  BY AtParts DEF OpenNext, TypeInv, PlaceInv
<1>1. Readable' = Readable
  BY WantedKept DEF Next, Scanner
<1>2. CASE at' = at
  BY <1>1, <1>2 DEF ReadSoFar
<1>3. CASE at' = <<at[1] + 1, 0>>
  <2>1. at'[1] = at[1] + 1 /\ at'[2] = 0
    BY <1>3
  <2>2. ASSUME NEW line \in Readable
        PROVE  (Precedes(line, at') \/ line = at') <=> (Precedes(line, at) \/ line = at)
    <3>1. /\ line = <<line[1], line[2]>> /\ line[1] \in Nat /\ line[2] \in Nat /\ line[2] # 0
          /\ line[1] = at[1] => line[2] <= at[2]
      BY <1>0, ReadableParts DEF CountInv, TypeInv
    <3>. QED  BY <1>0, <2>1, <3>1 DEF Precedes
  <2>. QED  BY <1>1, <2>2 DEF ReadSoFar
<1>. QED  BY <1>2, <1>3 DEF OpenNext

LEMMA CountStep == TypeInv /\ CountInv /\ [Next]_vars => CountInv'
<1>. SUFFICES ASSUME TypeInv, CountInv, [Next]_vars PROVE CountInv'
  OBVIOUS
<1>1. files' = files /\ Readable' = Readable /\ Wanted' = Wanted
  BY WantedKept
<1>2. ASSUME UNCHANGED <<at, totalLines>>, scanner' = scanner \/ (scanner = "sending" /\ scanner' = "scanning")
      PROVE  CountInv'
  BY <1>1, <1>2 DEF CountInv, ReadSoFar
<1>. USE DEF scannerVars, unmarshVars, batchVars
<1>3. CASE OpenNext
  <2>0. at[1] \in Nat /\ at[2] \in Nat /\ Len(files) \in Nat /\ scanner = "opening" /\ totalLines' = totalLines
    BY <1>3, AtParts DEF OpenNext, TypeInv
  <2>1. CASE at[1] + 1 > Len(files)
    <3>1. at' = at /\ scanner' = "finished"
      BY <1>3, <2>0, <2>1 DEF OpenNext
    <3>2. at[1] = Len(files)
      <4>1. DOMAIN files = 1..Len(files)
        BY DEF TypeInv, InputOK
      <4>2. at[1] <= Len(files)
        BY <2>0, <4>1 DEF TypeInv, TypeOK, none
      <4>. QED  BY <2>0, <2>1, <4>2
    <3>. QED  BY <1>1, <2>0, <3>1, <3>2 DEF CountInv, ReadSoFar
  <2>2. CASE at[1] + 1 <= Len(files)
    <3>1. /\ at' = <<at[1] + 1, 0>>
          /\ \/ scanner' = "scanning" /\ files[at[1] + 1].ok
             \/ scanner' = "opening" /\ ~files[at[1] + 1].ok
      BY <1>3, <2>0, <2>2 DEF OpenNext, SkipsUnreadable
    <3>2. at'[1] = at[1] + 1 /\ at'[2] = 0
      BY <3>1
    <3>4. ReadSoFar' = ReadSoFar
      BY <1>3, ReadKept
    <3>5. scanner' = "opening" => \A line \in Readable : line[1] # at'[1]
      BY <3>1, <3>2, ReadableParts DEF TypeInv
    <3>6. \A l \in 1..at'[2] : files'[at'[1]].lines[l] # "long"
      BY <3>2
    <3>. QED  BY <1>1, <2>0, <3>1, <3>2, <3>4, <3>5, <3>6 DEF CountInv
  <2>. QED  BY <2>0, <2>1, <2>2
<1>4. CASE EndOfFile
  <2>1. scanner = "scanning" /\ scanner' = "opening" /\ UNCHANGED <<at, totalLines>> /\ Upcoming \in {"end", "long"}
    BY <1>4 DEF EndOfFile
  <2>2. /\ at[1] \in DOMAIN files /\ at[2] \in Nat /\ at[2] <= Len(files[at[1]].lines)
        /\ files[at[1]].lines \in Seq(LineKinds) /\ Len(files[at[1]].lines) \in Nat
    BY <2>1, AtParts DEF TypeInv, PlaceInv
  <2>3. ASSUME NEW line \in Readable, line[1] = at[1]
        PROVE  line[2] <= at[2]
    <3>1. /\ line[2] \in Nat /\ line[2] <= Len(files[at[1]].lines)
          /\ \A l \in 1..line[2] : files[at[1]].lines[l] # "long"
      BY <2>3, ReadableParts DEF TypeInv
    <3>2. CASE at[2] < Len(files[at[1]].lines)
      <4>1. files[at[1]].lines[at[2] + 1] \in {"end", "long"} /\ at[2] + 1 \in 1..Len(files[at[1]].lines)
        BY <2>1, <2>2, <3>2 DEF Upcoming
      <4>2. files[at[1]].lines[at[2] + 1] \in LineKinds
        BY <2>2, <4>1
      <4>3. files[at[1]].lines[at[2] + 1] = "long"
        BY <4>1, <4>2 DEF LineKinds
      <4>. QED  BY <2>2, <3>1, <4>3
    <3>. QED  BY <2>2, <3>1, <3>2
  <2>. QED  BY <1>1, <2>1, <2>3 DEF CountInv, ReadSoFar
<1>5. CASE ScanLine
  <2>1. scanner' \in {"scanning", "sending"}
    BY <1>5 DEF ScanLine
  <2>. QED  BY <1>1, <1>5, <2>1, ScanCounts DEF CountInv
<1>6. ASSUME NEW u \in Unmarshalers, Unmarshal(u) \/ UnmarshalerDone(u) \/ Batch(u)
      PROVE  CountInv'
  BY <1>2, <1>6 DEF Unmarshal, UnmarshalerDone, Batch
<1>7. CASE CloseMapped \/ BatcherEnds \/ CloseBatches \/ Receive \/ UNCHANGED vars
  BY <1>2, <1>7 DEF CloseMapped, BatcherEnds, CloseBatches, Receive, vars
<1>. QED  BY <1>3, <1>4, <1>5, <1>6, <1>7 DEF Next, Scanner, Unmarshaler

-----------------------------------------------------------------------------
(* Closing.                                                                *)

LEMMA ClosingStep == TypeInv /\ ClosingInv /\ [Next]_vars => ClosingInv'
<1>. SUFFICES ASSUME TypeInv, ClosingInv, [Next]_vars PROVE ClosingInv'
  OBVIOUS
<1>1. Unmarshalers' = Unmarshalers /\ Lines' = Lines /\ none \notin Lines
  BY WantedKept, NoneIsNoLine DEF TypeInv
<1>2. ASSUME UNCHANGED <<holds, unmarshaler, mappedClosed>>,
             scanner' = scanner \/ scanner # "finished",
             batcher' \in {"last", "closing", "closed"} => mappedClosed
      PROVE  ClosingInv'
  BY <1>1, <1>2 DEF ClosingInv, AllDone
<1>. USE DEF scannerVars, unmarshVars, batchVars
<1>3. CASE Scanner
  BY <1>2, <1>3 DEF Scanner, OpenNext, EndOfFile, ScanLine, ClosingInv
<1>4. ASSUME NEW u \in Unmarshalers, Unmarshal(u)
      PROVE  ClosingInv'
  <2>1. /\ scanner = "sending" /\ scanner' = "scanning"
        /\ UNCHANGED <<mappedClosed, batcher>>
        /\ \/ UNCHANGED <<holds, unmarshaler>>
           \/ /\ holds' = [holds EXCEPT ![u] = at]
              /\ unmarshaler' = [unmarshaler EXCEPT ![u] = "sending"]
    BY <1>4 DEF Unmarshal
  <2>2. ~mappedClosed
    BY <1>4, <2>1 DEF ClosingInv, AllDone
  <2>. QED  BY <1>1, <2>1, <2>2 DEF ClosingInv, TypeInv, TypeOK
<1>5. ASSUME NEW u \in Unmarshalers, UnmarshalerDone(u)
      PROVE  ClosingInv'
  BY <1>1, <1>5 DEF UnmarshalerDone, ClosingInv, AllDone, TypeInv, TypeOK
<1>6. ASSUME NEW u \in Unmarshalers, Batch(u)
      PROVE  ClosingInv'
  <2>1. /\ unmarshaler[u] = "sending" /\ batcher' \in {"receiving", "flushing"}
        /\ holds' = [holds EXCEPT ![u] = none]
        /\ unmarshaler' = [unmarshaler EXCEPT ![u] = "receiving"]
        /\ UNCHANGED <<scanner, mappedClosed>>
    BY <1>6 DEF Batch
  <2>2. ~mappedClosed
    BY <2>1 DEF ClosingInv, AllDone
  <2>. QED  BY <1>1, <2>1, <2>2 DEF ClosingInv, TypeInv, TypeOK
<1>7. CASE CloseMapped
  BY <1>1, <1>7 DEF CloseMapped, ClosingInv, AllDone
<1>8. CASE BatcherEnds \/ CloseBatches \/ Receive \/ UNCHANGED vars
  BY <1>2, <1>8 DEF BatcherEnds, CloseBatches, Receive, vars, ClosingInv
<1>. QED  BY <1>3, <1>4, <1>5, <1>6, <1>7, <1>8 DEF Next, Unmarshaler

-----------------------------------------------------------------------------
(* Where lines go.                                                         *)

(* An unmarshaler takes the line that was read, or rejects it.             *)
LEMMA UnmarshalMoves ==
  ASSUME TypeInv, ClosingInv, NEW u \in Unmarshalers, Unmarshal(u)
  PROVE  /\ UNCHANGED <<at, batch, delivered>> /\ scanner = "sending" /\ scanner' = "scanning"
         /\ \/ /\ rejected' = rejected \cup {at}
               /\ \A line \in Lines : Held(line)' <=> Held(line)
            \/ /\ rejected' = rejected
               /\ \A line \in Lines : Held(line)' <=> Held(line) \/ line = at
<1>1. Unmarshalers' = Unmarshalers /\ Lines' = Lines
  BY WantedKept DEF Next, Unmarshaler
<1>2. /\ UNCHANGED <<at, batch, delivered>> /\ scanner = "sending" /\ scanner' = "scanning"
      /\ unmarshaler[u] = "receiving"
      /\ \/ rejected' = rejected \cup {at} /\ UNCHANGED holds
         \/ rejected' = rejected /\ holds' = [holds EXCEPT ![u] = at]
  BY DEF Unmarshal, batchVars
<1>3. holds[u] \notin Lines
  BY <1>2 DEF ClosingInv
<1>4. CASE holds' = [holds EXCEPT ![u] = at] /\ rejected' = rejected
  <2>1. \A v \in Unmarshalers : holds'[v] = IF v = u THEN at ELSE holds[v]
    BY <1>4 DEF TypeInv, TypeOK
  <2>. QED  BY <1>1, <1>2, <1>3, <1>4, <2>1 DEF Held
<1>5. CASE rejected' = rejected \cup {at} /\ UNCHANGED holds
  BY <1>1, <1>2, <1>5 DEF Held
<1>. QED  BY <1>2, <1>4, <1>5

(* The batcher takes a line out of an unmarshaler's hand.                  *)
LEMMA BatchMoves ==
  ASSUME TypeInv, OnePlace, NEW u \in Unmarshalers, Batch(u)
  PROVE  /\ UNCHANGED <<at, scanner, delivered, rejected>>
         /\ holds[u] \in Lines /\ ~Batched(holds[u])
         /\ \A line \in Lines : /\ Held(line)' <=> Held(line) /\ line # holds[u]
                                /\ Batched(line)' <=> Batched(line) \/ line = holds[u]
         /\ ToSet(batch') = ToSet(batch) \cup {holds[u]}
         /\ Len(batch') = Len(batch) + 1
<1>1. Unmarshalers' = Unmarshalers /\ Lines' = Lines /\ none \notin Lines
  BY WantedKept, NoneIsNoLine DEF TypeInv, Next, Unmarshaler
<1>2. holds[u] \in Lines /\ batch \in Seq(Lines)
  BY DEF Batch, TypeInv, PlaceInv, TypeOK
<1>3. batch' = Append(batch, holds[u]) /\ UNCHANGED <<at, scanner, delivered, rejected>>
  BY DEF Batch, scannerVars
<1>4. \A v \in Unmarshalers : holds'[v] = IF v = u THEN none ELSE holds[v]
  BY DEF Batch, TypeInv, TypeOK
<1>5. ToSet(batch') = ToSet(batch) \cup {holds[u]} /\ Len(batch') = Len(batch) + 1
  BY <1>2, <1>3, AppendSet
<1>6. ASSUME NEW line \in Lines
      PROVE  Held(line)' <=> Held(line) /\ line # holds[u]
  BY <1>1, <1>2, <1>4 DEF Held, OnePlace
<1>. QED  BY <1>2, <1>3, <1>5, <1>6 DEF Batched, OnePlace

LEMMA AccountStep ==
  TypeInv /\ OnePlace /\ CountInv /\ ClosingInv /\ AccountInv /\ [Next]_vars => AccountInv'
<1>. SUFFICES ASSUME TypeInv, OnePlace, CountInv, ClosingInv, AccountInv, [Next]_vars PROVE AccountInv'
  OBVIOUS
<1>1. Unmarshalers' = Unmarshalers /\ Lines' = Lines /\ Readable' = Readable /\ Wanted' = Wanted
  BY WantedKept
<1>2. Wanted \subseteq Readable /\ Readable \subseteq Lines
  BY DEF Wanted, Readable
<1>3. ASSUME UNCHANGED <<holds, batch, delivered, rejected>>,
             \A line \in Lines : Passed(line) => Passed(line)',
             \A line \in Wanted : Passed(line)' => Passed(line)
      PROVE  AccountInv'
  <2>1. \A line : /\ Held(line)' <=> Held(line)
                  /\ Batched(line)' <=> Batched(line)
                  /\ Gone(line)' <=> Gone(line)
    BY <1>1, <1>3 DEF Held, Batched, Gone
  <2>. QED  BY <1>1, <1>2, <1>3, <2>1 DEF AccountInv, Placed
<1>4. ASSUME UNCHANGED <<holds, batch, delivered, rejected, at, scanner>>
      PROVE  AccountInv'
  BY <1>3, <1>4 DEF Passed
<1>5. CASE Scanner
  <2>1. UNCHANGED <<holds, batch, delivered, rejected>>
    BY <1>5 DEF Scanner, OpenNext, EndOfFile, ScanLine, unmarshVars, batchVars
  <2>2. ASSUME NEW line \in Wanted, Passed(line)'
        PROVE  Passed(line)
    <3>1. /\ line = <<line[1], line[2]>> /\ line[1] \in Nat /\ line[2] \in Nat /\ line[2] # 0
          /\ line \in Readable
      BY <1>2, ReadableParts DEF TypeInv
    <3>2. at = <<at[1], at[2]>> /\ at[1] \in Nat /\ at[2] \in Nat
      BY AtParts DEF TypeInv, PlaceInv
    <3>3. Precedes(line, at') \/ (line = at' /\ scanner' # "sending")
      BY <2>2 DEF Passed
    <3>4. CASE OpenNext
      <4>1. scanner = "opening" /\ (at' = at \/ (at'[1] = at[1] + 1 /\ at'[2] = 0))
        BY <3>4 DEF OpenNext
      <4>2. line[1] = at[1] => line[2] <= at[2]
        BY <3>1, <4>1 DEF CountInv
      <4>. QED  BY <3>1, <3>2, <3>3, <4>1, <4>2 DEF Passed, Precedes
    <3>5. CASE EndOfFile
      BY <3>3, <3>5 DEF EndOfFile, Passed
    <3>6. CASE ScanLine
      <4>1. at'[1] = at[1] /\ at'[2] = at[2] + 1 /\ scanner = "scanning"
        BY <3>6 DEF ScanLine
      <4>2. line # at' \/ scanner' = "sending"
        BY <3>6, ScanCounts
      <4>. QED  BY <3>1, <3>2, <3>3, <4>1, <4>2 DEF Passed, Precedes
    <3>. QED  BY <1>5, <3>4, <3>5, <3>6 DEF Scanner
  <2>. QED  BY <1>3, <1>5, <2>1, <2>2, PassedStays DEF Scanner
<1>6. ASSUME NEW u \in Unmarshalers, Unmarshal(u)
      PROVE  AccountInv'
  <2>1. /\ UNCHANGED <<at, batch, delivered>> /\ scanner = "sending" /\ scanner' = "scanning"
        /\ \/ /\ rejected' = rejected \cup {at}
              /\ \A line \in Lines : Held(line)' <=> Held(line)
           \/ /\ rejected' = rejected
              /\ \A line \in Lines : Held(line)' <=> Held(line) \/ line = at
    BY <1>6, UnmarshalMoves
  <2>2. at \in Wanted /\ at \in Lines /\ at[1] \in Nat /\ at[2] \in Nat /\ rejected \subseteq Lines
    BY <1>2, <2>1, AtParts DEF CountInv, TypeInv, TypeOK
  <2>3. ~Passed(at) /\ ~Placed(at)
    BY <2>1, <2>2 DEF Passed, Precedes, AccountInv
  <2>4. \A line \in Lines : Passed(line)' <=> Passed(line) \/ line = at
    BY <2>1 DEF Passed
  <2>5. \A line : /\ Batched(line)' <=> Batched(line)
                  /\ Gone(line)' <=> Gone(line)
    BY <2>1 DEF Batched, Gone
  <2>6. \A line \in Lines : Placed(line)' <=> Placed(line) \/ line = at
    BY <2>1, <2>5 DEF Placed
  <2>7. \A line \in rejected' : ~Held(line)' /\ ~Batched(line)' /\ ~Gone(line)'
    BY <2>1, <2>2, <2>3, <2>5 DEF Placed, AccountInv
  <2>8. \A line \in Lines : Placed(line)' => line \in Wanted /\ Passed(line)'
    BY <2>2, <2>4, <2>6 DEF AccountInv
  <2>9. \A line \in Wanted : Passed(line)' => Placed(line)'
    BY <1>2, <2>4, <2>6 DEF AccountInv
  <2>. QED  BY <1>1, <2>1, <2>7, <2>8, <2>9 DEF AccountInv
<1>7. ASSUME NEW u \in Unmarshalers, UnmarshalerDone(u)
      PROVE  AccountInv'
  BY <1>4, <1>7 DEF UnmarshalerDone, scannerVars, batchVars
<1>8. ASSUME NEW u \in Unmarshalers, Batch(u)
      PROVE  AccountInv'
  <2>. DEFINE x == holds[u]
  <2>1. /\ UNCHANGED <<at, scanner, delivered, rejected>>
        /\ x \in Lines /\ ~Batched(x)
        /\ \A line \in Lines : /\ Held(line)' <=> Held(line) /\ line # x
                               /\ Batched(line)' <=> Batched(line) \/ line = x
        /\ ToSet(batch') = ToSet(batch) \cup {x}
        /\ Len(batch') = Len(batch) + 1
    BY <1>8, BatchMoves
  <2>2. Held(x)
    BY DEF Held
  <2>. HIDE DEF x
  <2>3. \A line \in Lines : /\ Gone(line)' <=> Gone(line)
                            /\ Passed(line)' <=> Passed(line)
    BY <2>1 DEF Gone, Passed
  <2>4. \A line \in Lines : Placed(line)' <=> Placed(line)
    BY <2>1, <2>2, <2>3 DEF Placed
  <2>5. rejected \subseteq Lines
    BY DEF TypeInv, TypeOK
  <2>6. \A line \in rejected : ~Held(line)' /\ ~Batched(line)' /\ ~Gone(line)'
    BY <2>1, <2>2, <2>3, <2>5 DEF AccountInv
  <2>7. IsFiniteSet(ToSet(batch')) /\ Cardinality(ToSet(batch')) = Len(batch')
    <3>1. IsFiniteSet(ToSet(batch)) /\ Cardinality(ToSet(batch)) = Len(batch) /\ x \notin ToSet(batch)
      BY <2>1 DEF AccountInv, Batched
    <3>2. /\ IsFiniteSet(ToSet(batch) \cup {x})
          /\ Cardinality(ToSet(batch) \cup {x}) = Cardinality(ToSet(batch)) + 1
      BY <3>1, FS_AddElement
    <3>. QED  BY <2>1, <3>1, <3>2
  <2>. QED  BY <1>1, <1>2, <2>1, <2>3, <2>4, <2>6, <2>7 DEF AccountInv
<1>9. CASE CloseMapped \/ BatcherEnds \/ CloseBatches
  BY <1>4, <1>9 DEF CloseMapped, BatcherEnds, CloseBatches, scannerVars, unmarshVars, batchVars
<1>10. CASE Receive
  <2>1. batch' = <<>> /\ UNCHANGED <<at, scanner, holds, rejected>>
    BY <1>10 DEF Receive, scannerVars, unmarshVars
  <2>2. ToSet(batch') = {} /\ IsFiniteSet({}) /\ Cardinality({}) = 0 /\ Len(batch') = 0
    BY <2>1, FS_EmptySet DEF ToSet
  <2>3. \A line \in Lines : /\ Held(line)' <=> Held(line)
                            /\ Passed(line)' <=> Passed(line)
                            /\ ~Batched(line)'
                            /\ Gone(line)' <=> Gone(line) \/ Batched(line)
    BY <1>1, <1>10, <2>1, <2>2, ReceivedGone DEF Held, Passed, Batched
  <2>4. \A line \in Lines : Placed(line)' <=> Placed(line)
    BY <2>1, <2>3 DEF Placed
  <2>5. rejected \subseteq Lines
    BY DEF TypeInv, TypeOK
  <2>. QED  BY <1>1, <1>2, <2>1, <2>2, <2>3, <2>4, <2>5 DEF AccountInv
<1>11. CASE UNCHANGED vars
  BY <1>4, <1>11 DEF vars, scannerVars, unmarshVars, batchVars
<1>. QED
  BY <1>5, <1>6, <1>7, <1>8, <1>9, <1>10, <1>11 DEF Next, Unmarshaler

-----------------------------------------------------------------------------
(* Refinement.                                                             *)

(* When the last channel is about to be closed every wanted line is        *)
(* delivered or rejected.                                                  *)
LEMMA NothingLeft ==
  ASSUME TypeInv, CountInv, ClosingInv, AccountInv, batcher \in {"closing", "closed"}
  PROVE  (Wanted \ Received) \ rejected = {}
<1>. SUFFICES ASSUME NEW line \in Wanted PROVE line \in Received \/ line \in rejected
  OBVIOUS
<1>1. line \in Readable
  BY DEF Wanted
<1>2. AllDone
  BY DEF ClosingInv
<1>3. \A u \in Unmarshalers : holds[u] \notin Lines
  BY <1>2 DEF AllDone, ClosingInv
<1>4. 1 \in Unmarshalers
  BY DEF TypeInv, InputOK, Unmarshalers
<1>5. scanner = "finished"
  BY <1>2, <1>4 DEF AllDone, ClosingInv
<1>6. Passed(line)
  <2>1. /\ line = <<line[1], line[2]>> /\ line[1] \in 1..Len(files) /\ line[2] \in Nat
        /\ line[1] = at[1] => line[2] <= at[2]
    BY <1>1, <1>5, ReadableParts DEF CountInv, TypeInv
  <2>2. at = <<at[1], at[2]>> /\ at[1] = Len(files) /\ at[2] \in Nat /\ Len(files) \in Nat
    BY <1>5, AtParts DEF CountInv, TypeInv, PlaceInv
  <2>. QED  BY <1>5, <2>1, <2>2 DEF Passed, Precedes
<1>7. ~Held(line) /\ ~Batched(line)
  BY <1>1, <1>3 DEF Held, Batched, Readable, TypeInv, PlaceInv, ToSet
<1>. QED  BY <1>6, <1>7 DEF AccountInv, Placed, Gone, Received

LEMMA DeliveryStep ==
  TypeInv /\ OnePlace /\ CountInv /\ ClosingInv /\ AccountInv /\ [Next]_vars
    => [Delivery!Next]_(Delivery!deliveryVars)
<1>. SUFFICES ASSUME TypeInv, OnePlace, CountInv, ClosingInv, AccountInv, [Next]_vars
              PROVE  [Delivery!Next]_(Delivery!deliveryVars)
  OBVIOUS
<1>. DEFINE pending == (Wanted \ Received) \ rejected
            closed  == batcher = "closed"
<1>1. Wanted' = Wanted /\ Wanted \subseteq Lines
  BY WantedKept DEF Wanted, Readable
<1>2. ASSUME UNCHANGED <<delivered, rejected>>, closed' = closed
      PROVE  [Delivery!Next]_(Delivery!deliveryVars)
  BY <1>1, <1>2 DEF Delivery!deliveryVars, Received
<1>. USE DEF scannerVars, unmarshVars, batchVars
<1>3. CASE Scanner
  BY <1>2, <1>3 DEF Scanner, OpenNext, EndOfFile, ScanLine
<1>4. ASSUME NEW u \in Unmarshalers, Unmarshal(u)
      PROVE  [Delivery!Next]_(Delivery!deliveryVars)
  <2>1. /\ scanner = "sending" /\ batcher' = batcher /\ delivered' = delivered
        /\ rejected' = rejected \/ rejected' = rejected \cup {at}
    BY <1>4 DEF Unmarshal
  <2>2. ~closed
    BY <1>4, <2>1 DEF ClosingInv, AllDone
  <2>3. at \in Wanted /\ at \in Lines /\ at[1] \in Nat /\ at[2] \in Nat
    BY <1>1, <2>1, AtParts DEF CountInv, TypeInv
  <2>4. ~Placed(at)
    BY <2>1, <2>3 DEF AccountInv, Passed, Precedes
  <2>5. at \in pending
    BY <2>3, <2>4 DEF Placed, Gone, Received
  <2>6. CASE rejected' = rejected
    BY <1>2, <2>1, <2>6
  <2>7. CASE rejected' = rejected \cup {at}
    <3>1. pending' = pending \ {at} /\ closed' = closed
      BY <1>1, <2>1, <2>7 DEF Received
    <3>2. Delivery!Reject(at)
      BY <2>7, <3>1 DEF Delivery!Reject
    <3>. QED  BY <2>2, <2>5, <3>2 DEF Delivery!Next
  <2>. QED  BY <2>1, <2>6, <2>7
<1>5. ASSUME NEW u \in Unmarshalers, UnmarshalerDone(u)
      PROVE  [Delivery!Next]_(Delivery!deliveryVars)
  BY <1>2, <1>5 DEF UnmarshalerDone
<1>6. ASSUME NEW u \in Unmarshalers, Batch(u)
      PROVE  [Delivery!Next]_(Delivery!deliveryVars)
  <2>1. UNCHANGED <<delivered, rejected>> /\ batcher # "closed" /\ batcher' # "closed"
    BY <1>6 DEF Batch
  <2>. QED  BY <1>2, <2>1
<1>7. CASE CloseMapped \/ UNCHANGED vars
  BY <1>2, <1>7 DEF CloseMapped, vars
<1>8. CASE BatcherEnds
  <2>1. UNCHANGED <<delivered, rejected>> /\ batcher # "closed" /\ batcher' # "closed"
    BY <1>8 DEF BatcherEnds, LastBatch
  <2>. QED  BY <1>2, <2>1
<1>9. CASE CloseBatches
  <2>1. batcher = "closing" /\ batcher' = "closed" /\ UNCHANGED <<delivered, rejected>>
    BY <1>9 DEF CloseBatches
  <2>2. pending = {} /\ pending' = pending /\ closed'
    BY <1>1, <2>1, NothingLeft DEF Received
  <2>. QED  BY <2>1, <2>2 DEF Delivery!Next, Delivery!Close
<1>10. CASE Receive
  <2>1. /\ batcher \in {"flushing", "last"} /\ ~closed /\ ~closed'
        /\ rejected' = rejected /\ batch \in Seq(Lines) /\ Len(batch) <= BatchSize
    BY <1>10 DEF Receive, TypeInv, TypeOK
  <2>2. batch # <<>>
    BY <2>1 DEF TypeInv, InputOK, PlaceInv
  <2>3. ToSet(batch) # {} /\ ToSet(batch) \subseteq Lines /\ Cardinality(ToSet(batch)) <= BatchSize
    <3>1. 1 \in DOMAIN batch
      BY <2>1, <2>2
    <3>. QED  BY <2>1, <3>1 DEF AccountInv, ToSet
  <2>4. ToSet(batch) \subseteq pending
    <3>. SUFFICES ASSUME NEW line \in ToSet(batch) PROVE line \in pending
      OBVIOUS
    <3>1. line \in Lines /\ Batched(line) /\ ~Gone(line)
      BY <2>3 DEF Batched, OnePlace
    <3>2. line \in Wanted /\ line \notin rejected
      BY <3>1 DEF AccountInv, Placed
    <3>. QED  BY <3>1, <3>2 DEF Gone, Received
  <2>5. Received' = Received \cup ToSet(batch)
    <3>1. \A line : line \in Received <=> Gone(line)
      BY DEF Received, Gone
    <3>2. \A line : line \in Received' <=> Gone(line)'
      BY DEF Received, Gone
    <3>. QED  BY <1>10, <3>1, <3>2, ReceivedGone DEF Batched
  <2>6. pending' = pending \ ToSet(batch)
    BY <1>1, <2>1, <2>5
  <2>7. UNCHANGED <<rejected, closed>>
    <3>1. closed' = closed
      BY <2>1
    <3>. QED  BY <2>1, <3>1
  <2>. HIDE DEF pending, closed
  <2>8. Delivery!Deliver(ToSet(batch))
    <3>1. Delivery!Cardinality(ToSet(batch)) = Cardinality(ToSet(batch))
      BY DEF Delivery!Cardinality, Cardinality
    <3>. QED  BY <2>3, <2>6, <2>7, <3>1 DEF Delivery!Deliver, pending, closed
  <2>. QED  BY <2>1, <2>4, <2>8 DEF Delivery!Next, pending, closed
<1>. QED
  BY <1>3, <1>4, <1>5, <1>6, <1>7, <1>8, <1>9, <1>10 DEF Next, Unmarshaler

-----------------------------------------------------------------------------
(* The Results.                                                            *)

WantedSoFar == Wanted \cap ReadSoFar

LessSkipped(n) == IF n > skip THEN n - skip ELSE 0

(* The Results count what totalLines counts, and all but the first skip of *)
(* these lines are wanted.                                                 *)
ResultsInv ==
  /\ IsFiniteSet(Counted) /\ Cardinality(Counted) = totalLines
  /\ IsFiniteSet(WantedSoFar) /\ Cardinality(WantedSoFar) = LessSkipped(totalLines)

LEMMA IsCounted ==
  ASSUME NEW i, NEW n
  PROVE  <<i, n>> \in Counted <=> i \in DOMAIN results /\ n \in 1..results[i]
BY DEF Counted

LEMMA CountedPairs ==
  ASSUME NEW x \in Counted
  PROVE  x = <<x[1], x[2]>> /\ x[1] \in DOMAIN results /\ x[2] \in 1..results[x[1]]
BY DEF Counted

(* A Result of a new file counts nothing yet.                              *)
LEMMA NewResultEmpty ==
  ASSUME TypeOK, results' = Append(results, 0)
  PROVE  Counted' = Counted
<1>1. /\ Len(results) \in Nat /\ DOMAIN results = 1..Len(results)
      /\ DOMAIN results' = 1..(Len(results) + 1)
      /\ \A i \in DOMAIN results : results'[i] = results[i]
      /\ results'[Len(results) + 1] = 0
  BY DEF TypeOK
<1>2. \A i : i \in DOMAIN results' <=> i \in DOMAIN results \/ i = Len(results) + 1
  BY <1>1
<1>3. 1..0 = {}
  OBVIOUS
<1>4. ASSUME NEW i, NEW n
      PROVE  <<i, n>> \in Counted' <=> <<i, n>> \in Counted
  BY <1>1, <1>2, <1>3 DEF Counted
<1>5. \A x : x \in Counted' => x = <<x[1], x[2]>>
  BY DEF Counted
<1>6. \A x : x \in Counted => x = <<x[1], x[2]>>
  BY DEF Counted
<1>. QED  BY <1>4, <1>5, <1>6

(* A line more in the last Result is one line more.                        *)
LEMMA LastResultCounts ==
  ASSUME TypeOK, results # <<>>, results' = [results EXCEPT ![Len(results)] = @ + 1]
  PROVE  \E x : x \notin Counted /\ Counted' = Counted \cup {x}
<1>. DEFINE k == Len(results)
            c == results[k]
            x == <<k, c + 1>>
<1>1. k \in DOMAIN results /\ c \in Nat
  BY DEF TypeOK
<1>2. /\ DOMAIN results' = DOMAIN results
      /\ results'[k] = c + 1
      /\ \A i \in DOMAIN results : i # k => results'[i] = results[i]
  BY <1>1
<1>3. \A n : n \in 1..(c + 1) <=> n \in 1..c \/ n = c + 1
  BY <1>1
<1>4. c + 1 \notin 1..c
  BY <1>1
<1>. HIDE DEF k
<1>5. results[k] = c
  OBVIOUS
<1>. HIDE DEF c
<1>6. x \notin Counted
  BY <1>4, <1>5, IsCounted
<1>7. ASSUME NEW i, NEW n
      PROVE  <<i, n>> \in Counted' <=> <<i, n>> \in Counted \/ <<i, n>> = x
  <2>1. <<i, n>> \in Counted' <=> i \in DOMAIN results' /\ n \in 1..results'[i]
    BY DEF Counted
  <2>2. <<i, n>> \in Counted <=> i \in DOMAIN results /\ n \in 1..results[i]
    BY IsCounted
  <2>3. CASE i = k
    BY <1>1, <1>2, <1>3, <1>5, <2>1, <2>2, <2>3
  <2>4. CASE i # k
    BY <1>2, <2>1, <2>2, <2>4
  <2>. QED  BY <2>3, <2>4
<1>8. \A y : y \in Counted' => y = <<y[1], y[2]>>
  BY DEF Counted
<1>9. \A y : y \in Counted => y = <<y[1], y[2]>>
  BY DEF Counted
<1>10. Counted' = Counted \cup {x}
  BY <1>7, <1>8, <1>9
<1>. QED  BY <1>6, <1>10

LEMMA ResultsStep == TypeInv /\ CountInv /\ ResultsInv /\ [Next]_vars => ResultsInv'
<1>. SUFFICES ASSUME TypeInv, CountInv, ResultsInv, [Next]_vars PROVE ResultsInv'
  OBVIOUS
<1>1. Readable' = Readable /\ Wanted' = Wanted /\ skip' = skip
  BY WantedKept
<1>2. ASSUME UNCHANGED totalLines, Counted' = Counted, ReadSoFar' = ReadSoFar
      PROVE  ResultsInv'
  BY <1>1, <1>2 DEF ResultsInv, WantedSoFar, LessSkipped
<1>3. ASSUME UNCHANGED <<totalLines, results, at>>
      PROVE  ResultsInv'
  <2>1. Counted' = Counted /\ ReadSoFar' = ReadSoFar
    BY <1>1, <1>3 DEF Counted, ReadSoFar
  <2>. QED  BY <1>2, <1>3, <2>1
<1>4. CASE OpenNext
  <2>1. Counted' = Counted
    <3>1. results' = results \/ results' = Append(results, 0)
      BY <1>4 DEF OpenNext
    <3>2. results' = results => Counted' = Counted
      BY DEF Counted
    <3>. QED  BY <3>1, <3>2, NewResultEmpty DEF TypeInv
  <2>2. UNCHANGED totalLines
    BY <1>4 DEF OpenNext
  <2>. QED  BY <1>2, <1>4, <2>1, <2>2, ReadKept
<1>5. CASE ScanLine
  <2>1. /\ at' \notin ReadSoFar
        /\ ReadSoFar' = IF at' \in Readable THEN ReadSoFar \cup {at'} ELSE ReadSoFar
        /\ at' \in Wanted <=> scanner' = "sending"
    BY <1>5, ScanCounts
  <2>2. totalLines \in Nat /\ skip \in Nat /\ results # <<>> /\ scanner = "scanning"
    BY <1>5 DEF ScanLine, TypeInv, TypeOK, InputOK, PlaceInv
  <2>3. Wanted \subseteq Readable
    BY DEF Wanted
  <2>4. WantedSoFar' = IF at' \in Wanted THEN WantedSoFar \cup {at'} ELSE WantedSoFar
    BY <1>1, <2>1, <2>3 DEF WantedSoFar
  <2>5. at' \notin WantedSoFar
    BY <2>1 DEF WantedSoFar
  <2>6. CASE Upcoming = "empty"
    <3>1. UNCHANGED <<scanner, totalLines, results>>
      BY <1>5, <2>6 DEF ScanLine
    <3>2. WantedSoFar' = WantedSoFar /\ Counted' = Counted
      BY <2>1, <2>2, <2>4, <3>1 DEF Counted
    <3>. QED  BY <1>1, <3>1, <3>2 DEF ResultsInv, LessSkipped
  <2>7. CASE Upcoming # "empty"
    <3>1. /\ totalLines' = totalLines + 1
          /\ results' = [results EXCEPT ![Len(results)] = @ + 1]
          /\ scanner' = "sending" <=> totalLines + 1 > skip
      BY <1>5, <2>2, <2>7 DEF ScanLine, Skipped
    <3>2. IsFiniteSet(Counted') /\ Cardinality(Counted') = totalLines'
      <4>1. PICK x : x \notin Counted /\ Counted' = Counted \cup {x}
        BY <2>2, <3>1, LastResultCounts DEF TypeInv
      <4>. QED  BY <3>1, <4>1, FS_AddElement DEF ResultsInv
    <3>3. CASE totalLines + 1 > skip
      <4>1. WantedSoFar' = WantedSoFar \cup {at'}
        BY <2>1, <2>4, <3>1, <3>3
      <4>2. /\ IsFiniteSet(WantedSoFar')
            /\ Cardinality(WantedSoFar') = LessSkipped(totalLines) + 1
        BY <2>5, <4>1, FS_AddElement DEF ResultsInv
      <4>3. LessSkipped(totalLines)' = LessSkipped(totalLines) + 1
        BY <1>1, <2>2, <3>1, <3>3 DEF LessSkipped
      <4>. QED  BY <3>2, <4>2, <4>3 DEF ResultsInv
    <3>4. CASE ~(totalLines + 1 > skip)
      <4>1. WantedSoFar' = WantedSoFar
        BY <2>1, <2>4, <3>1, <3>4
      <4>2. LessSkipped(totalLines)' = LessSkipped(totalLines)
        BY <1>1, <2>2, <3>1, <3>4 DEF LessSkipped
      <4>. QED  BY <3>2, <4>1, <4>2 DEF ResultsInv
    <3>. QED  BY <3>3, <3>4
  <2>. QED  BY <2>6, <2>7
<1>6. CASE EndOfFile
  BY <1>3, <1>6 DEF EndOfFile
<1>7. ASSUME NEW u \in Unmarshalers, Unmarshal(u) \/ UnmarshalerDone(u) \/ Batch(u)
      PROVE  ResultsInv'
  BY <1>3, <1>7 DEF Unmarshal, UnmarshalerDone, Batch, scannerVars
<1>8. CASE CloseMapped \/ BatcherEnds \/ CloseBatches \/ Receive \/ UNCHANGED vars
  BY <1>3, <1>8 DEF CloseMapped, BatcherEnds, CloseBatches, Receive, vars, scannerVars
<1>. QED  BY <1>4, <1>5, <1>6, <1>7, <1>8 DEF Next, Scanner, Unmarshaler

(* At the end all wanted lines are read, and they are the received and the *)
(* rejected ones.                                                          *)
LEMMA AccountsAtEnd ==
  ASSUME TypeInv, CountInv, ClosingInv, AccountInv, ResultsInv
  PROVE  ResultsAccount
<1>. SUFFICES ASSUME batcher = "closed"
              PROVE  Cardinality(Received) + Cardinality(rejected) = LessSkipped(totalLines)
  BY DEF ResultsAccount, LessSkipped, ResultsInv
<1>1. \A line \in Lines : line \in Received \/ line \in rejected => line \in Wanted /\ Passed(line)
  BY DEF AccountInv, Placed, Gone, Received
<1>2. Received \subseteq Lines /\ rejected \subseteq Lines
  <2>1. \A i \in DOMAIN delivered : delivered[i] \in Seq(Lines)
    BY DEF TypeInv, TypeOK
  <2>2. \A i \in DOMAIN delivered : ToSet(delivered[i]) \subseteq Lines
    BY <2>1 DEF ToSet
  <2>. QED  BY <2>2 DEF Received, TypeInv, TypeOK
<1>3. Wanted = Received \cup rejected
  BY <1>1, <1>2, NothingLeft
<1>4. Received \cap rejected = {}
  BY DEF AccountInv, Gone, Received
<1>5. Wanted = WantedSoFar
  <2>1. Wanted \subseteq Readable
    BY DEF Wanted
  <2>2. \A line \in Wanted : Precedes(line, at) \/ line = at
    BY <1>1, <1>2, <1>3 DEF Passed
  <2>. QED  BY <2>1, <2>2 DEF WantedSoFar, ReadSoFar
<1>6. IsFiniteSet(Wanted) /\ Cardinality(Wanted) = LessSkipped(totalLines)
  BY <1>5 DEF ResultsInv
<1>7. IsFiniteSet(Received) /\ IsFiniteSet(rejected)
  BY <1>3, <1>6, FS_Subset
<1>8. Cardinality(Received \cup rejected)
        = Cardinality(Received) + Cardinality(rejected) - Cardinality(Received \cap rejected)
  BY <1>7, FS_Union
<1>9. Cardinality(Received) \in Nat /\ Cardinality(rejected) \in Nat
  BY <1>7, FS_CardinalityType
<1>. QED  BY <1>3, <1>4, <1>6, <1>8, <1>9, FS_EmptySet

LEMMA AccountingInit ==
  PipelineAssumption /\ Init => OnePlace /\ CountInv /\ ClosingInv /\ AccountInv /\ ResultsInv
<1>. SUFFICES ASSUME PipelineAssumption, Init
              PROVE  OnePlace /\ CountInv /\ ClosingInv /\ AccountInv /\ ResultsInv
  OBVIOUS
<1>1. TypeInv
  BY TypeInit
<1>2. /\ batch = <<>> /\ delivered = <<>> /\ rejected = {} /\ at[1] = 0 /\ scanner = "opening"
      /\ \A u \in Unmarshalers : holds[u] = none /\ unmarshaler[u] = "receiving"
      /\ none \notin Lines /\ ~mappedClosed /\ batcher = "receiving" /\ totalLines = 0
        /\ results = <<>>
  BY <1>1, NoneIsNoLine DEF Init, TypeInv, none
<1>3. ToSet(batch) = {} /\ IsInjective(batch) /\ DOMAIN delivered = {} /\ Len(batch) = 0
  BY <1>2 DEF ToSet, IsInjective
<1>4. \A line \in Readable : line \in Lines /\ line[1] \in Nat /\ line[1] # 0
  BY <1>1, LineParts DEF Readable, TypeInv
<1>5. ReadSoFar = {}
  BY <1>2, <1>4 DEF ReadSoFar, Precedes
<1>6. \A line \in Lines : ~Held(line) /\ ~Batched(line) /\ ~Gone(line)
  BY <1>2, <1>3 DEF Held, Batched, Gone
<1>7. \A line \in Wanted : ~Passed(line)
  BY <1>2, <1>4 DEF Wanted, Passed, Precedes
<1>8. ResultsInv
  <2>1. Counted = {} /\ WantedSoFar = {}
    BY <1>2, <1>5 DEF Counted, WantedSoFar
  <2>2. skip \in Nat
    BY <1>1 DEF TypeInv, InputOK
  <2>. QED  BY <1>2, <2>1, <2>2, FS_EmptySet DEF ResultsInv, LessSkipped
<1>. QED
  BY <1>2, <1>3, <1>4, <1>5, <1>6, <1>7, <1>8, FS_EmptySet
     DEF OnePlace, CountInv, ClosingInv, AccountInv, Placed

LEMMA Accounting ==
  PipelineAssumption /\ Spec
    => [](TypeInv /\ OnePlace /\ CountInv /\ ClosingInv /\ AccountInv /\ ResultsInv)
BY AccountingInit, TypeInit, TypeStep, PlaceStep, CountStep, ClosingStep, AccountStep, ResultsStep, PTL
   DEF Spec

(* The pipeline of resources/pipeline.go keeps the promise of LineDelivery *)
(* for any input: each line asked for comes in one batch or goes to the    *)
(* error handler, no other does, and the last channel is closed when none  *)
(* is left.                                                                *)
THEOREM PipelineDelivers == PipelineAssumption /\ Spec => DeliversLines
<1>1. Init => Delivery!Init
  BY DEF Init, Delivery!Init
<1>. QED  BY <1>1, Accounting, DeliveryStep, PTL DEF Spec, DeliversLines, Delivery!Spec

(* At the end the lines received and those given to the error handler are  *)
(* as many as the Results count less what Skip left out, and in between    *)
(* none is doubled (LineScanner.Run, JsonUnmarshaler.Map, Batcher.Map).    *)
THEOREM EveryLineAccounted == PipelineAssumption /\ Spec => []LinesAccounted
<1>1. TypeInv /\ CountInv /\ ClosingInv /\ AccountInv /\ ResultsInv => TypeOK /\ ResultsAccount
  BY AccountsAtEnd DEF TypeInv
<1>2. TypeOK /\ ResultsAccount /\ BatchesFull => LinesAccounted
  BY DEF LinesAccounted
<1>. QED  BY <1>1, <1>2, Accounting, NoLineTwice, PTL

=============================================================================
