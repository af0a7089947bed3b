------------------------ MODULE ParserPipelineProofs ------------------------
(* Theorems about ParserPipeline, for any blocks, stacks, addresses, frames,
   event limit and threshold. *)
EXTENDS ParserPipeline, TLAPS

(***************************************************************************)
(* Sequences: what the buffers of the pipeline do to a concatenation.      *)
(***************************************************************************)

(* Moving the first element of t to the end of s leaves s \o t as it is. *)
LEMMA MoveHead ==
    ASSUME NEW S, NEW s \in Seq(S), NEW t \in Seq(S), t # <<>>
    PROVE  /\ Append(s, Head(t)) \in Seq(S) /\ Tail(t) \in Seq(S)
           /\ Append(s, Head(t)) \o Tail(t) = s \o t
OBVIOUS

(* Appending to the last part appends to the whole. *)
LEMMA AppendToLast ==
    ASSUME NEW S, NEW s \in Seq(S), NEW t \in Seq(S), NEW e \in S
    PROVE  /\ s \o Append(t, e) = Append(s \o t, e)
           /\ s \o t \in Seq(S) /\ Append(t, e) \in Seq(S)
OBVIOUS

LEMMA Associative ==
    ASSUME NEW S, NEW s \in Seq(S), NEW t \in Seq(S), NEW u \in Seq(S)
    PROVE  /\ (s \o t) \o u = s \o (t \o u)
           /\ s \o t \in Seq(S) /\ t \o u \in Seq(S)
OBVIOUS

LEMMA EmptyUnit ==
    ASSUME NEW S, NEW s \in Seq(S)
    PROVE  s \o <<>> = s /\ <<>> \o s = s /\ <<>> \in Seq(S)
OBVIOUS

-----------------------------------------------------------------------------
(* Type correctness *)

(* The fields of the packets. *)
LEMMA PacketFields ==
    ASSUME NEW p \in Packet
    PROVE  /\ p.type = "Malloc" => p.block \in Block /\ p.stack \in Stack
           /\ p.type = "Free" => p.block \in Block
BY DEF Packet

(* The constants that may stand in the initial state. *)
LEMMA InitTypeOK == Init => TypeOK
<1> SUFFICES ASSUME Init PROVE TypeOK
  OBVIOUS
<1>1. <<>> \in Seq(Packet) /\ <<>> \in Seq(Address) /\ <<>> \in Seq(Stack) /\ Len(<<>>) = 0
  OBVIOUS
<1>2. fed \in Seq(Packet) /\ Len(fed) <= MaxEventCount
  BY <1>1, PipelineAssumption DEF PipelineAssumption, Init
<1>3. /\ mainPc \in MainPcs /\ parsePc \in ParsePcs /\ ret \in ReturnPcs
      /\ resolverPc \in ResolverPcs /\ mMutex \in {"none", "parse"}
  BY DEF Init, MainPcs, ParsePcs, ReturnPcs, ResolverPcs
<1>4. /\ queue \in Seq(Packet) /\ batch \in Seq(Packet) /\ parsed \in Seq(Packet)
      /\ frames \in Seq(Address) /\ unresolved \in Seq(Address) /\ asked \in Seq(Address)
      /\ emitting \in Seq(Address) /\ mPending \in Seq(Address)
      /\ resolving \in Seq(Address) /\ mResolvedAddresses \in Seq(Address)
      /\ wroteStacks \in Seq(Stack) /\ wroteAddresses \in Seq(Address)
  BY <1>1, Zenon DEF Init
<1>5. /\ mShutdown \in BOOLEAN /\ mThreshold \in BOOLEAN /\ done \in BOOLEAN
      /\ enabled \in BOOLEAN /\ mStop \in BOOLEAN
  BY Zenon DEF Init
<1>6. /\ mallocs \in SUBSET Malloc /\ stacks \in SUBSET Stack /\ pendingStacks \in SUBSET Stack
      /\ newStacks \in SUBSET Stack /\ wroteRefs \in SUBSET Stack
      /\ mAddressCache \in SUBSET Address /\ mallocSize \in Int
  BY DEF Init
<1>7. QED
  BY <1>2, <1>3, <1>4, <1>5, <1>6 DEF TypeOK

LEMMA NextTypeOK == TypeOK /\ [Next]_vars => TypeOK'
<1> SUFFICES ASSUME TypeOK, [Next]_vars PROVE TypeOK'
  OBVIOUS
<1> USE PipelineAssumption DEF PipelineAssumption, TypeOK, MainPcs, ParsePcs, ReturnPcs,
     ResolverPcs, mainVars, feedVars, appVars, snapVars, stackVars, emitVars, resolverVars
<1>1. CASE Feed
  BY <1>1 DEF Feed, MayRead, NotifyParse
<1>2. CASE EndOfInput
  BY <1>2 DEF EndOfInput
<1>3. CASE Cleanup
  BY <1>3 DEF Cleanup, NotifyParse
<1>4. CASE JoinAndClose
  BY <1>4 DEF JoinAndClose
<1>5. CASE ParseWait
  BY <1>5 DEF ParseWait
<1>6. CASE ParseTake
  BY <1>6 DEF ParseTake, QueueAfterTake
<1>7. CASE ParseStop
  BY <1>7 DEF ParseStop, NotifyResolver
<1>8. CASE ParseJoinedResolver
  BY <1>8 DEF ParseJoinedResolver
<1>9. CASE ParseMalloc
  <2>1. Head(batch) \in Packet /\ Tail(batch) \in Seq(Packet)
    BY <1>9, SMTT(40) DEF ParseMalloc, NextPacket
  <2>2. Head(batch).block \in Block /\ Head(batch).stack \in Stack
    BY <1>9, <2>1, PacketFields DEF ParseMalloc
  <2>3. mallocs' \in SUBSET Malloc
    BY <1>9, <2>2, SMTT(40) DEF ParseMalloc, Malloc
  <2>4. batch' \in Seq(Packet) /\ parsed' \in Seq(Packet)
    BY <1>9, <2>1 DEF ParseMalloc, NextPacket
  <2>5. stacks' \in SUBSET Stack /\ pendingStacks' \in SUBSET Stack
    BY <1>9, <2>2 DEF ParseMalloc
  <2>6. mallocSize' \in Int
    BY <1>9 DEF ParseMalloc
  <2>7. QED
    BY <1>9, <2>3, <2>4, <2>5, <2>6, SMTT(60) DEF ParseMalloc, NextPacket
<1>10. CASE ParseFree
  <2>1. batch' \in Seq(Packet) /\ parsed' \in Seq(Packet)
    BY <1>10, MoveHead DEF ParseFree, NextPacket
  <2>2. mallocs' \in SUBSET Malloc /\ mallocSize' \in Int
    BY <1>10 DEF ParseFree
  <2>3. QED
    BY <1>10, <2>1, <2>2, SMTT(60) DEF ParseFree, NextPacket
<1>11. CASE ParseSwitch
  <2>1. batch' \in Seq(Packet) /\ parsed' \in Seq(Packet)
    BY <1>11, MoveHead DEF ParseSwitch, NextPacket
  <2>2. enabled' \in BOOLEAN
    BY <1>11 DEF ParseSwitch
  <2>3. QED
    BY <1>11, <2>1, <2>2, SMTT(60) DEF ParseSwitch, NextPacket
<1>12. CASE ParseSnapshot
  <2>1. Referenced \in SUBSET Stack
    BY DEF Referenced, Malloc
  <2>2. QED
    BY <1>12, <2>1, SMTT(60) DEF ParseSnapshot, NextPacket, EmitSnapshot, PendingAfterSnapshot, NewStacks
<1>13. CASE MaybeSnapshot
  <2>1. Referenced \in SUBSET Stack
    BY DEF Referenced, Malloc
  <2>2. QED
    BY <1>13, <2>1, SMTT(60) DEF MaybeSnapshot, EmitSnapshot, PendingAfterSnapshot, NewStacks
<1>14. CASE BelowThreshold
  BY <1>14 DEF BelowThreshold
<1>15. CASE ReachThreshold
  <2>1. Referenced \in SUBSET Stack
    BY DEF Referenced, Malloc
  <2>2. QED
    BY <1>15, <2>1, SMTT(60) DEF ReachThreshold, EmitSnapshot, PendingAfterSnapshot, NewStacks
<1>16. CASE Unlock
  BY <1>16 DEF Unlock
<1>17. CASE EmitStack
  BY <1>17 DEF EmitStack
<1>18. CASE LookUpFrame
  <2>1. Head(frames) \in Address /\ frames' \in Seq(Address)
    BY <1>18 DEF LookUpFrame
  <2>2. mAddressCache' \in SUBSET Address
    BY <1>18, <2>1 DEF LookUpFrame, CacheWith
  <2>3. unresolved' \in Seq(Address) /\ asked' \in Seq(Address)
    <3>1. /\ Append(unresolved, Head(frames)) \in Seq(Address)
          /\ Append(asked, Head(frames)) \in Seq(Address)
      BY <2>1
    <3>2. \/ unresolved' = Append(unresolved, Head(frames)) /\ asked' = Append(asked, Head(frames))
          \/ UNCHANGED <<unresolved, asked>>
      BY <1>18, Zenon DEF LookUpFrame
    <3>3. QED
      BY <3>1, <3>2
  <2>4. QED
    <3>1. UNCHANGED <<mainVars, feedVars, mMutex, parsePc, ret, batch, done, parsed, appVars,
                      enabled, snapVars, wroteStacks, emitVars, resolverVars>>
      BY <1>18, Zenon DEF LookUpFrame
    <3>2. QED
      BY <2>1, <2>2, <2>3, <3>1, SMTT(40)
<1>19. CASE HandOver
  BY <1>19 DEF HandOver, NotifyResolver
<1>20. CASE SnapshotDone
  BY <1>20 DEF SnapshotDone
<1>21. CASE SwapResolved
  BY <1>21 DEF SwapResolved, ResolvedAfterSwap
<1>22. CASE EmitAddress
  BY <1>22, SMTT(40) DEF EmitAddress
<1>23. CASE LoopEnd
  BY <1>23 DEF LoopEnd
<1>24. CASE FinalSnapshot
  <2>1. Referenced \in SUBSET Stack
    BY DEF Referenced, Malloc
  <2>2. QED
    BY <1>24, <2>1 DEF FinalSnapshot, EmitSnapshot, PendingAfterSnapshot, NewStacks
<1>25. CASE Resolver
  <2>1. CASE ResolverWait
    BY <2>1 DEF ResolverWait
  <2>2. CASE ResolverTake
    BY <2>2 DEF ResolverTake
  <2>3. CASE ResolverPublish
    BY <2>3, SMTT(40) DEF ResolverPublish
  <2>4. CASE ResolverExit
    BY <2>4 DEF ResolverExit
  <2>5. QED
    BY <1>25, <2>1, <2>2, <2>3, <2>4 DEF Resolver
<1>26. CASE SpuriousWakeup
  BY <1>26 DEF SpuriousWakeup
<1>27. CASE UNCHANGED vars
  BY <1>27 DEF vars
<1>28. QED
  BY <1>1, <1>2, <1>3, <1>4, <1>5, <1>6, <1>7, <1>8, <1>9, <1>10, <1>11, <1>12, <1>13,
     <1>14, <1>15, <1>16, <1>17, <1>18, <1>19, <1>20, <1>21, <1>22, <1>23, <1>24, <1>25,
     <1>26, <1>27
     DEF Next, Main, ParseThread, ParsePacket, Ended

(* Every reachable state of the parser's three threads is well typed, and no
   more than maxEventCount packets are fed. *)
THEOREM TypeCorrect == Spec => []TypeOK
BY InitTypeOK, NextTypeOK, PTL DEF Spec
-----------------------------------------------------------------------------
(* The places, flags and buffers of the threads *)

LEMMA InitPhases == Init => Phases
BY DEF Init, Phases, InSnapshot

LEMMA NextPhases == TypeOK /\ Phases /\ [Next]_vars => Phases'
<1> SUFFICES ASSUME TypeOK, Phases, [Next]_vars PROVE Phases'
  OBVIOUS
<1> USE DEF Phases, InSnapshot, mainVars, feedVars, appVars, snapVars, stackVars, emitVars,
     resolverVars
<1>1. CASE Feed
  BY <1>1 DEF Feed, NotifyParse, TypeOK, ParsePcs, ReturnPcs, ResolverPcs, MainPcs
<1>2. CASE EndOfInput
  BY <1>2 DEF EndOfInput, TypeOK, ParsePcs, ReturnPcs, ResolverPcs, MainPcs
<1>3. CASE Cleanup
  BY <1>3 DEF Cleanup, NotifyParse, TypeOK, ParsePcs, ReturnPcs, ResolverPcs, MainPcs
<1>4. CASE JoinAndClose
  BY <1>4 DEF JoinAndClose, TypeOK, ParsePcs, ReturnPcs, ResolverPcs, MainPcs
<1>5. CASE ParseWait
  BY <1>5 DEF ParseWait, TypeOK, ParsePcs, ReturnPcs, ResolverPcs, MainPcs
<1>6. CASE ParseTake
  BY <1>6 DEF ParseTake, QueueAfterTake, TypeOK, ParsePcs, ReturnPcs, ResolverPcs, MainPcs
<1>7. CASE ParseStop
  BY <1>7 DEF ParseStop, Drained, NotifyResolver, TypeOK, ParsePcs, ReturnPcs, ResolverPcs, MainPcs
<1>8. CASE ParseJoinedResolver
  BY <1>8 DEF ParseJoinedResolver, TypeOK, ParsePcs, ReturnPcs, ResolverPcs, MainPcs
<1>9. CASE ParseMalloc
  BY <1>9 DEF ParseMalloc, NextPacket, TypeOK, ParsePcs, ReturnPcs, ResolverPcs, MainPcs
<1>10. CASE ParseFree
  BY <1>10 DEF ParseFree, NextPacket, TypeOK, ParsePcs, ReturnPcs, ResolverPcs, MainPcs
<1>11. CASE ParseSwitch
  BY <1>11 DEF ParseSwitch, NextPacket, TypeOK, ParsePcs, ReturnPcs, ResolverPcs, MainPcs
<1>12. CASE ParseSnapshot
  BY <1>12 DEF ParseSnapshot, NextPacket, EmitSnapshot, TypeOK, ParsePcs, ReturnPcs, ResolverPcs, MainPcs
<1>13. CASE MaybeSnapshot
  BY <1>13 DEF MaybeSnapshot, EmitSnapshot, TypeOK, ParsePcs, ReturnPcs, ResolverPcs, MainPcs
<1>14. CASE BelowThreshold
  BY <1>14 DEF BelowThreshold, TypeOK, ParsePcs, ReturnPcs, ResolverPcs, MainPcs
<1>15. CASE ReachThreshold
  BY <1>15 DEF ReachThreshold, EmitSnapshot, TypeOK, ParsePcs, ReturnPcs, ResolverPcs, MainPcs
<1>16. CASE Unlock
  BY <1>16 DEF Unlock, TypeOK, ParsePcs, ReturnPcs, ResolverPcs, MainPcs
<1>17. CASE EmitStack
  BY <1>17 DEF EmitStack, TypeOK, ParsePcs, ReturnPcs, ResolverPcs, MainPcs
<1>18. CASE LookUpFrame
  BY <1>18 DEF LookUpFrame, TypeOK, ParsePcs, ReturnPcs, ResolverPcs, MainPcs
<1>19. CASE HandOver
  BY <1>19 DEF HandOver, NotifyResolver, TypeOK, ParsePcs, ReturnPcs, ResolverPcs, MainPcs
<1>20. CASE SnapshotDone
  BY <1>20 DEF SnapshotDone, TypeOK, ParsePcs, ReturnPcs, ResolverPcs, MainPcs
<1>21. CASE SwapResolved
  BY <1>21 DEF SwapResolved, ResolvedAfterSwap, TypeOK, ParsePcs, ReturnPcs, ResolverPcs, MainPcs
<1>22. CASE EmitAddress
  BY <1>22 DEF EmitAddress, TypeOK, ParsePcs, ReturnPcs, ResolverPcs, MainPcs
<1>23. CASE LoopEnd
  BY <1>23 DEF LoopEnd, TypeOK, ParsePcs, ReturnPcs, ResolverPcs, MainPcs
<1>24. CASE FinalSnapshot
  BY <1>24 DEF FinalSnapshot, EmitSnapshot, TypeOK, ParsePcs, ReturnPcs, ResolverPcs, MainPcs
<1>25. CASE ResolverWait
  BY <1>25 DEF ResolverWait, TypeOK, ParsePcs, ReturnPcs, ResolverPcs, MainPcs
<1>26. CASE ResolverTake
  BY <1>26 DEF ResolverTake, TypeOK, ParsePcs, ReturnPcs, ResolverPcs, MainPcs
<1>27. CASE ResolverPublish
  BY <1>27 DEF ResolverPublish, TypeOK, ParsePcs, ReturnPcs, ResolverPcs, MainPcs
<1>28. CASE ResolverExit
  BY <1>28 DEF ResolverExit, ResolverDrained, TypeOK, ParsePcs, ReturnPcs, ResolverPcs, MainPcs
<1>29. CASE SpuriousWakeup
  BY <1>29 DEF SpuriousWakeup, TypeOK, ParsePcs, ReturnPcs, ResolverPcs, MainPcs
<1>30. CASE UNCHANGED vars
  BY <1>30 DEF vars
<1>31. QED
  BY <1>1, <1>2, <1>3, <1>4, <1>5, <1>6, <1>7, <1>8, <1>9, <1>10, <1>11, <1>12, <1>13, <1>14, <1>15, <1>16, <1>17, <1>18, <1>19, <1>20, <1>21, <1>22, <1>23, <1>24, <1>25, <1>26, <1>27, <1>28, <1>29, <1>30
     DEF Next, Main, ParseThread, ParsePacket, Resolver, Ended

(* The inductive invariant of the control flow. *)
THEOREM PhasesCorrect == Spec => []Phases
<1>1. Init => TypeOK /\ Phases
  BY InitTypeOK, InitPhases
<1>2. (TypeOK /\ Phases) /\ [Next]_vars => (TypeOK /\ Phases)'
  BY NextTypeOK, NextPhases
<1>3. QED
  BY <1>1, <1>2, PTL DEF Spec

-----------------------------------------------------------------------------
(* The two first-in first-out paths *)

LEMMA NextPacketsInOrder == 
    TypeOK /\ Phases /\ PacketsInOrder /\ [Next]_vars => PacketsInOrder'
<1> SUFFICES ASSUME TypeOK, Phases, PacketsInOrder, [Next]_vars PROVE PacketsInOrder'
  OBVIOUS
<1> USE DEF PacketsInOrder, mainVars, feedVars
<1>0. /\ queue \in Seq(Packet) /\ batch \in Seq(Packet) /\ parsed \in Seq(Packet)
      /\ parsed \o batch \in Seq(Packet)
  BY Associative DEF TypeOK
<1>1. CASE Feed
  <2>1. PICK p \in Packet : queue' = Append(queue, p) /\ fed' = Append(fed, p)
    BY <1>1 DEF Feed
  <2>2. (parsed \o batch) \o Append(queue, p) = Append((parsed \o batch) \o queue, p)
    BY <1>0, <2>1, AppendToLast
  <2>3. QED
    BY <1>1, <2>1, <2>2 DEF Feed
<1>2. CASE ParseTake
  <2>1. batch = <<>> /\ batch' = queue /\ queue' = <<>> /\ UNCHANGED <<fed, parsed>>
    BY <1>2 DEF ParseTake, QueueAfterTake, Phases
  <2>2. (parsed \o <<>>) \o queue = (parsed \o queue) \o <<>>
    BY <1>0, EmptyUnit, Associative
  <2>3. QED
    BY <2>1, <2>2
<1>3. CASE ParsePacket
  <2>1. /\ batch # <<>> /\ UNCHANGED <<fed, queue>>
        /\ parsed' = Append(parsed, Head(batch)) /\ batch' = Tail(batch)
    BY <1>3 DEF ParsePacket, ParseMalloc, ParseFree, ParseSwitch, ParseSnapshot, NextPacket
  <2>2. parsed' \o batch' = parsed \o batch
    BY <1>0, <2>1, MoveHead
  <2>3. QED
    BY <2>1, <2>2
<1>4. CASE UNCHANGED <<fed, queue, batch, parsed>>
  BY <1>4
<1>5. QED
  <2>1. CASE EndOfInput \/ Cleanup \/ JoinAndClose
    BY <1>4, <2>1 DEF EndOfInput, Cleanup, JoinAndClose
  <2>2. CASE ParseWait \/ ParseStop \/ ParseJoinedResolver \/ MaybeSnapshot \/ BelowThreshold
             \/ ReachThreshold \/ Unlock
    BY <1>4, <2>2 DEF ParseWait, ParseStop, ParseJoinedResolver, MaybeSnapshot, BelowThreshold,
       ReachThreshold, Unlock
  <2>3. CASE EmitStack \/ LookUpFrame \/ HandOver \/ SnapshotDone \/ SwapResolved \/ EmitAddress
             \/ LoopEnd \/ FinalSnapshot
    BY <1>4, <2>3 DEF EmitStack, LookUpFrame, HandOver, SnapshotDone, SwapResolved, EmitAddress,
       LoopEnd, FinalSnapshot
  <2>4. CASE Resolver \/ SpuriousWakeup \/ UNCHANGED vars
    BY <1>4, <2>4 DEF Resolver, ResolverWait, ResolverTake, ResolverPublish, ResolverExit,
       SpuriousWakeup, vars
  <2>5. QED
    BY <1>1, <1>2, <1>3, <2>1, <2>2, <2>3, <2>4 DEF Next, Main, ParseThread, Ended

(* Every packet fed is parsed, about to be parsed or queued, in the order of
   feed(): no batch is cut, dropped or parsed twice. *)
THEOREM PacketsParsedInOrder == Spec => []PacketsInOrder
<1>1. Init => PacketsInOrder
  BY DEF Init, PacketsInOrder
<1>2. TypeOK /\ Phases /\ PacketsInOrder /\ [Next]_vars => PacketsInOrder'
  BY NextPacketsInOrder
<1>3. QED
  BY <1>1, <1>2, TypeCorrect, PhasesCorrect, PTL DEF Spec

LEMMA NextAddressesInOrder ==
    TypeOK /\ Phases /\ AddressesInOrder /\ [Next]_vars => AddressesInOrder'
<1> SUFFICES ASSUME TypeOK, Phases, AddressesInOrder, [Next]_vars PROVE AddressesInOrder'
  OBVIOUS
<1> DEFINE written == wroteAddresses \o emitting
           back    == written \o mResolvedAddresses
           taken   == back \o resolving
           handed  == taken \o mPending
<1>0. /\ wroteAddresses \in Seq(Address) /\ emitting \in Seq(Address)
      /\ mResolvedAddresses \in Seq(Address) /\ resolving \in Seq(Address)
      /\ mPending \in Seq(Address) /\ unresolved \in Seq(Address)
      /\ written \in Seq(Address) /\ back \in Seq(Address) /\ taken \in Seq(Address)
      /\ handed \in Seq(Address)
  BY Associative DEF TypeOK
<1> HIDE DEF written, back, taken, handed
<1> USE DEF stackVars, emitVars, resolverVars
<1>1. CASE LookUpFrame
  <2>1. Head(frames) \in Address
    BY <1>1, MoveHead DEF LookUpFrame, TypeOK
  <2>2. handed \o Append(unresolved, Head(frames)) = Append(handed \o unresolved, Head(frames))
    BY <1>0, <2>1, AppendToLast, SMTT(40)
  <2>3. \/ /\ unresolved' = Append(unresolved, Head(frames))
           /\ asked' = Append(asked, Head(frames))
        \/ UNCHANGED <<unresolved, asked>>
    BY <1>1, Zenon DEF LookUpFrame
  <2>4. UNCHANGED <<emitVars, resolverVars>>
    BY <1>1, Zenon DEF LookUpFrame
  <2>5. QED
    BY <2>2, <2>3, <2>4 DEF AddressesInOrder, written, back, taken, handed
<1>2. CASE HandOver
  <2>1. /\ mPending' = mPending \o unresolved /\ unresolved' = <<>>
        /\ UNCHANGED <<asked, emitVars, resolving>>
    BY <1>2 DEF HandOver
  <2>2. (taken \o (mPending \o unresolved)) \o <<>> = (taken \o mPending) \o unresolved
    <3>1. /\ taken \o (mPending \o unresolved) = (taken \o mPending) \o unresolved
          /\ taken \o mPending \in Seq(Address)
      BY <1>0, SMTT(40)
    <3>2. (taken \o mPending) \o unresolved \in Seq(Address)
      BY <1>0, <3>1, Associative
    <3>3. QED
      BY <3>1, <3>2, EmptyUnit
  <2>3. QED
    BY <2>1, <2>2 DEF AddressesInOrder, written, back, taken, handed
<1>3. CASE SwapResolved
  <2>1. /\ emitting = <<>> /\ emitting' = mResolvedAddresses /\ mResolvedAddresses' = <<>>
        /\ UNCHANGED <<asked, wroteAddresses, resolving, mPending, unresolved>>
    BY <1>3 DEF SwapResolved, ResolvedAfterSwap, Phases
  <2>2. (wroteAddresses \o mResolvedAddresses) \o <<>>
            = (wroteAddresses \o <<>>) \o mResolvedAddresses
    BY <1>0, EmptyUnit, Associative
  <2>3. QED
    BY <2>1, <2>2 DEF AddressesInOrder, written, back, taken, handed
<1>4. CASE EmitAddress
  <2>1. /\ emitting # <<>> /\ emitting' = Tail(emitting)
        /\ wroteAddresses' = Append(wroteAddresses, Head(emitting))
        /\ UNCHANGED <<asked, mResolvedAddresses, resolving, mPending, unresolved>>
    BY <1>4 DEF EmitAddress
  <2>2. Append(wroteAddresses, Head(emitting)) \o Tail(emitting) = wroteAddresses \o emitting
    BY <1>0, <2>1, MoveHead
  <2>3. QED
    BY <2>1, <2>2 DEF AddressesInOrder, written, back, taken, handed
<1>5. CASE ResolverTake
  <2>1. /\ resolving = <<>> /\ resolving' = mPending /\ mPending' = <<>>
        /\ UNCHANGED <<asked, wroteAddresses, emitting, mResolvedAddresses, unresolved>>
    BY <1>5 DEF ResolverTake, Phases
  <2>2. (back \o mPending) \o <<>> = (back \o <<>>) \o mPending
    BY <1>0, EmptyUnit, Associative
  <2>3. QED
    BY <2>1, <2>2 DEF AddressesInOrder, written, back, taken, handed
<1>6. CASE ResolverPublish
  <2>1. /\ mResolvedAddresses' = mResolvedAddresses \o resolving /\ resolving' = <<>>
        /\ UNCHANGED <<asked, wroteAddresses, emitting, mPending, unresolved>>
    BY <1>6 DEF ResolverPublish
  <2>2. (written \o (mResolvedAddresses \o resolving)) \o <<>>
            = (written \o mResolvedAddresses) \o resolving
    <3>1. /\ written \o (mResolvedAddresses \o resolving)
                = (written \o mResolvedAddresses) \o resolving
          /\ written \o mResolvedAddresses \in Seq(Address)
      BY <1>0, SMTT(40)
    <3>2. (written \o mResolvedAddresses) \o resolving \in Seq(Address)
      BY <1>0, <3>1, Associative
    <3>3. QED
      BY <3>1, <3>2, EmptyUnit
  <2>3. QED
    BY <2>1, <2>2 DEF AddressesInOrder, written, back, taken, handed
<1>7. CASE UNCHANGED <<asked, unresolved, emitVars, mPending, resolving>>
  BY <1>7 DEF AddressesInOrder, written, back, taken, handed
<1>8. QED
  <2>1. CASE Main
    BY <1>7, <2>1 DEF Main, Feed, EndOfInput, Cleanup, JoinAndClose
  <2>2. CASE ParseWait \/ ParseTake \/ ParseStop \/ ParseJoinedResolver \/ MaybeSnapshot
             \/ BelowThreshold \/ ReachThreshold \/ Unlock
    BY <1>7, <2>2 DEF ParseWait, ParseTake, ParseStop, ParseJoinedResolver, MaybeSnapshot,
       BelowThreshold, ReachThreshold, Unlock
  <2>3. CASE ParsePacket \/ EmitStack \/ SnapshotDone \/ LoopEnd \/ FinalSnapshot
    BY <1>7, <2>3 DEF ParsePacket, ParseMalloc, ParseFree, ParseSwitch, ParseSnapshot, NextPacket,
       EmitStack, SnapshotDone, LoopEnd, FinalSnapshot
  <2>4. CASE ResolverWait \/ ResolverExit \/ SpuriousWakeup \/ UNCHANGED vars
    BY <1>7, <2>4 DEF ResolverWait, ResolverExit, SpuriousWakeup, vars
  <2>5. QED
    BY <1>1, <1>2, <1>3, <1>4, <1>5, <1>6, <2>1, <2>2, <2>3, <2>4
       DEF Next, ParseThread, Resolver, Ended

(* Every address asked for is in exactly one of the buffers between
   emitStack and emitAddress, or written, in the order of asking. *)
THEOREM AddressesResolvedInOrder == Spec => []AddressesInOrder
<1>1. Init => AddressesInOrder
  BY DEF Init, AddressesInOrder
<1>2. TypeOK /\ Phases /\ AddressesInOrder /\ [Next]_vars => AddressesInOrder'
  BY NextAddressesInOrder
<1>3. QED
  BY <1>1, <1>2, TypeCorrect, PhasesCorrect, PTL DEF Spec

(* When parseThread leaves its loop, every address that was asked for has
   been resolved and written. *)
THEOREM NothingUnresolvedAtTheEnd == Spec => []ResolvedBeforeFinal
<1>1. TypeOK /\ Phases /\ AddressesInOrder => ResolvedBeforeFinal
  <2> SUFFICES ASSUME TypeOK, Phases, AddressesInOrder, parsePc = "final"
               PROVE  wroteAddresses = asked
    BY DEF ResolvedBeforeFinal
  <2>1. emitting = <<>> /\ mResolvedAddresses = <<>> /\ resolving = <<>> /\ mPending = <<>>
        /\ unresolved = <<>>
    BY DEF Phases, InSnapshot
  <2>2. wroteAddresses \in Seq(Address)
    BY DEF TypeOK
  <2>3. QED
    BY <2>1, <2>2, EmptyUnit DEF AddressesInOrder
<1>2. QED
  BY <1>1, TypeCorrect, PhasesCorrect, AddressesResolvedInOrder, PTL

-----------------------------------------------------------------------------
(* Wake-ups *)

LEMMA NextNoLostWakeup == TypeOK /\ NoLostWakeup /\ [Next]_vars => NoLostWakeup'
<1> SUFFICES ASSUME TypeOK, NoLostWakeup, [Next]_vars PROVE NoLostWakeup'
  OBVIOUS
<1> USE DEF NoLostWakeup, feedVars, resolverVars
<1>1. CASE Feed
  BY <1>1 DEF Feed, NotifyParse
<1>2. CASE Cleanup
  BY <1>2 DEF Cleanup, NotifyParse
<1>3. CASE ParseWait
  BY <1>3 DEF ParseWait
<1>4. CASE ParseTake
  BY <1>4 DEF ParseTake
<1>5. CASE ParseStop
  BY <1>5 DEF ParseStop, NotifyResolver
<1>6. CASE HandOver
  <2>1. mPending \in Seq(Address)
    BY DEF TypeOK
  <2>2. unresolved = <<>> => mPending' = mPending
    BY <1>6, <2>1, EmptyUnit DEF HandOver
  <2>3. QED
    BY <1>6, <2>2 DEF HandOver, NotifyResolver
<1>7. CASE Resolver
  BY <1>7 DEF Resolver, ResolverWait, ResolverTake, ResolverPublish, ResolverExit
<1>8. CASE SpuriousWakeup
  BY <1>8 DEF SpuriousWakeup
<1>9. CASE EndOfInput \/ JoinAndClose
  BY <1>9 DEF EndOfInput, JoinAndClose
<1>10. CASE ParsePacket
  BY <1>10 DEF ParsePacket, ParseMalloc, ParseFree, ParseSwitch, ParseSnapshot, NextPacket,
     EmitSnapshot
<1>11. CASE ParseJoinedResolver \/ MaybeSnapshot \/ BelowThreshold \/ ReachThreshold \/ Unlock
  BY <1>11 DEF ParseJoinedResolver, MaybeSnapshot, BelowThreshold, ReachThreshold, Unlock,
     EmitSnapshot
<1>12. CASE EmitStack \/ LookUpFrame \/ SwapResolved \/ EmitAddress
  BY <1>12 DEF EmitStack, LookUpFrame, SwapResolved, EmitAddress
<1>13. CASE LoopEnd
  BY <1>13 DEF LoopEnd
<1>14. CASE FinalSnapshot
  BY <1>14 DEF FinalSnapshot, EmitSnapshot
<1>15. CASE SnapshotDone
  <2>1. parsePc' # "asleep"
    BY <1>15 DEF SnapshotDone, TypeOK, ReturnPcs
  <2>2. QED
    BY <1>15, <2>1 DEF SnapshotDone
<1>16. CASE UNCHANGED vars
  BY <1>16 DEF vars
<1>17. QED
  BY <1>1, <1>2, <1>3, <1>4, <1>5, <1>6, <1>7, <1>8, <1>9, <1>10, <1>11, <1>12, <1>13, <1>14,
     <1>15, <1>16
     DEF Next, Main, ParseThread, Ended

(* Neither the parse thread nor the resolver ever sleeps while there is work
   for it or it has been told to stop. *)
THEOREM NobodySleepsOnWork == Spec => []NoLostWakeup
<1>1. Init => NoLostWakeup
  BY DEF Init, NoLostWakeup
<1>2. TypeOK /\ NoLostWakeup /\ [Next]_vars => NoLostWakeup'
  BY NextNoLostWakeup
<1>3. QED
  BY <1>1, <1>2, TypeCorrect, PTL DEF Spec

-----------------------------------------------------------------------------
(* Stacks and addresses are written once *)

Prefix(s, t) == \A i \in DOMAIN s : i \in DOMAIN t /\ t[i] = s[i]

LEMMA ConcatPrefix ==
    ASSUME NEW S, NEW s \in Seq(S), NEW t \in Seq(S)
    PROVE  Prefix(s, s \o t)
BY DEF Prefix

LEMMA AppendNew ==
    ASSUME NEW S, NEW s \in Seq(S), NEW e \in S
    PROVE  /\ Range(Append(s, e)) = Range(s) \cup {e}
           /\ NoRepetition(s) /\ e \notin Range(s) => NoRepetition(Append(s, e))
BY DEF Range, NoRepetition

(* What emitSnapshot does to the stacks, wherever it is called from. *)
LEMMA EmitSnapshotTrails ==
    ASSUME TypeOK, Phases, Trails, ~InSnapshot, NEW returnTo, EmitSnapshot(returnTo),
           UNCHANGED <<appVars, stackVars>>
    PROVE  Trails'
<1>1. newStacks = {}
  BY DEF Phases
<1>2. UNCHANGED <<mallocs, stacks, wroteStacks, asked, mAddressCache>>
  BY DEF appVars, stackVars
<1>3. Referenced' = Referenced
  BY <1>2 DEF Referenced
<1>4. QED
  BY <1>1, <1>2, <1>3 DEF Trails, EmitSnapshot, PendingAfterSnapshot, NewStacks

LEMMA NextTrails == TypeOK /\ Phases /\ Trails /\ [Next]_vars => Trails'
<1> SUFFICES ASSUME TypeOK, Phases, Trails, [Next]_vars PROVE Trails'
  OBVIOUS
<1>1. CASE ParseMalloc
  <2>1. UNCHANGED <<newStacks, wroteRefs, wroteStacks, asked, mAddressCache>>
    BY <1>1 DEF ParseMalloc, stackVars
  <2> DEFINE s == Head(batch).stack
  <2>2. /\ stacks' = stacks \cup {s}
        /\ pendingStacks' = IF s \in stacks THEN pendingStacks ELSE pendingStacks \cup {s}
    BY <1>1 DEF ParseMalloc
  <2>3. Referenced' \subseteq Referenced \cup {s}
    <3>1. \/ mallocs' = mallocs
          \/ mallocs' = mallocs \cup {[block |-> Head(batch).block, stack |-> s]}
      BY <1>1 DEF ParseMalloc
    <3>2. QED
      BY <3>1 DEF Referenced
  <2> HIDE DEF s
  <2>4. QED
    BY <2>1, <2>2, <2>3 DEF Trails
<1>2. CASE ParseFree
  <2>1. UNCHANGED <<stacks, pendingStacks, newStacks, wroteRefs, wroteStacks, asked, mAddressCache>>
    BY <1>2 DEF ParseFree, stackVars, snapVars
  <2>2. Referenced' \subseteq Referenced
    BY <1>2 DEF ParseFree, Referenced
  <2>3. QED
    BY <2>1, <2>2 DEF Trails
<1>3. CASE EmitStack
  <2>1. PICK s \in newStacks : /\ newStacks' = newStacks \ {s}
                               /\ wroteStacks' = Append(wroteStacks, s)
    BY <1>3 DEF EmitStack
  <2>2. /\ UNCHANGED <<stacks, pendingStacks, wroteRefs, asked, mAddressCache>>
        /\ Referenced' = Referenced
    BY <1>3 DEF EmitStack, appVars, Referenced
  <2>3. s \in Stack /\ wroteStacks \in Seq(Stack) /\ s \notin Range(wroteStacks)
    BY DEF TypeOK, Trails
  <2>4. /\ Range(wroteStacks') = Range(wroteStacks) \cup {s}
        /\ NoRepetition(wroteStacks')
    BY <2>1, <2>3, AppendNew DEF Trails
  <2>5. QED
    BY <2>1, <2>2, <2>3, <2>4 DEF Trails
<1>4. CASE LookUpFrame
  <2>1. /\ UNCHANGED <<stacks, pendingStacks, newStacks, wroteRefs, wroteStacks>>
        /\ Referenced' = Referenced
    BY <1>4, Zenon DEF LookUpFrame, appVars, snapVars, Referenced
  <2>2. Head(frames) \in Address /\ asked \in Seq(Address)
    BY <1>4 DEF LookUpFrame, TypeOK
  <2>3. \/ mAddressCache' = mAddressCache /\ asked' = asked
        \/ mAddressCache' = mAddressCache \cup {Head(frames)} /\ asked' = asked
        \/ /\ Head(frames) \notin mAddressCache
           /\ mAddressCache' = mAddressCache \cup {Head(frames)}
           /\ asked' = Append(asked, Head(frames))
    BY <1>4, Zenon DEF LookUpFrame, CacheWith
  <2>4. Range(asked') \subseteq mAddressCache' /\ NoRepetition(asked')
    <3>1. Range(asked) \subseteq mAddressCache /\ NoRepetition(asked)
      BY DEF Trails
    <3>2. /\ Range(Append(asked, Head(frames))) = Range(asked) \cup {Head(frames)}
          /\ Head(frames) \notin Range(asked) => NoRepetition(Append(asked, Head(frames)))
      BY <2>2, <3>1, AppendNew
    <3>3. QED
      BY <2>3, <3>1, <3>2, Zenon
  <2>5. QED
    BY <2>1, <2>4 DEF Trails
<1>5. CASE ParseSnapshot
  BY <1>5, EmitSnapshotTrails DEF ParseSnapshot, InSnapshot
<1>6. CASE MaybeSnapshot /\ EmitSnapshot("threshold")
  BY <1>6, EmitSnapshotTrails DEF MaybeSnapshot, InSnapshot
<1>7. CASE ReachThreshold
  BY <1>7, EmitSnapshotTrails DEF ReachThreshold, InSnapshot
<1>8. CASE FinalSnapshot /\ EmitSnapshot("done")
  BY <1>8, EmitSnapshotTrails DEF FinalSnapshot, InSnapshot
<1>9. CASE UNCHANGED <<mallocs, stacks, snapVars, wroteStacks, asked, mAddressCache>>
  BY <1>9 DEF Trails, snapVars, Referenced
<1>10. QED
  <2> USE DEF appVars, stackVars
  <2>1. CASE Main
    BY <1>9, <2>1 DEF Main, Feed, EndOfInput, Cleanup, JoinAndClose
  <2>2. CASE ParseWait \/ ParseTake \/ ParseStop \/ ParseJoinedResolver \/ BelowThreshold \/ Unlock
    BY <1>9, <2>2 DEF ParseWait, ParseTake, ParseStop, ParseJoinedResolver, BelowThreshold, Unlock
  <2>3. CASE MaybeSnapshot
    BY <1>6, <1>9, <2>3 DEF MaybeSnapshot
  <2>4. CASE FinalSnapshot
    BY <1>8, <1>9, <2>4 DEF FinalSnapshot
  <2>5. CASE ParseSwitch \/ HandOver \/ SnapshotDone \/ SwapResolved \/ EmitAddress \/ LoopEnd
    BY <1>9, <2>5 DEF ParseSwitch, HandOver, SnapshotDone, SwapResolved, EmitAddress, LoopEnd
  <2>6. CASE Resolver \/ SpuriousWakeup \/ UNCHANGED vars
    BY <1>9, <2>6 DEF Resolver, ResolverWait, ResolverTake, ResolverPublish, ResolverExit,
       SpuriousWakeup, vars
  <2>7. QED
    BY <1>1, <1>2, <1>3, <1>4, <1>5, <1>7, <2>1, <2>2, <2>3, <2>4, <2>5, <2>6
       DEF Next, ParseThread, ParsePacket, Ended

(* Where stacks and addresses are on their way to the output. *)
THEOREM TrailsCorrect == Spec => []Trails
<1>1. Init => Trails
  BY DEF Init, Trails, Range, NoRepetition, Referenced
<1>2. TypeOK /\ Phases /\ Trails /\ [Next]_vars => Trails'
  BY NextTrails
<1>3. QED
  BY <1>1, <1>2, TypeCorrect, PhasesCorrect, PTL DEF Spec

(* No stack and no address is written twice. *)
THEOREM NothingWrittenTwice == Spec => []WrittenOnce
<1>1. TypeOK /\ AddressesInOrder /\ Trails => WrittenOnce
  <2> SUFFICES ASSUME TypeOK, AddressesInOrder, Trails PROVE NoRepetition(wroteAddresses)
    BY DEF WrittenOnce, Trails
  <2> DEFINE w1 == wroteAddresses \o emitting
             w2 == w1 \o mResolvedAddresses
             w3 == w2 \o resolving
             w4 == w3 \o mPending
  <2>1. /\ wroteAddresses \in Seq(Address) /\ emitting \in Seq(Address)
        /\ mResolvedAddresses \in Seq(Address) /\ resolving \in Seq(Address)
        /\ mPending \in Seq(Address) /\ unresolved \in Seq(Address)
        /\ w1 \in Seq(Address) /\ w2 \in Seq(Address) /\ w3 \in Seq(Address) /\ w4 \in Seq(Address)
    BY DEF TypeOK
  <2>2. asked = w4 \o unresolved
    BY DEF AddressesInOrder
  <2>3. Prefix(wroteAddresses, w1) /\ Prefix(w1, w2) /\ Prefix(w2, w3) /\ Prefix(w3, w4)
        /\ Prefix(w4, asked)
    BY <2>1, <2>2, ConcatPrefix
  <2>4. Prefix(wroteAddresses, asked)
    BY <2>3 DEF Prefix
  <2>5. QED
    BY <2>4 DEF Trails, NoRepetition, Prefix
<1>2. QED
  BY <1>1, TypeCorrect, AddressesResolvedInOrder, TrailsCorrect, PTL

(* When a snapshot is complete its stacks have been written. *)
THEOREM SnapshotStacksWritten == Spec => []SnapshotsComplete
<1>1. Phases /\ Trails => SnapshotsComplete
  BY DEF Phases, Trails, SnapshotsComplete, InSnapshot
<1>2. QED
  BY <1>1, PhasesCorrect, TrailsCorrect, PTL

-----------------------------------------------------------------------------
(* Refinement *)

LEMMA StepImplementsSink ==
    TypeOK /\ Phases /\ PacketsInOrder /\ [Next]_vars => [Sink!SinkNext]_(Sink!sinkVars)
<1> SUFFICES ASSUME TypeOK, Phases, PacketsInOrder, [Next]_vars
             PROVE  Sink!SinkNext \/ UNCHANGED <<fed, parsed, mainPc = "closed">>
  BY DEF Sink!sinkVars
<1> USE DEF mainVars
<1>1. CASE Feed
  BY <1>1 DEF Feed, Sink!SinkNext, Sink!Accept
<1>2. CASE ParsePacket
  <2>1. /\ batch # <<>> /\ parsed' = Append(parsed, Head(batch)) /\ UNCHANGED <<fed, mainPc>>
        /\ parsePc = "packet"
    BY <1>2 DEF ParsePacket, ParseMalloc, ParseFree, ParseSwitch, ParseSnapshot, NextPacket
  <2>2. mainPc # "closed"
    BY <2>1 DEF Phases
  <2>3. Len(parsed) < Len(fed) /\ fed[Len(parsed) + 1] = Head(batch)
    <3>1. /\ parsed \in Seq(Packet) /\ batch \in Seq(Packet) /\ queue \in Seq(Packet)
          /\ fed = (parsed \o batch) \o queue
      BY DEF TypeOK, PacketsInOrder
    <3>2. QED
      BY <2>1, <3>1
  <2>4. QED
    BY <2>1, <2>2, <2>3 DEF Sink!SinkNext, Sink!Process
<1>3. CASE JoinAndClose
  <2>1. parsed = fed
    <3>1. batch = <<>> /\ queue = <<>>
      BY <1>3 DEF JoinAndClose, Phases
    <3>2. QED
      BY <3>1, EmptyUnit DEF PacketsInOrder, TypeOK
  <2>2. mainPc # "closed" /\ mainPc' = "closed" /\ UNCHANGED <<fed, parsed>>
    BY <1>3 DEF JoinAndClose
  <2>3. QED
    BY <2>1, <2>2 DEF Sink!SinkNext, Sink!Close
<1>4. CASE EndOfInput \/ Cleanup
  BY <1>4 DEF EndOfInput, Cleanup
<1>5. CASE UNCHANGED <<fed, parsed, mainPc>>
  BY <1>5
<1>6. QED
  <2>1. CASE ParseWait \/ ParseTake \/ ParseStop \/ ParseJoinedResolver \/ MaybeSnapshot
             \/ BelowThreshold \/ ReachThreshold \/ Unlock
    BY <1>5, <2>1 DEF ParseWait, ParseTake, ParseStop, ParseJoinedResolver, MaybeSnapshot,
       BelowThreshold, ReachThreshold, Unlock
  <2>2. CASE EmitStack \/ LookUpFrame \/ HandOver \/ SnapshotDone \/ SwapResolved \/ EmitAddress
             \/ LoopEnd \/ FinalSnapshot
    BY <1>5, <2>2 DEF EmitStack, LookUpFrame, HandOver, SnapshotDone, SwapResolved, EmitAddress,
       LoopEnd, FinalSnapshot
  <2>3. CASE Resolver \/ SpuriousWakeup \/ UNCHANGED vars
    BY <1>5, <2>3 DEF Resolver, ResolverWait, ResolverTake, ResolverPublish, ResolverExit,
       SpuriousWakeup, vars
  <2>4. QED
    BY <1>1, <1>2, <1>3, <1>4, <2>1, <2>2, <2>3 DEF Next, Main, ParseThread, Ended

(* The three threads together are an ordered sink: every packet is processed
   exactly once in the order of feeding, and the file is closed only after
   the last one. *)
THEOREM PipelineImplementsSink == Spec => ImplementsSink
<1>1. Init => Sink!SinkInit
  BY DEF Init, Sink!SinkInit
<1>2. TypeOK /\ Phases /\ PacketsInOrder /\ [Next]_vars => [Sink!SinkNext]_(Sink!sinkVars)
  BY StepImplementsSink
<1>3. QED
  BY <1>1, <1>2, TypeCorrect, PhasesCorrect, PacketsParsedInOrder, PTL
     DEF Spec, ImplementsSink, Sink!SinkSpec
=============================================================================
