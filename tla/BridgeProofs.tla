---------------------------- MODULE BridgeProofs ----------------------------
(***************************************************************************)
(* Proofs about the bridges of the ECALLs, for every width of size_t and   *)
(* every size of the structures and messages.                              *)
(***************************************************************************)
EXTENDS EcallBridge, TLAPS

\* The caller asked for this result: the pointer of an output is not null.
Asks(k) == IsResult(k) /\ ptr[k] = "outside"

\* What has been copied at each place of a bridge.
CopiesInv ==
  /\ at \in {"idle", "entry", "return"} => DOMAIN copies = {}
  /\ DOMAIN copies \subseteq DOMAIN ptr
  /\ \A k \in DOMAIN copies : /\ Kinds[k] = "sized" => copies[k] = size
                              /\ Kinds[k] = "open" => copies[k] = 1
  /\ at = "call" => \A k \in DOMAIN ptr : Asks(k) => k \in DOMAIN copies

\* The size is read once, before the trusted function is told it.
SizeInv ==
  /\ msSize \in Nat /\ size \in Nat
  /\ at \in {"entry", "copy"} => told = -1
  /\ told # -1 => told = size
  /\ at = "call" => told # -1

\* A bridge that ends in success has called and has copied out.
OutcomeInv ==
  /\ at \in {"err", "return", "idle"} /\ status = "success" /\ bridge # "none" =>
       told # -1 /\ \A k \in DOMAIN ptr : Asks(k) => k \in wrote
  /\ at = "idle" /\ bridge # "none" => got[2] = (status = "success")

\* The memory of an OCALL holds the structure, the header and the data.
Fits(m) == MsSize + (IF m.header THEN HeaderSize ELSE 0) + m.len <= m.frame

\* There is an OCALL only inside a call, in memory of the right size.
ReplyInv ==
  /\ reply # Nowhere => at = "call"
  /\ reply.at = "none" => reply = Nowhere
  /\ reply.at # "none" => Fits(reply)

BridgeInv ==
  /\ at \in {"idle", "entry", "copy", "call", "err", "return"}
  /\ CopiesInv /\ SizeInv /\ OutcomeInv /\ ReplyInv

\* Everything but the OCALL.
callVars == <<bridge, at, ptr, msSize, size, copies, told, outTold, wrote, status, got>>

\* A bridge starts outside the enclave, with nothing copied.
LEMMA BridgeInitInv == BridgeInit => BridgeInv
<1> SUFFICES ASSUME BridgeInit PROVE BridgeInv
  BY Zenon
<1>1. DOMAIN copies = {}
  BY DEF BridgeInit
<1>2. CopiesInv
  BY <1>1, Zenon DEF BridgeInit, CopiesInv
<1>3. SizeInv /\ OutcomeInv
  BY Zenon DEF BridgeInit, SizeInv, OutcomeInv
<1>4. ReplyInv
  BY Zenon DEF BridgeInit, ReplyInv, Nowhere
<1> QED
  BY <1>2, <1>3, <1>4, Zenon DEF BridgeInit, BridgeInv

\* A step that leaves the OCALL alone and is not taken inside a call, or stays
\* in it, keeps what holds of the OCALL.
LEMMA ReplyStays ==
  ASSUME ReplyInv, reply' = reply, at # "call" \/ at' = "call" \/ reply.at = "none"
  PROVE  ReplyInv'
  BY Zenon DEF ReplyInv, Fits

\* A step of an OCALL leaves the rest of the bridge as it was.
LEMMA CallStays ==
  ASSUME BridgeInv, callVars' = callVars, ReplyInv'
  PROVE  BridgeInv'
<1>1. CopiesInv'
  BY Zenon DEF BridgeInv, callVars, CopiesInv, Asks, IsResult, Kinds
<1>2. SizeInv'
  BY Zenon DEF BridgeInv, callVars, SizeInv
<1>3. OutcomeInv'
  BY Zenon DEF BridgeInv, callVars, OutcomeInv, Asks, IsResult, Kinds
<1> QED
  BY <1>1, <1>2, <1>3, Zenon DEF BridgeInv, callVars

\* A sum that ADD_ASSIGN_OVERFLOW accepts has not wrapped.
LEMMA NoWrap ==
  ASSUME NEW a \in Sizes, NEW b \in Sizes, ~AddOverflows(a, b)
  PROVE  (a + b) % 2 ^ Width = a + b /\ a + b \in Sizes
<1> DEFINE n == 2 ^ Width
<1>1. n \in Nat \ {0} /\ a \in 0..(n - 1) /\ b \in 0..(n - 1) /\ ~((a + b) % n < b)
  BY BridgeAssumption, Zenon DEF Sizes, AddOverflows
<1> HIDE DEF n
<1>2. a + b < n
  <2>1. SUFFICES ASSUME a + b >= n PROVE FALSE
    BY <1>1
  <2>2. (a + b) % n = a + b - n
    BY <1>1, <2>1
  <2> QED
    BY <1>1, <2>2
<1>3. (a + b) % n = a + b
  BY <1>1, <1>2
<1> QED
  BY <1>1, <1>2, <1>3 DEF n, Sizes

\* A proxy enters with an empty set of copies and no size told.
LEMMA ProxyInv ==
  ASSUME BridgeInv, NEW b \in DOMAIN Buffers, Proxy(b)
  PROVE  BridgeInv'
<1>1. DOMAIN copies' = {} /\ at' = "entry" /\ told' = -1 /\ size' = 0
  BY Zenon DEF Proxy
<1>2. CopiesInv'
  BY <1>1, Zenon DEF CopiesInv
<1>3. SizeInv'
  <2>1. msSize' \in Nat
    BY BridgeAssumption DEF Proxy, Sizes
  <2> QED
    BY <1>1, <2>1, Zenon DEF SizeInv
<1>4. OutcomeInv'
  BY <1>1, Zenon DEF OutcomeInv
<1>5. ReplyInv'
  BY ReplyStays, Zenon DEF Proxy, BridgeInv
<1> QED
  BY <1>1, <1>2, <1>3, <1>4, <1>5, Zenon DEF BridgeInv

\* The host's write of the size field reaches nothing the bridge still reads.
LEMMA HostWritesInv ==
  ASSUME BridgeInv, HostWrites
  PROVE  BridgeInv'
<1>1. CopiesInv' /\ OutcomeInv'
  BY Zenon DEF BridgeInv, HostWrites, CopiesInv, OutcomeInv, Asks, IsResult, Kinds
<1>2. SizeInv'
  <2>1. msSize' \in Nat
    BY BridgeAssumption DEF HostWrites, Sizes
  <2> QED
    BY <2>1, Zenon DEF BridgeInv, HostWrites, SizeInv
<1>3. ReplyInv'
  BY ReplyStays, Zenon DEF HostWrites, BridgeInv
<1> QED
  BY <1>1, <1>2, <1>3, Zenon DEF BridgeInv, HostWrites

\* A call that does not reach the enclave returns an error.
LEMMA EcallFailsInv ==
  ASSUME BridgeInv, EcallFails
  PROVE  BridgeInv'
<1>1. CopiesInv'
  BY Zenon DEF BridgeInv, EcallFails, CopiesInv, Asks, IsResult, Kinds
<1>2. SizeInv' /\ OutcomeInv'
  BY Zenon DEF BridgeInv, EcallFails, SizeInv, OutcomeInv
<1>3. ReplyInv'
  BY ReplyStays, Zenon DEF EcallFails, BridgeInv
<1> QED
  BY <1>1, <1>2, <1>3, Zenon DEF BridgeInv, EcallFails

\* The checks at the entry: nothing is copied yet.
LEMMA EnterInv ==
  ASSUME BridgeInv, Enter
  PROVE  BridgeInv'
<1>1. /\ DOMAIN copies = {} /\ copies' = copies /\ told = -1 /\ told' = told
      /\ size' = msSize /\ msSize' = msSize
      /\ (at' = "return" /\ status' = "invalid_parameter") \/ at' = "copy"
  BY Zenon DEF BridgeInv, CopiesInv, SizeInv, Enter
<1>2. CopiesInv'
  BY <1>1, Zenon DEF CopiesInv
<1>3. SizeInv'
  BY <1>1, Zenon DEF BridgeInv, SizeInv
<1>4. OutcomeInv'
  BY <1>1, Zenon DEF OutcomeInv
<1>5. ReplyInv'
  BY ReplyStays, Zenon DEF Enter, BridgeInv
<1> QED
  BY <1>1, <1>2, <1>3, <1>4, <1>5, Zenon DEF BridgeInv

\* A copy has the length the bridge read, and a failure is never a success.
LEMMA CopyInInv ==
  ASSUME BridgeInv, NEW fail \in {"no", "malloc", "memcpy"}, CopyIn(fail)
  PROVE  BridgeInv'
<1>1. PICK k \in ToCopy :
      /\ at = "copy" /\ UNCHANGED <<bridge, ptr, msSize, size, told, outTold, wrote, got, reply>>
      /\ copies' = copies \/ copies' = WithCopy(k)
      /\ (at' = at /\ status' = status) \/ (at' = "err" /\ status' # "success")
  BY Zenon DEF CopyIn
<1>2. k \in DOMAIN ptr
  BY Zenon DEF ToCopy
<1>3. CopiesInv'
  <2>1. DOMAIN copies' \subseteq DOMAIN ptr
    BY <1>1, <1>2, Zenon DEF BridgeInv, CopiesInv, WithCopy
  <2>2. \A j \in DOMAIN copies' : /\ Kinds[j] = "sized" => copies'[j] = size
                                  /\ Kinds[j] = "open" => copies'[j] = 1
    <3>1. CASE copies' = copies
      BY <3>1, Zenon DEF BridgeInv, CopiesInv
    <3>2. CASE copies' = WithCopy(k)
      BY <3>2, Zenon DEF BridgeInv, CopiesInv, WithCopy, LenOf
    <3> QED
      BY <1>1, <3>1, <3>2, Zenon
  <2> QED
    BY <1>1, <2>1, <2>2, Zenon DEF CopiesInv, Kinds
<1>4. SizeInv'
  BY <1>1, Zenon DEF BridgeInv, SizeInv
<1>5. OutcomeInv'
  BY <1>1, Zenon DEF OutcomeInv
<1>6. ReplyInv'
  BY <1>1, ReplyStays, Zenon DEF BridgeInv
<1> QED
  BY <1>1, <1>3, <1>4, <1>5, <1>6, Zenon DEF BridgeInv

\* The trusted function is called when every buffer the caller gave is there.
LEMMA CallInv ==
  ASSUME BridgeInv, Call
  PROVE  BridgeInv'
<1>1. /\ at = "copy" /\ at' = "call" /\ told' = size
      /\ UNCHANGED <<bridge, ptr, msSize, size, copies, wrote, status, got, reply>>
  BY Zenon DEF Call, SizeTold
<1>2. \A k \in DOMAIN ptr : Asks(k) => k \in DOMAIN copies
  BY DEF Call, ToCopy, Asks, IsResult, LenOf
<1>3. CopiesInv'
  BY <1>1, <1>2, Zenon DEF BridgeInv, CopiesInv, Asks, IsResult, Kinds
<1>4. SizeInv'
  BY <1>1 DEF BridgeInv, SizeInv
<1>5. OutcomeInv'
  BY <1>1, Zenon DEF OutcomeInv
<1>6. ReplyInv'
  BY <1>1, ReplyStays, Zenon DEF BridgeInv
<1> QED
  BY <1>1, <1>3, <1>4, <1>5, <1>6, Zenon DEF BridgeInv

\* A return without an error has copied every result out.
LEMMA ReturnInv ==
  ASSUME BridgeInv, NEW fail \in BOOLEAN, Return(fail)
  PROVE  BridgeInv'
<1>1. /\ at = "call" /\ at' = "err" /\ reply.at = "none"
      /\ UNCHANGED <<bridge, ptr, msSize, size, copies, told, outTold, got, reply>>
  BY Zenon DEF Return
<1>2. \/ status' # "success"
      \/ wrote' = {k \in DOMAIN copies : IsResult(k)}
  BY Zenon DEF Return
<1>3. CopiesInv'
  BY <1>1, Zenon DEF BridgeInv, CopiesInv, Kinds
<1>4. SizeInv'
  BY <1>1, Zenon DEF BridgeInv, SizeInv
<1>5. OutcomeInv'
  <2>1. told' # -1
    BY <1>1, Zenon DEF BridgeInv, SizeInv
  <2>2. status' = "success" => \A k \in DOMAIN ptr : Asks(k) => k \in wrote'
    BY <1>1, <1>2, Zenon DEF BridgeInv, CopiesInv, Asks
  <2> QED
    BY <1>1, <2>1, <2>2, Zenon DEF OutcomeInv, Asks, IsResult, Kinds
<1>6. ReplyInv'
  BY <1>1, ReplyStays, Zenon DEF BridgeInv
<1> QED
  BY <1>1, <1>3, <1>4, <1>5, <1>6, Zenon DEF BridgeInv

\* The label err frees every copy and changes no outcome.
LEMMA FreeInv ==
  ASSUME BridgeInv, Free
  PROVE  BridgeInv'
<1>1. /\ at = "err" /\ at' = "return" /\ DOMAIN copies' = {}
      /\ UNCHANGED <<bridge, ptr, msSize, size, told, outTold, wrote, status, got, reply>>
  BY Zenon DEF Free
<1>2. CopiesInv'
  BY <1>1, Zenon DEF CopiesInv
<1>3. SizeInv'
  BY <1>1, Zenon DEF BridgeInv, SizeInv
<1>4. OutcomeInv'
  BY <1>1, Zenon DEF BridgeInv, OutcomeInv, Asks, IsResult, Kinds
<1>5. ReplyInv'
  BY <1>1, ReplyStays, Zenon DEF BridgeInv
<1> QED
  BY <1>1, <1>2, <1>3, <1>4, <1>5, Zenon DEF BridgeInv

\* The proxy hands its caller the return value of a success only.
LEMMA ProxyReturnInv ==
  ASSUME BridgeInv, ProxyReturn
  PROVE  BridgeInv'
<1>1. /\ at = "return" /\ at' = "idle" /\ got' = <<status, status = "success">>
      /\ UNCHANGED <<bridge, ptr, msSize, size, copies, told, outTold, wrote, status, reply>>
  BY Zenon DEF ProxyReturn, HandsRetval
<1>2. CopiesInv'
  BY <1>1, Zenon DEF BridgeInv, CopiesInv, Kinds
<1>3. SizeInv'
  BY <1>1, Zenon DEF BridgeInv, SizeInv
<1>4. OutcomeInv'
  <2>1. got'[2] = (status' = "success")
    BY <1>1, Zenon
  <2> QED
    BY <1>1, <2>1, Zenon DEF BridgeInv, OutcomeInv, Asks, IsResult, Kinds
<1>5. ReplyInv'
  BY <1>1, ReplyStays, Zenon DEF BridgeInv
<1> QED
  BY <1>1, <1>2, <1>3, <1>4, <1>5, Zenon DEF BridgeInv

\* An OCALL starts with memory for everything it is going to copy.
LEMMA OcallReplyInv ==
  ASSUME BridgeInv, NEW header \in BOOLEAN, NEW len \in Sizes, OcallReply(header, len)
  PROVE  BridgeInv'
<1> DEFINE h == IF header THEN HeaderSize ELSE 0
           one == (MsSize + h) % 2 ^ Width
           m == [at |-> "header", header |-> header, len |-> len,
                 frame |-> (one + len) % 2 ^ Width, used |-> MsSize]
<1>1. at = "call" /\ callVars' = callVars
  BY Zenon DEF OcallReply, callVars
<1>2. CASE AddOverflows(MsSize, h) \/ AddOverflows(one, len)
  <2>1. reply' = reply
    BY <1>2, Zenon DEF OcallReply
  <2> QED
    BY <1>1, <2>1, ReplyStays, CallStays, Zenon DEF BridgeInv, callVars
<1>3. CASE ~AddOverflows(MsSize, h) /\ ~AddOverflows(one, len)
  <2>1. reply' = Nowhere \/ reply' = m
    BY <1>3, Zenon DEF OcallReply
  <2>2. h \in Sizes /\ MsSize \in Sizes /\ Sizes \subseteq Nat
    BY BridgeAssumption DEF Sizes
  <2>3. one = MsSize + h /\ one \in Sizes
    BY <1>3, <2>2, NoWrap, Zenon
  <2>4. m.frame = MsSize + h + len
    <3>1. (one + len) % 2 ^ Width = one + len
      BY <1>3, <2>3, NoWrap, Zenon
    <3> HIDE DEF one, h
    <3>2. m.frame = one + len
      BY <3>1, Zenon
    <3> QED
      BY <2>2, <2>3, <3>2, Zenon
  <2>5. Fits(m)
    <3>1. m.header = header /\ m.len = len
      BY Zenon
    <3>2. MsSize \in Nat /\ h \in Nat /\ len \in Nat
      BY <2>2, Zenon
    <3> HIDE DEF h
    <3>3. MsSize + h + len \in Nat /\ m.frame \in Nat
      BY <2>4, <3>2
    <3>4. MsSize + h + len <= m.frame
      BY <2>4, <3>3
    <3> HIDE DEF m
    <3> QED
      BY <3>1, <3>4, Zenon DEF Fits, h
  <2>6. m.at = "header" /\ Nowhere.at = "none"
    BY Zenon DEF Nowhere
  <2> HIDE DEF m
  <2>7. ReplyInv'
    BY <1>1, <2>1, <2>5, <2>6, Zenon DEF ReplyInv, callVars, Fits
  <2> QED
    BY <1>1, <2>7, CallStays, Zenon
<1> QED
  BY <1>2, <1>3, Zenon

\* Its copies change neither the sizes nor the memory.
LEMMA OcallCopyInv ==
  ASSUME BridgeInv, OcallCopy
  PROVE  BridgeInv'
<1>1. callVars' = callVars /\ reply.at # "none"
  BY Zenon DEF OcallCopy, callVars
<1>2. at = "call"
  BY <1>1 DEF BridgeInv, ReplyInv, Nowhere
<1>3. \/ reply' = Nowhere
      \/ /\ reply'.at # "none" /\ reply'.header = reply.header
         /\ reply'.len = reply.len /\ reply'.frame = reply.frame
  BY DEF OcallCopy
<1>4. CASE reply' = Nowhere
  BY <1>1, <1>4, CallStays, Zenon DEF ReplyInv, Nowhere
<1>5. CASE reply' # Nowhere
  <2>1. /\ reply'.at # "none" /\ reply'.header = reply.header
        /\ reply'.len = reply.len /\ reply'.frame = reply.frame
    BY <1>3, <1>5, Zenon
  <2>2. Fits(reply)'
    BY <1>1, <2>1, Zenon DEF BridgeInv, ReplyInv, Fits
  <2>3. ReplyInv'
    BY <1>1, <1>2, <2>1, <2>2, Zenon DEF ReplyInv, callVars
  <2> QED
    BY <1>1, <2>3, CallStays, Zenon
<1> QED
  BY <1>4, <1>5, Zenon

\* Every step of a bridge keeps the invariant.
LEMMA BridgeNextInv == BridgeInv /\ [BridgeNext]_bridgeVars => BridgeInv'
<1> SUFFICES ASSUME BridgeInv, [BridgeNext]_bridgeVars PROVE BridgeInv'
  BY Zenon
<1>1. CASE Ocall
  BY <1>1, CallStays, Zenon DEF Ocall, ReplyInv, Nowhere, callVars
<1>2. CASE UNCHANGED bridgeVars
  BY <1>2, CallStays, ReplyStays, Zenon DEF bridgeVars, callVars, BridgeInv
<1> QED
  BY <1>1, <1>2, ProxyInv, HostWritesInv, EcallFailsInv, EnterInv, CopyInInv, CallInv,
     ReturnInv, FreeInv, ProxyReturnInv, OcallReplyInv, OcallCopyInv, Zenon DEF BridgeNext

\* A bridge of the enclave tells the trusted function the length of its copy of
\* msg_data although the host may rewrite the size meanwhile (not so the size of
\* ratelimit_fingerprint's result, whose copy is always one byte), makes an OCALL only
\* when no sum of sizes has wrapped, hands its caller results only of a call
\* that was made, and has given all memory back when it returns.
THEOREM BridgeSoundTheorem == BridgeSpec => []BridgeSound
<1>1. BridgeInv => BridgeSound
  <2> SUFFICES ASSUME BridgeInv PROVE BridgeSound
    BY Zenon
  <2>1. NothingLeaks
    BY Zenon DEF BridgeInv, CopiesInv, ReplyInv, NothingLeaks
  <2>2. CopyHasItsSize
    BY Zenon DEF BridgeInv, CopiesInv, SizeInv, CopyHasItsSize
  <2>3. ResultOnlyFromCall
    BY Zenon DEF BridgeInv, OutcomeInv, ResultOnlyFromCall, Asks
  <2>4. ReplyFits
    BY Zenon DEF BridgeInv, ReplyInv, ReplyFits, Fits
  <2> QED
    BY <2>1, <2>2, <2>3, <2>4, Zenon DEF BridgeSound
<1> QED
  BY <1>1, BridgeInitInv, BridgeNextInv, PTL DEF BridgeSpec
=============================================================================
