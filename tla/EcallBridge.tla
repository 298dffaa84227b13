----------------------------- MODULE EcallBridge -----------------------------
(***************************************************************************)
(* One thread that crosses the boundary of the enclave: a proxy of         *)
(* cds_enclave_u.c enters one of the eight bridges of cds_enclave_t.c,     *)
(* which checks the pointers of the marshalling structure, copies the      *)
(* buffers in, calls the trusted function, copies the results out and      *)
(* frees its copies.  The trusted function may call out again with         *)
(* sgxsd_ocall_reply.  Sizes are of type size_t and wrap at 2^Width.       *)
(* The structure stays in the host's memory, and its size field may change *)
(* while the bridge runs.  ratelimit_fingerprint declares its result       *)
(* without a size: the bridge makes one byte for it and hands on the size  *)
(* that stands in the host's memory at the call.  No host code calls it.   *)
(***************************************************************************)
EXTENDS Integers, Sequences

CONSTANTS
  Width,      \* the width of size_t in bits
  MsSize,     \* sizeof(ms_sgxsd_ocall_reply_t)
  HeaderSize, \* sizeof(sgxsd_msg_header_t)
  CallSizes   \* the sizes a caller gives for msg_data

VARIABLES
  bridge, \* the ECALL under way, "none" outside the enclave
  at,     \* where the bridge is
  ptr,    \* the pointers of the structure, one per buffer
  msSize, \* its ms_msg_size
  size,   \* _tmp_msg_size
  copies, \* the buffers copied so far: function from index to length
  told,   \* the msg_size the trusted function was given, -1 before the call
  outTold, \* the fingerprint_size it was given, -1 when there is none
  wrote,  \* the results copied back to the host
  status, \* the bridge's return value
  got,    \* what the proxy handed its caller: <<status, retval written>>
  reply   \* the OCALL: [at, header, len, frame, used]

bridgeVars ==
  <<bridge, at, ptr, msSize, size, copies, told, outTold, wrote, status, got, reply>>

\* The buffers of each bridge in the order it copies them; "sized" is an
\* input whose length the caller gives, "open" an output without a declared size.
Buffers ==
  [node_init |-> <<"in">>, get_next_report |-> <<"out">>, set_current_quote |-> <<>>,
   negotiate_request |-> <<"in", "out">>, server_start |-> <<"in">>,
   server_call |-> <<"in", "in", "sized">>, server_stop |-> <<"in">>,
   ratelimit_fingerprint |-> <<"in", "in", "sized", "open">>]

Sizes == 0..(2 ^ Width - 1)

\* The sizes the compiler and the callers give are values of size_t.
ASSUME BridgeAssumption ==
  /\ 2 ^ Width \in Nat \ {0}
  /\ {MsSize, HeaderSize} \cup CallSizes \subseteq Sizes

Nowhere == [at |-> "none", header |-> FALSE, len |-> 0, frame |-> 0, used |-> 0]
Kinds == Buffers[bridge]
Has(b, kind) == \E k \in DOMAIN Buffers[b] : Buffers[b][k] = kind
HasSize(b) == Has(b, "sized")
IsResult(k) == Kinds[k] \in {"out", "open"}

BridgeInit ==
  /\ bridge = "none" /\ at = "idle" /\ ptr = <<>> /\ msSize = 0 /\ size = 0
  /\ copies = <<>> /\ told = -1 /\ outTold = -1 /\ wrote = {} /\ status = "success"
  /\ got = <<"success", FALSE>> /\ reply = Nowhere

\* A proxy fills the structure and enters.
Proxy(b) ==
  /\ at = "idle"
  /\ bridge' = b /\ at' = "entry"
  /\ ptr' \in [DOMAIN Buffers[b] -> {"null", "outside", "inside"}]
  /\ msSize' \in IF HasSize(b) THEN CallSizes ELSE {0}
  /\ size' = 0 /\ copies' = [k \in {} |-> 0]
  /\ told' = -1 /\ outTold' = -1 /\ wrote' = {}
  /\ status' = "success" /\ got' = <<"success", FALSE>>
  /\ UNCHANGED reply

\* The host's memory is not the enclave's.
HostWrites ==
  /\ at \in {"copy", "call"} /\ HasSize(bridge) /\ told = -1
  /\ msSize' \in CallSizes
  /\ UNCHANGED <<bridge, at, ptr, size, copies, told, outTold, wrote, status, got, reply>>

\* sgx_ecall itself fails: the enclave is lost or has no free thread.
EcallFails ==
  /\ at = "entry"
  /\ at' = "return" /\ status' = "sgx_error"
  /\ UNCHANGED <<bridge, ptr, msSize, size, copies, told, outTold, wrote, got, reply>>

\* The pointers are read once and checked: CHECK_REF_POINTER on the
\* structure, CHECK_UNIQUE_POINTER on its fields.
Enter ==
  /\ at = "entry"
  /\ size' = msSize
  /\ IF \E k \in DOMAIN ptr : ptr[k] = "inside"
     THEN at' = "return" /\ status' = "invalid_parameter"
     ELSE at' = "copy" /\ UNCHANGED status
  /\ UNCHANGED <<bridge, ptr, msSize, copies, told, outTold, wrote, got, reply>>

LenOf(k) == IF Kinds[k] = "sized" THEN size ELSE 1

\* The buffers that are still to be copied or made.
ToCopy ==
  {k \in DOMAIN ptr : ptr[k] # "null" /\ LenOf(k) # 0 /\ k \notin DOMAIN copies}

WithCopy(k) == [j \in DOMAIN copies \cup {k} |-> IF j = k THEN LenOf(k) ELSE copies[j]]

\* The next buffer is allocated and filled (an output with zeros), unless
\* malloc or memcpy_s fails: goto err.
CopyIn(fail) ==
  /\ at = "copy"
  /\ \E k \in ToCopy :
       /\ \A j \in ToCopy : k <= j
       /\ \/ fail = "no" /\ copies' = WithCopy(k) /\ UNCHANGED <<at, status>>
          \/ /\ fail = "malloc" /\ UNCHANGED copies
             /\ at' = "err" /\ status' = "out_of_memory"
          \/ /\ fail = "memcpy" /\ copies' = WithCopy(k)
             /\ at' = "err" /\ status' = "unexpected"
  /\ UNCHANGED <<bridge, ptr, msSize, size, told, outTold, wrote, got, reply>>

\* Mutant: the size is read from the structure again.
SizeToldAgain == msSize

\* The size argument of the trusted function.
SizeTold == size

\* The trusted function is called; server_call and server_stop may reply.  The
\* size of the open result is read from the structure only here.
Call ==
  /\ at = "copy" /\ ToCopy = {}
  /\ at' = "call" /\ told' = SizeTold
  /\ outTold' \in IF Has(bridge, "open") THEN CallSizes ELSE {-1}
  /\ UNCHANGED <<bridge, ptr, msSize, size, copies, wrote, status, got, reply>>

\* It returns, and the results are copied out.
Return(fail) ==
  /\ at = "call" /\ reply.at = "none"
  /\ LET outs == {k \in DOMAIN copies : IsResult(k)}
     IN  IF fail THEN outs # {} /\ status' = "unexpected" /\ UNCHANGED wrote
         ELSE wrote' = outs /\ UNCHANGED status
  /\ at' = "err"
  /\ UNCHANGED <<bridge, ptr, msSize, size, copies, told, outTold, got, reply>>

\* err: every copy made is freed.
Free ==
  /\ at = "err"
  /\ copies' = [k \in {} |-> 0] /\ at' = "return"
  /\ UNCHANGED <<bridge, ptr, msSize, size, told, outTold, wrote, status, got, reply>>

\* The proxies copy the return value of the trusted function only then.
HandsRetval == status = "success"

ProxyReturn ==
  /\ at = "return"
  /\ got' = <<status, HandsRetval>>
  /\ at' = "idle"
  /\ UNCHANGED <<bridge, ptr, msSize, size, copies, told, outTold, wrote, status, reply>>

-----------------------------------------------------------------------------
\* ADD_ASSIGN_OVERFLOW
AddOverflows(a, b) == (a + b) % 2 ^ Width < b

\* sgxsd_ocall_reply adds up its sizes and takes the memory for the
\* structure and the copies; without memory, or when the sizes overflow, it
\* gives up.
OcallReply(header, len) ==
  /\ at = "call" /\ bridge \in {"server_call", "server_stop"} /\ reply.at = "none"
  /\ LET h == IF header THEN HeaderSize ELSE 0
         one == (MsSize + h) % 2 ^ Width
         ocalloc_size == (one + len) % 2 ^ Width
     IN  IF AddOverflows(MsSize, h) \/ AddOverflows(one, len)
         THEN UNCHANGED reply
         ELSE reply' \in {Nowhere, [at |-> "header", header |-> header, len |-> len,
                                    frame |-> ocalloc_size, used |-> MsSize]}
  /\ UNCHANGED <<bridge, at, ptr, msSize, size, copies, told, outTold, wrote, status, got>>

\* The header and then the data are copied behind the structure.  memcpy_s
\* is given what is left of the memory as its bound; when it fails, the
\* memory is given back.
OcallCopy ==
  /\ reply.at \in {"header", "data"}
  /\ LET n == IF reply.at = "data" THEN reply.len
              ELSE IF reply.header THEN HeaderSize ELSE 0
         left == (reply.frame - reply.used) % 2 ^ Width
     IN  reply' \in (IF n = 0 THEN {} ELSE {Nowhere}) \cup
           IF n > left THEN {}
           ELSE {[at |-> IF reply.at = "header" THEN "data" ELSE "ocall",
                  header |-> reply.header, len |-> reply.len, frame |-> reply.frame,
                  used |-> (reply.used + n) % 2 ^ Width]}
  /\ UNCHANGED <<bridge, at, ptr, msSize, size, copies, told, outTold, wrote, status, got>>

\* sgx_ocall, and sgx_ocfree whatever it returns.
Ocall ==
  /\ reply.at = "ocall"
  /\ reply' = Nowhere
  /\ UNCHANGED <<bridge, at, ptr, msSize, size, copies, told, outTold, wrote, status, got>>

BridgeNext ==
  \/ \E b \in DOMAIN Buffers : Proxy(b)
  \/ HostWrites \/ EcallFails \/ Enter
  \/ \E fail \in {"no", "malloc", "memcpy"} : CopyIn(fail)
  \/ Call
  \/ \E fail \in BOOLEAN : Return(fail)
  \/ Free \/ ProxyReturn
  \/ \E header \in BOOLEAN, len \in Sizes : OcallReply(header, len)
  \/ OcallCopy \/ Ocall

BridgeSpec == BridgeInit /\ [][BridgeNext]_bridgeVars

-----------------------------------------------------------------------------
\* Whatever fails on the way, a bridge that returned has freed every copy it
\* made and the memory of its OCALLs is given back (the err: labels and the
\* sgx_ocfree before every return).
NothingLeaks == at = "idle" => DOMAIN copies = {} /\ reply = Nowhere

\* The trusted function is told the length of the copy of msg_data it is given,
\* even when the size field in the host's memory has changed since it was
\* checked.  This holds for the buffers whose size sgxsd.edl declares; the result
\* of ratelimit_fingerprint has none, and it stays one byte long whatever
\* fingerprint_size the trusted function is told.
CopyHasItsSize ==
  told # -1 => \A k \in DOMAIN copies : /\ Kinds[k] = "sized" => copies[k] = told
                                        /\ Kinds[k] = "open" => copies[k] = 1

\* A caller that is handed a return value was served: the trusted function
\* ran and every result it asked for is in its memory.
ResultOnlyFromCall ==
  at = "idle" /\ got[2] /\ bridge # "none" =>
    /\ told # -1
    /\ \A k \in DOMAIN ptr : IsResult(k) /\ ptr[k] = "outside" => k \in wrote

\* An OCALL is made with the structure and both whole copies inside the
\* memory that was taken for them: no sum of sizes has wrapped.
ReplyFits ==
  reply.at = "ocall" =>
    MsSize + (IF reply.header THEN HeaderSize ELSE 0) + reply.len <= reply.frame

\* A bridge tells the trusted function the sizes it checked (of the buffers that
\* are declared with one), keeps within the memory it took, hands on results of
\* calls that were made only, and gives everything back.
BridgeSound == NothingLeaks /\ CopyHasItsSize /\ ResultOnlyFromCall /\ ReplyFits
=============================================================================
