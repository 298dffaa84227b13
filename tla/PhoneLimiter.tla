---------------------------- MODULE PhoneLimiter ----------------------------
(***************************************************************************)
(* RateLimitServiceClient and its partitioner, with the endpoint that      *)
(* waits for its decision (ContactDiscoveryResource.getRegisteredContacts).*)
(* The ranges of the configuration give each user the hosts of one range;  *)
(* the client asks them all at once.  Each answer is a future that is      *)
(* completed once, by the answer, by an error or by orTimeout.             *)
(***************************************************************************)
EXTENDS Integers, Sequences, FiniteSets

CONSTANTS
  Hashes,  \* 0..n: the hashes of numbers
  Configs, \* configurations: sequences of [start, end], as given
  Hosts,   \* hosts of the user's range
  Undecided

\* The partitioner refuses a range without hosts.
ASSUME PhoneAssumption ==
  /\ IsFiniteSet(Hashes) /\ Hashes = 0..(Cardinality(Hashes) - 1)
  /\ \A c \in Configs : c \in Seq([start : Hashes, end : Hashes])
  /\ Hosts # {}
  /\ Undecided \notin {"ok", "no", "failed"}

VARIABLES
  config,  \* the configuration
  kind,    \* "attest" or "discovery"
  fut,     \* fut[h]: "pending", "ok", "no" or "failed"
  firstOk, \* history: the first normal answer
  whole,   \* the client's future
  resumed  \* history: what the HTTP response was resumed with, in order

phoneVars == <<config, kind, fut, firstOk, whole, resumed>>

\* Mutant: the gap is not looked for.
AdjacentLoose(prev, curr) == prev.end < curr.start

\* One range is right up against the next.
Adjacent(prev, curr) == prev.end + 1 = curr.start

\* s is c ordered by start.
IsSorted(s, c) ==
  /\ \A k \in 1..(Len(c) - 1) : s[k].start <= s[k + 1].start
  /\ \A r \in {c[k] : k \in 1..Len(c)} :
       Cardinality({k \in 1..Len(c) : s[k] = r}) = Cardinality({k \in 1..Len(c) : c[k] = r})

\* Whether configToHostRanges accepts a configuration.  Ranges with the same
\* start are refused in either order, so any sorted list stands for the one
\* that sort makes.
configToHostRanges(c) ==
  /\ Len(c) >= 1
  /\ \E r \in [1..Len(c) -> {c[k] : k \in 1..Len(c)}] :
       /\ IsSorted(r, c)
       /\ \A k \in 1..Len(c) : r[k].start < r[k].end
       /\ r[1].start = 0
       /\ r[Len(c)].end = Cardinality(Hashes) - 1
       /\ \A k \in 2..Len(c) : Adjacent(r[k - 1], r[k])

\* lookup: the entry of the tree map with the least end not below the hash.
lookup(c, hash) ==
  LET ends == {c[k].end : k \in 1..Len(c)}
      above == {e \in ends : e >= hash}
  IN  {k \in 1..Len(c) : c[k].end \in above /\ \A e \in above : c[k].end <= e}

-----------------------------------------------------------------------------
\* A request of a user reaches the client.
PhoneInit ==
  /\ config \in Configs
  /\ kind \in {"attest", "discovery"}
  /\ fut = [h \in Hosts |-> "pending"]
  /\ firstOk = Undecided /\ whole = Undecided /\ resumed = <<>>

\* Mutant: each normal answer completes the future.
CompletedAgain(f, v) == v

\* CompletableFuture.complete and completeExceptionally: the first wins.
Completed(f, v) == IF f = Undecided THEN v ELSE f

Settled(fs) == \A h \in Hosts : fs[h] # "pending"

\* composeAttestationResponses: the hosts that answered, or a failure.
composeAttestationResponses(fs) ==
  LET responses == {h \in Hosts : fs[h] = "ok"}
  IN  IF responses = {} THEN "failed" ELSE <<"responses", responses>>

\* firstNormalOf: each normal answer tries to complete the result; when all
\* are done and one has failed, an exception does.
firstNormalOf(fs, answer) ==
  LET f == IF answer = "failed" THEN whole ELSE Completed(whole, answer)
  IN  IF Settled(fs) /\ \E h \in Hosts : fs[h] = "failed" THEN Completed(f, "failed") ELSE f

\* The callback of the endpoint, run when the future completes: a refusal is
\* 429, a grant submits the request and resumes with its result or with the
\* exception of submit.  Nothing is registered for a failed future.
Resume(decision) ==
  CASE decision = "no" -> resumed' = Append(resumed, "429")
    [] decision = "ok" -> \E r \in {"response", "exception"} : resumed' = Append(resumed, r)
    [] OTHER -> UNCHANGED resumed

\* What a host's answer becomes: handleAttestationResponse takes only 200,
\* handleDiscoveryAllowedResponse anything below 500 as a decision.
Outcome(code) ==
  CASE code = 200 -> "ok"
    [] code = 429 -> IF kind = "attest" THEN "failed" ELSE "no"
    [] OTHER -> "failed"

\* Host h answers with a status code, or the request fails or times out; an
\* answer after the timeout changes nothing.
HostDone(h, code) ==
  /\ fut[h] = "pending"
  /\ LET answer == Outcome(code)
         fs == [fut EXCEPT ![h] = answer]
     IN  /\ fut' = fs
         /\ firstOk' = IF answer # "failed" /\ firstOk = Undecided THEN answer ELSE firstOk
         /\ IF kind = "attest"
            THEN /\ whole' = IF Settled(fs) THEN composeAttestationResponses(fs) ELSE whole
                 /\ UNCHANGED resumed
            ELSE /\ whole' = firstNormalOf(fs, answer)
                 /\ IF whole' # whole THEN Resume(whole') ELSE UNCHANGED resumed
  /\ UNCHANGED <<config, kind>>

\* With a configuration that is refused the client is never made.
PhoneNext ==
  /\ configToHostRanges(config)
  /\ \E h \in Hosts, code \in {200, 429, 500} : HostDone(h, code)

PhoneSpec == PhoneInit /\ [][PhoneNext]_phoneVars

-----------------------------------------------------------------------------
\* Every accepted configuration gives each hash the one range it lies in:
\* the check that ranges touch and the search by the end of a range agree.
PartitionCovers ==
  configToHostRanges(config) =>
    \A x \in Hashes :
      LET found == lookup(config, x)
      IN  /\ Cardinality(found) = 1
          /\ \A k \in found : config[k].start <= x /\ x <= config[k].end

\* The decision is the first normal answer whatever fails before or after it
\* ("either the first normal result or the last exceptional result"), it is
\* there once all hosts are done, and the HTTP response is resumed once, or
\* not at all when every host failed.  Attestation keeps every host that
\* answered.
FirstNormalWins ==
  IF kind = "attest"
  THEN Settled(fut) =>
         whole = IF firstOk = Undecided THEN "failed"
                 ELSE <<"responses", {h \in Hosts : fut[h] = "ok"}>>
  ELSE /\ firstOk # Undecided => whole = firstOk /\ Len(resumed) = 1
       /\ firstOk = Undecided => resumed = <<>>
       /\ firstOk = Undecided /\ Settled(fut) => whole = "failed"
=============================================================================
