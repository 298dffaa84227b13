------------------------------ MODULE Handshake ------------------------------
(***************************************************************************)
(* SgxHandshakeManager.java over the enclave: a thread that keeps a signed *)
(* quote of the enclave's static key current, and the HTTP threads that    *)
(* negotiate requests for clients.  The monitor of the map of quotes is    *)
(* held by an HTTP thread from reading the quote to the end of the         *)
(* negotiation, and by the refresher while it stores a quote and activates *)
(* its key.  One enclave is configured.                                    *)
(*                                                                         *)
(* A quote names the instance and the key it attests.  Intel's service is  *)
(* external: it signs, refuses with a stale revocation list, or fails.     *)
(* Revocation lists are kept per platform group, and a new instance may    *)
(* report another group, whose list is then missing.                       *)
(***************************************************************************)
EXTENDS SgxsdEnclave

CONSTANT
  Limits   \* bounds: passes of refreshQuote's loop, handshakes and requests of
           \* all clients; a behaviour keeps to one of them

NoQuote == [instance |-> 0, key |-> NoKey]
NoResponse == [quote |-> NoQuote, instance |-> 0, static |-> NoKey,
               id |-> 0, secret |-> NoPrk, matched |-> FALSE]

VARIABLES
  running,      \* the manager was not stopped
  started,      \* start() has returned; HTTP requests are served
  quotes,       \* the signed quote of the enclave
  monitor,      \* thread that holds the monitor of quotes
  refresh,      \* the refresher's place in refreshQuote
  next_quote,   \* quote the refresher has obtained
  revocationList, \* the cached list of the platform's group: "missing",
                \* "stale" when Intel has a newer one, or "fresh"
  passes,       \* passes of refreshQuote's loop
  pass,         \* history: the last one is "going", "done" or "failed", the
                \* latter also when a new instance was loaded under it
  read_quote,   \* client -> quote its handshake read
  activated,    \* history: the stored quote's key was activated in its instance
  read_activated, \* client -> the same, when its handshake began
  response,     \* client -> what it received
  handshakes,   \* handshakes begun
  calls,        \* requests sent
  limits

enclaveVars == <<ringVars, nodeVars, randVars, keyVars, callVars, sealVars>>
refreshVars == <<running, started, refresh, next_quote, revocationList, passes, pass>>
quoteVars == <<quotes, monitor, activated>>
clientVars == <<read_quote, read_activated, response, handshakes, calls, limits>>
vars == <<enclaveVars, refreshVars, quoteVars, clientVars>>

Init ==
  /\ EnclaveInit
  /\ running = TRUE /\ started = FALSE
  /\ quotes = NoQuote /\ monitor = NoThread
  /\ refresh = "list" /\ next_quote = NoQuote
  /\ revocationList \in {"stale", "fresh"} /\ passes = 0 /\ pass = "going"
  /\ activated = FALSE
  /\ read_quote = [c \in Clients |-> NoQuote]
  /\ read_activated = [c \in Clients |-> FALSE]
  /\ response = [c \in Clients |-> NoResponse]
  /\ handshakes = 0
  /\ calls = 0
  /\ limits \in Limits

-----------------------------------------------------------------------------
(* The refresher: refreshQuote, called by start() and then every minute.   *)

\* Mutant: an exception ends the thread.
AfterExceptionEnds == "off"

\* An exception ends start(), and with it the service; in run() it is caught
\* and the thread sleeps until the next round.
AfterException == IF started THEN "list" ELSE "off"

\* refreshQuote ends with an exception.
PassFails == refresh' = AfterException /\ pass' = "failed"

\* A pass of the loop looks up the list of the enclave's group; then
\* getNextQuote enters the instance that is loaded.
BeginRefresh ==
  /\ refresh = "list" /\ running /\ passes < limits.passes
  /\ passes' = passes + 1
  /\ IF revocationList # "missing" /\ initialized
       THEN /\ pc' = [pc EXCEPT ![Refresher] = "rand"]
            /\ entered' = [entered EXCEPT ![Refresher] = instance]
            /\ refresh' = "report" /\ pass' = "going"
       ELSE /\ UNCHANGED <<pc, entered>>
            /\ IF revocationList = "missing" THEN refresh' = "fetch" /\ pass' = "going"
                                            ELSE PassFails
  /\ UNCHANGED <<ringVars, nodeVars, randVars, keyVars, static, sealVars, running, started,
                 next_quote, revocationList, quoteVars, clientVars>>

\* A missing or stale list is fetched again, for the group the enclave has now,
\* and the loop makes another pass after a second, unless the manager is
\* stopped.  When the fetch fails its exception leaves refreshQuote.
FetchList(ok) ==
  /\ refresh = "fetch"
  /\ IF ok THEN /\ revocationList' = "fresh" /\ pass' = "failed"
                /\ refresh' = IF running THEN "list" ELSE "off"
           ELSE PassFails /\ UNCHANGED revocationList
  /\ UNCHANGED <<enclaveVars, running, started, next_quote, passes, quoteVars, clientVars>>

\* getNextQuote returns the quote of the key it has stored.  It throws when
\* the enclave makes no report, or the quoting enclave no quote of it; in the
\* second case the key is stored.
FinishReport(result) ==
  /\ refresh = "report"
  /\ store_report_key(Refresher, result # "unreported")
  /\ IF result = "quote"
       THEN /\ next_quote' = [instance |-> instance, key |-> drawn[Refresher]]
            /\ refresh' = "sign" /\ UNCHANGED pass
       ELSE PassFails /\ UNCHANGED next_quote
  /\ UNCHANGED <<running, started, revocationList, passes, quoteVars, clientVars>>

\* getNextQuote throws: the instance was lost under it, or the draw failed.
FailReport ==
  /\ refresh = "report"
  /\ Abort(Refresher)
  /\ PassFails
  /\ UNCHANGED <<running, started, next_quote, revocationList, passes, quoteVars, clientVars>>

\* getQuoteSignature.  Intel signs no quote made with a stale list; the list of
\* another group says nothing about the one the quote was made with.
Sign(result) ==
  /\ refresh = "sign"
  /\ result = "signed" => revocationList # "stale"
  /\ result = "stale" => revocationList # "fresh"
  /\ next_quote' = IF result = "signed" THEN next_quote ELSE NoQuote
  /\ \/ result = "signed" /\ refresh' = "put" /\ UNCHANGED pass
     \/ result = "stale" /\ refresh' = "fetch" /\ UNCHANGED pass
     \/ result = "failed" /\ PassFails
  /\ UNCHANGED <<enclaveVars, running, started, revocationList, passes, quoteVars, clientVars>>

\* Intel publishes a new revocation list.
ListExpires ==
  /\ revocationList = "fresh"
  /\ refresh = "report"
  /\ revocationList' = "stale"
  /\ UNCHANGED <<enclaveVars, running, started, refresh, next_quote, passes, pass, quoteVars, clientVars>>

PutQuote ==
  /\ refresh = "put" /\ monitor = NoThread
  /\ monitor' = Refresher
  /\ quotes' = next_quote /\ next_quote' = NoQuote
  /\ activated' = FALSE
  /\ refresh' = "activate"
  /\ UNCHANGED <<enclaveVars, running, started, revocationList, passes, pass, clientVars>>

\* setCurrentQuote, in whatever instance is loaded now.
ActivateQuote ==
  /\ refresh = "activate"
  /\ sgxsd_enclave_set_current_quote
  /\ monitor' = NoThread
  /\ activated' = (quotes.instance = instance)
  /\ refresh' = "list" /\ started' = TRUE
  /\ pass' = IF pass = "going" THEN "done" ELSE pass
  /\ UNCHANGED <<running, next_quote, revocationList, passes, quotes, clientVars>>

\* setCurrentQuote throws: no instance is loaded, or no thread slot is free.
FailActivate ==
  /\ refresh = "activate"
  /\ monitor' = NoThread
  /\ PassFails
  /\ UNCHANGED <<enclaveVars, running, started, next_quote, revocationList, passes, quotes, activated,
                 clientVars>>

stop ==
  /\ running /\ started
  /\ running' = FALSE
  /\ UNCHANGED <<enclaveVars, started, refresh, next_quote, revocationList, passes, pass, quoteVars,
                 clientVars>>

-----------------------------------------------------------------------------
(* A client's handshake, on its HTTP thread.                               *)

\* Mutant: the quote is read before the monitor is taken.
BeginHandshakeUnlocked(c) ==
  /\ started /\ pc[c] = "out" /\ handshakes < limits.handshakes
  /\ handshakes' = handshakes + 1
  /\ IF initialized
       THEN /\ read_quote' = [read_quote EXCEPT ![c] = quotes]
            /\ read_activated' = [read_activated EXCEPT ![c] = activated]
            /\ pc' = [pc EXCEPT ![c] = "rand"]
            /\ entered' = [entered EXCEPT ![c] = instance]
       ELSE UNCHANGED <<pc, entered, read_quote, read_activated>>
  /\ UNCHANGED <<ringVars, nodeVars, randVars, keyVars, static, sealVars, refreshVars,
                 quoteVars, response, calls, limits>>

\* getHandshake reads the quote and enters the enclave, in the monitor.
BeginHandshake(c) ==
  /\ started /\ pc[c] = "out" /\ handshakes < limits.handshakes /\ monitor = NoThread
  /\ handshakes' = handshakes + 1
  /\ IF initialized
       THEN /\ read_quote' = [read_quote EXCEPT ![c] = quotes]
            /\ read_activated' = [read_activated EXCEPT ![c] = activated]
            /\ pc' = [pc EXCEPT ![c] = "rand"]
            /\ entered' = [entered EXCEPT ![c] = instance]
            /\ monitor' = c
       ELSE UNCHANGED <<pc, entered, monitor, read_quote, read_activated>>
  /\ UNCHANGED <<ringVars, nodeVars, randVars, keyVars, static, sealVars, refreshVars, quotes,
                 activated, response, calls, limits>>

\* getHandshake returns or throws.
ForgetQuote(c) ==
  /\ read_quote' = [read_quote EXCEPT ![c] = NoQuote]
  /\ read_activated' = [read_activated EXCEPT ![c] = FALSE]

FinishHandshake(c, ok) ==
  /\ finish_negotiation(c, ok)
  /\ monitor' = IF monitor = c THEN NoThread ELSE monitor
  /\ response' = [response EXCEPT ![c] =
       IF ok THEN [quote |-> read_quote[c], instance |-> instance, static |-> static[c],
                   id |-> last_pending_request_id_val + 1, secret |-> SharedSecret(c),
                   matched |-> read_activated[c]]
             ELSE NoResponse]
  /\ ForgetQuote(c)
  /\ UNCHANGED <<refreshVars, quotes, activated, handshakes, calls, limits>>

\* The negotiation throws: its instance was lost, or the draw failed.
FailHandshake(c) ==
  /\ Abort(c)
  /\ monitor' = IF monitor = c THEN NoThread ELSE monitor
  /\ ForgetQuote(c)
  /\ UNCHANGED <<refreshVars, quotes, activated, response, handshakes, calls, limits>>

\* The client sends its request, perhaps again, perhaps to another instance,
\* where its id does not open.
SendRequest(c, intact) ==
  /\ response[c] # NoResponse /\ pc[c] = "out" /\ calls < limits.calls
  /\ calls' = calls + 1
  /\ IF initialized /\ response[c].instance = instance
       THEN sgxsd_enclave_server_call(response[c].id, response[c].secret, intact)
       ELSE UNCHANGED enclaveVars
  /\ UNCHANGED <<refreshVars, quoteVars, read_quote, read_activated, response, handshakes, limits>>

-----------------------------------------------------------------------------
LoseInstance == Lose /\ UNCHANGED <<refreshVars, quoteVars, clientVars>>

\* An instance that starts may report another group of the platform.
Restart(ok) ==
  /\ sgxsd_enclave_node_init(ok)
  /\ revocationList' \in {revocationList} \cup {list \in {"missing"} : ok}
  /\ pass' = IF refresh = "list" THEN pass ELSE "failed"
  /\ UNCHANGED <<running, started, refresh, next_quote, passes, quoteVars, clientVars>>

Draw(t) ==
  /\ read_rand_enter(t) \/ read_rand_leave(t)
  /\ UNCHANGED <<refreshVars, quoteVars, clientVars>>

CopyStatic(c) == copy_static(c) /\ UNCHANGED <<refreshVars, quoteVars, clientVars>>

Answer(key) ==
  /\ (\E r \in RandomIVs : sgxsd_enclave_server_reply(key, r)) \/ sgxsd_enclave_server_noreply(key)
  /\ UNCHANGED <<refreshVars, quoteVars, clientVars>>

RefreshStep ==
  \/ BeginRefresh
  \/ \E ok \in BOOLEAN : FetchList(ok)
  \/ \E result \in {"quote", "unquoted", "unreported"} : FinishReport(result)
  \/ FailReport
  \/ \E result \in {"signed", "stale", "failed"} : Sign(result)
  \/ PutQuote
  \/ ActivateQuote
  \/ FailActivate

ClientStep(c) ==
  \/ BeginHandshake(c)
  \/ CopyStatic(c)
  \/ \E ok \in BOOLEAN : FinishHandshake(c, ok)
  \/ FailHandshake(c)
  \/ \E intact \in BOOLEAN : SendRequest(c, intact)

Next ==
  \/ RefreshStep
  \/ \E t \in Threads : Draw(t)
  \/ \E c \in Clients : ClientStep(c)
  \/ \E key \in held : Answer(key)
  \/ ListExpires
  \/ stop
  \/ LoseInstance
  \/ \E ok \in BOOLEAN : Restart(ok)

Spec == Init /\ [][Next]_vars

\* The refresher's thread and a thread inside the enclave keep running; a
\* negotiation holds the monitor for a bounded time only.
Fairness ==
  /\ WF_vars(RefreshStep)
  /\ \A t \in Threads : WF_vars(Draw(t))
  /\ \A c \in Clients :
       WF_vars(\/ CopyStatic(c) \/ FailHandshake(c)
               \/ \E ok \in BOOLEAN : FinishHandshake(c, ok))

FairSpec == Spec /\ Fairness

-----------------------------------------------------------------------------
\* A client gets the quote of the very key its request was negotiated with,
\* when that key was activated and the instance was not replaced since.
QuoteMatchesKey ==
  \A c \in Clients :
    LET r == response[c]
    IN  r # NoResponse /\ r.matched /\ r.quote.instance = r.instance => r.quote.key = r.static

\* The key of a stored quote that was activated is the one negotiations use,
\* until the instance is replaced.
Matched == quotes.instance = instance /\ quotes.key = dh_keypair
StoredQuoteIsCurrent ==
  activated /\ initialized /\ quotes.instance = instance => Matched

\* While refreshQuote can make another pass, a mismatch between the stored
\* quote and the enclave's key (a new instance, a failed setCurrentQuote) is
\* repaired, unless the manager is stopped or even the last pass the bound
\* allows fails or has a new instance loaded under it: an exception does not
\* end the thread, and a pass that ends well leaves the quote of the key in use.
PassesSpent == refresh = "list" /\ passes = limits.passes
MismatchIsRepaired ==
  (started /\ ~Matched /\ ~PassesSpent)
    ~> (Matched \/ ~running \/ (PassesSpent /\ pass = "failed"))
=============================================================================
