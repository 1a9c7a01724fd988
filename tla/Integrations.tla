------------------------------ MODULE Integrations ------------------------------
(* The connections of a workspace's provider accounts, the refresh of their tokens, and
   what the agent learns from Fathom's recordings.

   Connecting an account is a chain of statements without a transaction: find the data
   source or insert it, find the connection or insert it.  A refresh is one transaction
   under an advisory lock, held while the provider answers.  A transcript is stored by its
   receiver, as in WebhookInbox, and learnt by a run with one transaction in the middle.  *)
EXTENDS Naturals, SequencesExt

CONSTANTS
    Accounts,       \* external ids: a GoHighLevel location, an Aircall user
    NoAccount,      \* GoHighLevel names no location
    Users, Refreshers, Learners,
    Customers, Recordings,
    Transcript,     \* the lengths of a recording's lines
    Invitees,       \* the customers whose address is in its invitation, in order
    MaxChunk, MinChunk,     \* 5000 and 200 characters
    MaxRetries,     \* retries of both functions (2)
    MaxRequests,    \* bound on what users and providers do
    MaxFailures

ASSUME IntegrationsAssumption ==
    /\ NoAccount \notin Accounts
    /\ Transcript \in [Recordings -> Seq(Nat)]
    /\ Invitees \in [Recordings -> Seq(Customers)]
    /\ MaxChunk \in Nat /\ MinChunk \in 1..MaxChunk
    /\ MaxRetries \in Nat /\ MaxRequests \in Nat /\ MaxFailures \in Nat

Providers == {"gohighlevel", "aircall"}
KindOf(tool) == IF tool = "gohighlevel" THEN "appointments" ELSE "calls"

VARIABLES
    honoured,   \* external: the generation of refresh token each grant's provider takes
    sources,    \* data_sources rows of each kind
    conns,      \* data_source_connections rows
    page,       \* the providers each user's page shows as not connected
    connect,    \* the connect request of each user
    refreshes,  \* undelivered requests of a refresh: the connection and the retries used
    run,        \* the refresh each Refresher runs
    customers, inbox, sending, jobs, learner, facts,
    met,        \* history: facts a run looked for while another had inserted them
    lost,       \* history: grants whose new token was lost with its transaction
    requests, failures

tokenVars == <<honoured, sources, conns, page, connect, refreshes, run, lost>>
factVars == <<customers, inbox, sending, jobs, learner, facts, met>>
vars == <<tokenVars, factVars, requests, failures>>

Request == requests < MaxRequests /\ requests' = requests + 1
Failure == failures < MaxFailures /\ failures' = failures + 1

NoRequest == [at |-> "idle", tool |-> "aircall", account |-> NoAccount, grant |-> 0, row |-> 0]
NoRun == [at |-> "idle", conn |-> 0, grant |-> 0, gen |-> 0,
          tries |-> 0, zombie |-> FALSE, crossed |-> FALSE]

-------------------------------------------------------------------------------
(* Connecting an account.  An Aircall connection keeps an API key, of generation 0, and
   never expires.                                                              *)

\* The page lists the live connections; nothing deletes one.  A provider that has one has
\* no link to connect it again.
IntegrationsPage(u) ==
    /\ page' = [page EXCEPT ![u] = Providers \ {conns[c].tool : c \in DOMAIN conns}]
    /\ UNCHANGED <<honoured, sources, conns, connect, refreshes, run, lost, factVars,
                   requests, failures>>

\* Either the user was sent to the provider, came back with a code and a signed state, and
\* the code was exchanged for a grant's first tokens, or the API key was tried.
Connect(u, tool, account) ==
    /\ Request
    /\ connect[u] = NoRequest
    /\ tool \in page[u]
    /\ account = NoAccount => tool = "gohighlevel"
    /\ honoured' = Append(honoured, IF tool = "gohighlevel" THEN 1 ELSE 0)
    /\ connect' = [connect EXCEPT ![u] = [at |-> "source", tool |-> tool, account |-> account,
                                          grant |-> Len(honoured) + 1, row |-> 0]]
    /\ UNCHANGED <<sources, conns, page, refreshes, run, lost, factVars, failures>>

FindSource(u) ==
    /\ connect[u].at = "source"
    /\ connect' = [connect EXCEPT ![u].at =
                       IF sources[KindOf(connect[u].tool)] > 0 THEN "lookup" ELSE "insert"]
    /\ UNCHANGED <<honoured, sources, conns, page, refreshes, run, lost, factVars,
                   requests, failures>>

InsertSource(u) ==
    /\ connect[u].at = "insert"
    /\ sources' = [sources EXCEPT ![KindOf(connect[u].tool)] = @ + 1]
    /\ connect' = [connect EXCEPT ![u].at = "lookup"]
    /\ UNCHANGED <<honoured, conns, page, refreshes, run, lost, factVars, requests, failures>>

\* Without a location nothing is looked for.
Existing(tool, account) ==
    {c \in DOMAIN conns : account # NoAccount /\ conns[c].tool = tool /\ conns[c].account = account}

FindConnection(u) ==
    LET found == Existing(connect[u].tool, connect[u].account)
    IN  /\ connect[u].at = "lookup"
        /\ \E c \in IF found = {} THEN {0} ELSE found :
               connect' = [connect EXCEPT ![u].at = "save", ![u].row = c]
        /\ UNCHANGED <<honoured, sources, conns, page, refreshes, run, lost, factVars,
                       requests, failures>>

\* The row lock of a refresh, from its first update to its commit.
RowHeld(c) == \E w \in Refreshers : run[w].conn = c /\ run[w].at \in {"asking", "answered"}

\* The single statement that writes new tokens waits for a refresh that holds the row.  The
\* backfill requested next is in WebhookInbox.
SaveConnection(u) ==
    LET q == connect[u]
        tokens == [tool |-> q.tool, account |-> q.account, grant |-> q.grant,
                   gen |-> honoured[q.grant], fresh |-> TRUE]
    IN  /\ q.at = "save"
        /\ IF q.row = 0
           THEN conns' = Append(conns, tokens) /\ UNCHANGED run
           ELSE /\ ~ RowHeld(q.row)
                /\ conns' = [conns EXCEPT ![q.row] = tokens]
                /\ run' = [w \in Refreshers |->
                              [run[w] EXCEPT !.crossed = @ \/ (run[w].conn = q.row
                                                              /\ run[w].at = "selected")]]
        /\ connect' = [connect EXCEPT ![u] = NoRequest]
        /\ UNCHANGED <<honoured, sources, page, refreshes, lost, factVars, requests, failures>>

FailConnect(u) ==
    /\ connect[u] # NoRequest
    /\ Failure
    /\ connect' = [connect EXCEPT ![u] = NoRequest]
    /\ UNCHANGED <<honoured, sources, conns, page, refreshes, run, lost, factVars, requests>>

-------------------------------------------------------------------------------
(* The refresh of a token.  No code sends its event; an operator invokes it.   *)

\* External: the access token comes within five minutes of its end.
Expire(c) ==
    /\ Request
    /\ conns[c].tool = "gohighlevel" /\ conns[c].fresh
    /\ conns' = [conns EXCEPT ![c].fresh = FALSE]
    /\ UNCHANGED <<honoured, sources, page, connect, refreshes, run, lost, factVars, failures>>

RequestRefresh(c) ==
    /\ Request
    /\ refreshes' = Append(refreshes, [conn |-> c, tries |-> 0])
    /\ UNCHANGED <<honoured, sources, conns, page, connect, run, lost, factVars, failures>>

\* One run of a connection at a time, as far as the queue knows.
BeginRefresh(w, n) ==
    LET r == refreshes[n]
    IN  /\ run[w] = NoRun
        /\ \A v \in Refreshers : run[v].conn = r.conn => run[v].zombie
        /\ run' = [run EXCEPT ![w] = [NoRun EXCEPT !.at = "begun", !.conn = r.conn,
                                                   !.tries = r.tries]]
        /\ refreshes' = RemoveAt(refreshes, n)
        /\ UNCHANGED <<honoured, sources, conns, page, connect, lost, factVars, requests, failures>>

\* The queue waits no longer and tries again, while the process goes on.
TimeOut(w) ==
    /\ run[w].at # "idle" /\ ~ run[w].zombie
    /\ run[w].tries < MaxRetries
    /\ Failure
    /\ run' = [run EXCEPT ![w].zombie = TRUE]
    /\ refreshes' = Append(refreshes, [conn |-> run[w].conn, tries |-> run[w].tries + 1])
    /\ UNCHANGED <<honoured, sources, conns, page, connect, lost, factVars, requests>>

\* Mutant: no lock.
LockedNever(c) == FALSE

\* pg_advisory_xact_lock.
Locked(c) == \E w \in Refreshers : run[w].conn = c /\ run[w].at \in {"selected", "asking", "answered"}

\* Under the lock: give up without a refresh token, skip if a concurrent run was first.
SelectToken(w) ==
    LET c == conns[run[w].conn]
    IN  /\ run[w].at = "begun"
        /\ ~ Locked(run[w].conn)
        /\ run' = [run EXCEPT ![w] = IF c.gen = 0 \/ c.fresh THEN NoRun
                                     ELSE [@ EXCEPT !.at = "selected", !.grant = c.grant,
                                                    !.gen = c.gen]]
        /\ UNCHANGED <<honoured, sources, conns, page, connect, refreshes, lost, factVars,
                       requests, failures>>

\* The update of refreshLockAcquiredAt, a column nothing reads, locks the row.
HoldRow(w) ==
    /\ run[w].at = "selected"
    /\ ~ RowHeld(run[w].conn)
    /\ run' = [run EXCEPT ![w].at = "asking"]
    /\ UNCHANGED <<honoured, sources, conns, page, connect, refreshes, lost, factVars,
                   requests, failures>>

\* The transaction rolls back; what the queue still waits for is tried again.
Throw(w) ==
    /\ run' = [run EXCEPT ![w] = NoRun]
    /\ refreshes' = IF run[w].zombie \/ run[w].tries = MaxRetries THEN refreshes
                    ELSE Append(refreshes, [conn |-> run[w].conn, tries |-> run[w].tries + 1])

\* External: GoHighLevel takes the token it gave last and gives a new one.
AskProvider(w) ==
    LET r == run[w]
    IN  /\ r.at = "asking"
        /\ IF r.gen = honoured[r.grant]
           THEN /\ honoured' = [honoured EXCEPT ![r.grant] = @ + 1]
                /\ run' = [run EXCEPT ![w].at = "answered"]
                /\ UNCHANGED refreshes
           ELSE Throw(w) /\ UNCHANGED honoured
        /\ UNCHANGED <<sources, conns, page, connect, lost, factVars, requests, failures>>

SaveTokens(w) ==
    LET r == run[w]
    IN  /\ r.at = "answered"
        /\ conns' = [conns EXCEPT ![r.conn].grant = r.grant, ![r.conn].gen = r.gen + 1,
                                  ![r.conn].fresh = TRUE]
        /\ run' = [run EXCEPT ![w] = NoRun]
        /\ UNCHANGED <<honoured, sources, page, connect, refreshes, lost, factVars,
                       requests, failures>>

FailRefresh(w) ==
    /\ run[w].at # "idle"
    /\ Failure
    /\ Throw(w)
    /\ lost' = IF run[w].at = "answered" THEN lost \cup {run[w].grant} ELSE lost
    /\ UNCHANGED <<honoured, sources, conns, page, connect, factVars, requests>>

-------------------------------------------------------------------------------
(* Chunks.  A line is its length, a chunk the lines in it: its text.           *)

Length(buf) == FoldLeft(LAMBDA sum, line : sum + line + 1, 0, buf) - (IF buf = <<>> THEN 0 ELSE 1)

Push(s) == [out |-> IF Length(s.buf) >= MinChunk THEN Append(s.out, s.buf) ELSE s.out,
            buf |-> <<>>]

\* Mutant: the rest is kept, however short.
PiecesAll(line) ==
    [n \in 1..(line \div MaxChunk) |-> <<MaxChunk>>]
        \o (IF line % MaxChunk > 0 THEN << <<line % MaxChunk>> >> ELSE <<>>)

\* An overlong line is cut at the bound; a short rest is noise.
Pieces(line) ==
    [n \in 1..(line \div MaxChunk) |-> <<MaxChunk>>]
        \o (IF line % MaxChunk >= MinChunk THEN << <<line % MaxChunk>> >> ELSE <<>>)

AddLine(s, line) ==
    LET p == IF Length(s.buf) + line + 1 > MaxChunk THEN Push(s) ELSE s
    IN  IF line = 0 THEN s
        ELSE IF line > MaxChunk THEN [out |-> Push(s).out \o Pieces(line), buf |-> <<>>]
        ELSE [p EXCEPT !.buf = Append(@, line)]

chunkTranscript(lines) == Push(FoldLeft(AddLine, [out |-> <<>>, buf |-> <<>>], lines)).out

ChunksOf == [r \in Recordings |-> chunkTranscript(Transcript[r])]

-------------------------------------------------------------------------------
(* Learning from a recording.                                                  *)

NoRow == [stored |-> FALSE, processed |-> FALSE, error |-> FALSE]
NoLearner == [at |-> "idle", rec |-> CHOOSE r \in Recordings : TRUE,
              customer |-> CHOOSE k \in Customers : TRUE, next |-> 0, new |-> {}, tries |-> 0]


AddCustomer(k) ==
    /\ Request
    /\ k \notin customers
    /\ customers' = customers \cup {k}
    /\ UNCHANGED <<tokenVars, inbox, sending, jobs, learner, facts, met, failures>>

\* The receiver: insert, or find the row of an earlier delivery.
Receive(r) ==
    /\ Request
    /\ inbox' = [inbox EXCEPT ![r].stored = TRUE]
    /\ sending' = sending \cup {r}
    /\ UNCHANGED <<tokenVars, customers, jobs, learner, facts, met, failures>>

\* An administrator's replay of the row.
Replay(r) ==
    /\ Request
    /\ inbox[r].stored
    /\ inbox' = [inbox EXCEPT ![r].processed = FALSE, ![r].error = FALSE]
    /\ sending' = sending \cup {r}
    /\ UNCHANGED <<tokenVars, customers, jobs, learner, facts, met, failures>>

\* The event is sent, or the request fails; Fathom then delivers again.
Send(r) ==
    /\ r \in sending
    /\ sending' = sending \ {r}
    /\ \/ jobs' = [jobs EXCEPT ![r] = @ + 1] /\ UNCHANGED failures
       \/ Failure /\ UNCHANGED jobs
    /\ UNCHANGED <<tokenVars, customers, inbox, learner, facts, met, requests>>

TakeJob(w, r) ==
    /\ learner[w] = NoLearner
    /\ jobs[r] > 0
    /\ jobs' = [jobs EXCEPT ![r] = @ - 1]
    /\ learner' = [learner EXCEPT ![w].at = "read", ![w].rec = r]
    /\ UNCHANGED <<tokenVars, customers, inbox, sending, facts, met, requests, failures>>

ReadRow(w) ==
    /\ learner[w].at = "read"
    /\ learner' = [learner EXCEPT ![w] = IF inbox[learner[w].rec].processed THEN NoLearner
                                         ELSE [@ EXCEPT !.at = "resolve"]]
    /\ UNCHANGED <<tokenVars, customers, inbox, sending, jobs, facts, met, requests, failures>>

markProcessed(w, error) ==
    inbox' = [inbox EXCEPT ![learner[w].rec].processed = TRUE, ![learner[w].rec].error = error]

\* The first invitee who is a customer, deleted customers included.
Resolve(w) ==
    LET invited == Invitees[learner[w].rec]
        known == {n \in DOMAIN invited : invited[n] \in customers}
        none == known = {} \/ ChunksOf[learner[w].rec] = <<>>
    IN  /\ learner[w].at = "resolve"
        /\ \/ none /\ markProcessed(w, TRUE) /\ learner' = [learner EXCEPT ![w] = NoLearner]
           \/ /\ ~ none
              /\ \E n \in known :
                     /\ \A m \in known : n <= m
                     /\ learner' = [learner EXCEPT ![w].at = "embed", ![w].customer = invited[n]]
              /\ UNCHANGED inbox
        /\ UNCHANGED <<tokenVars, customers, sending, jobs, facts, met, requests, failures>>

Retry(w) ==
    learner' = [learner EXCEPT ![w] = IF @.tries = MaxRetries THEN NoLearner
                                      ELSE [NoLearner EXCEPT !.at = "read", !.rec = learner[w].rec,
                                                             !.tries = learner[w].tries + 1]]

\* A wrong number of vectors marks the row, so that the retry of the throw skips it.
Embed(w) ==
    /\ learner[w].at = "embed"
    /\ \/ /\ learner' = [learner EXCEPT ![w].at = "learn", ![w].next = 1]
          /\ UNCHANGED <<inbox, failures>>
       \/ Failure /\ markProcessed(w, TRUE) /\ Retry(w)
    /\ UNCHANGED <<tokenVars, customers, sending, jobs, facts, met, requests>>

\* Mutant: nothing is looked for.
KnownNever(w, text) == FALSE

\* What the transaction sees: the facts that are committed and its own.
Known(w, text) ==
    \/ text \in learner[w].new
    \/ \E f \in DOMAIN facts : facts[f].customer = learner[w].customer /\ facts[f].text = text

LearnChunk(w) ==
    LET l == learner[w]
        text == ChunksOf[learner[w].rec][l.next]
        unseen == \E v \in Learners \ {w} : learner[v].customer = l.customer /\ text \in learner[v].new
    IN  /\ l.at = "learn" /\ l.next <= Len(ChunksOf[learner[w].rec])
        /\ learner' = [learner EXCEPT ![w].next = @ + 1,
                                      ![w].new = IF Known(w, text) THEN @ ELSE @ \cup {text}]
        /\ met' = IF unseen THEN met \cup {<<l.customer, text>>} ELSE met
        /\ UNCHANGED <<tokenVars, customers, inbox, sending, jobs, facts, requests, failures>>

CommitFacts(w) ==
    LET l == learner[w]
        rows == {[customer |-> l.customer, text |-> text, contradicted |-> FALSE] : text \in l.new}
    IN  /\ l.at = "learn" /\ l.next > Len(ChunksOf[learner[w].rec])
        /\ facts' = facts \o SetToSeq(rows)
        /\ learner' = [learner EXCEPT ![w].at = "mark", ![w].new = {}]
        /\ UNCHANGED <<tokenVars, customers, inbox, sending, jobs, met, requests, failures>>

MarkLearnt(w) ==
    /\ learner[w].at = "mark"
    /\ markProcessed(w, FALSE)
    /\ learner' = [learner EXCEPT ![w] = NoLearner]
    /\ UNCHANGED <<tokenVars, customers, sending, jobs, facts, met, requests, failures>>

FailLearning(w) ==
    /\ learner[w].at # "idle"
    /\ Failure
    /\ Retry(w)
    /\ UNCHANGED <<tokenVars, customers, inbox, sending, jobs, facts, met, requests>>

\* The agent's tools confirmFact and contradictFact; a turn is shown no contradicted fact.
Judge(f, contradicted) ==
    /\ Request
    /\ facts[f].contradicted # contradicted
    /\ facts' = [facts EXCEPT ![f].contradicted = contradicted]
    /\ UNCHANGED <<tokenVars, customers, inbox, sending, jobs, learner, met, failures>>

-------------------------------------------------------------------------------
Init ==
    /\ honoured = <<>> /\ conns = <<>> /\ refreshes = <<>> /\ facts = <<>>
    /\ sources = [k \in {"appointments", "calls"} |-> 0]
    /\ page = [u \in Users |-> Providers]
    /\ connect = [u \in Users |-> NoRequest]
    /\ run = [w \in Refreshers |-> NoRun]
    /\ customers \in SUBSET Customers
    /\ inbox = [r \in Recordings |-> NoRow]
    /\ sending = {} /\ met = {} /\ lost = {}
    /\ jobs = [r \in Recordings |-> 0]
    /\ learner = [w \in Learners |-> NoLearner]
    /\ requests = 0 /\ failures = 0

ConnectRoutes(u) ==
    \/ \E tool \in Providers, account \in Accounts \cup {NoAccount} : Connect(u, tool, account)
    \/ FindSource(u) \/ InsertSource(u) \/ FindConnection(u) \/ SaveConnection(u) \/ FailConnect(u)

oauthRefresh(w) ==
    \/ \E n \in DOMAIN refreshes : BeginRefresh(w, n)
    \/ SelectToken(w) \/ HoldRow(w) \/ AskProvider(w) \/ SaveTokens(w)
    \/ FailRefresh(w) \/ TimeOut(w)

processFathomInboundEvent(w) ==
    \/ ReadRow(w) \/ Resolve(w) \/ Embed(w)
    \/ LearnChunk(w) \/ CommitFacts(w) \/ MarkLearnt(w)

fathomWebhookHandler(w) ==
    \/ \E r \in Recordings : TakeJob(w, r)
    \/ processFathomInboundEvent(w) \/ FailLearning(w)

Next ==
    \/ \E u \in Users : IntegrationsPage(u) \/ ConnectRoutes(u)
    \/ \E c \in DOMAIN conns : Expire(c) \/ RequestRefresh(c)
    \/ \E w \in Refreshers : oauthRefresh(w)
    \/ \E r \in Recordings : Receive(r) \/ Replay(r) \/ Send(r)
    \/ \E w \in Learners : fathomWebhookHandler(w)
    \/ \E k \in Customers : AddCustomer(k)
    \/ \E f \in DOMAIN facts, contradicted \in BOOLEAN : Judge(f, contradicted)

Spec == Init /\ [][Next]_vars

-------------------------------------------------------------------------------
(* Properties.                                                                 *)

TypeOK ==
    /\ honoured \in Seq(Nat)
    /\ conns \in Seq([tool : Providers, account : Accounts \cup {NoAccount},
                      grant : 1..Len(honoured), gen : Nat, fresh : BOOLEAN])
    /\ \A c \in DOMAIN conns : /\ conns[c].gen = 0 <=> conns[c].tool = "aircall"
                               /\ conns[c].account = NoAccount => conns[c].tool = "gohighlevel"
    /\ \A u \in Users : connect[u].row \in 0..Len(conns) /\ connect[u].grant \in 0..Len(honoured)
    /\ \A w \in Refreshers : run[w].conn \in 0..Len(conns) /\ run[w].grant \in 0..Len(honoured)
    /\ refreshes \in Seq([conn : DOMAIN conns, tries : 0..MaxRetries])
    /\ \A w \in Learners : learner[w].new \subseteq ToSet(ChunksOf[learner[w].rec])
    /\ \A f \in DOMAIN facts : /\ facts[f].customer \in customers
                               /\ Length(facts[f].text) \in MinChunk..MaxChunk

\* "Two webhooks arriving simultaneously cannot double-refresh": a run that asks the provider
\* asks with the tokens that are stored, still expiring and still honoured, whatever run went
\* before and whoever reconnects, unless an answer was lost or the account was reconnected
\* between the run's select and its first update.
AsksWithStoredToken ==
    \A w \in Refreshers :
        LET r == run[w]
            c == conns[r.conn]
        IN  r.at = "asking" /\ ~ r.crossed /\ r.grant \notin lost =>
                r.grant = c.grant /\ r.gen = c.gen /\ ~ c.fresh /\ r.gen = honoured[r.grant]

\* Redelivered, retried or replayed, a recording is learnt once: a customer has each text in
\* one fact, so that the agent is not told again what the user contradicted, unless two runs
\* held it uncommitted at once; and a recording marked as processed is learnt: each line long
\* enough and not too long is whole in a fact of one invitee.
LearntOnce ==
    /\ \A f, g \in DOMAIN facts :
           /\ facts[f].customer = facts[g].customer /\ facts[f].text = facts[g].text
           /\ <<facts[f].customer, facts[f].text>> \notin met
           => f = g
    /\ \A r \in Recordings : inbox[r].processed /\ ~ inbox[r].error =>
           \E n \in DOMAIN Invitees[r] : \A line \in MinChunk..MaxChunk :
               Contains(Transcript[r], line) =>
                   \E f \in DOMAIN facts : /\ facts[f].customer = Invitees[r][n]
                                           /\ Contains(facts[f].text, line)
===============================================================================
