--------------------------- MODULE IntegrationsProofs ---------------------------
(* What holds of the tokens of a workspace's connections, and of the facts the agent learns
   from recordings, for any accounts, users, transcripts and runs, and any number of
   requests and failures.                                                           *)
EXTENDS Integrations, FiniteSetTheorems, TLAPS

Conn == [tool : Providers, account : Accounts \cup {NoAccount}, grant : Nat, gen : Nat,
         fresh : BOOLEAN]
Req == [at : {"idle", "source", "insert", "lookup", "save"}, tool : Providers,
        account : Accounts \cup {NoAccount}, grant : Nat, row : Nat]
Run == [at : {"idle", "begun", "selected", "asking", "answered"}, conn : Nat, grant : Nat,
        gen : Nat, tries : Nat, zombie : BOOLEAN, crossed : BOOLEAN]
Job == [conn : Nat, tries : Nat]

Under(x) == x.at \in {"selected", "asking", "answered"}
Holds(w) == Under(run[w])

TokensTyped ==
    /\ honoured \in Seq(Nat) /\ conns \in Seq(Conn)
    /\ \A c \in 1..Len(conns) : conns[c].grant \in 1..Len(honoured)
    /\ connect \in [Users -> Req]
    /\ \A u \in Users : /\ connect[u].row \in 0..Len(conns)
                        /\ connect[u].at # "idle" => connect[u].grant \in 1..Len(honoured)
    /\ run \in [Refreshers -> Run]
    /\ \A w \in Refreshers :
           /\ run[w].at # "idle" => run[w].conn \in 1..Len(conns)
           /\ Holds(w) => run[w].grant \in 1..Len(honoured)
    /\ refreshes \in Seq(Job)
    /\ \A n \in 1..Len(refreshes) : refreshes[n].conn \in 1..Len(conns)

(* The advisory lock.                                                                *)
OneHolder ==
    \A v, w \in Refreshers : Holds(v) /\ Holds(w) /\ run[v].conn = run[w].conn => v = w

(* A grant is of one request, then of one connection, and of one run.                *)
GrantsApart ==
    /\ \A c, d \in 1..Len(conns) : conns[c].grant = conns[d].grant => c = d
    /\ \A u \in Users : connect[u].at # "idle" =>
           /\ \A c \in 1..Len(conns) : conns[c].grant # connect[u].grant
           /\ \A v \in Users : connect[v].at # "idle" /\ connect[v].grant = connect[u].grant => v = u
           /\ \A w \in Refreshers : Holds(w) => run[w].grant # connect[u].grant
    /\ \A w \in Refreshers, c \in 1..Len(conns) :
           Holds(w) /\ conns[c].grant = run[w].grant => c = run[w].conn
    /\ \A v, w \in Refreshers : Holds(v) /\ Holds(w) /\ run[v].grant = run[w].grant => v = w

(* What is stored is what the provider takes, but for an answer that is being stored.   *)
StoredHonoured ==
    \A c \in 1..Len(conns) :
        \/ conns[c].grant \in lost
        \/ honoured[conns[c].grant] = conns[c].gen
        \/ \E w \in Refreshers : run[w].at = "answered" /\ run[w].grant = conns[c].grant

(* And so is what a run has read, until the provider has answered it.                   *)
RunsHonoured ==
    \A w \in Refreshers :
        /\ run[w].at \in {"selected", "asking"} /\ run[w].grant \notin lost =>
               honoured[run[w].grant] = run[w].gen
        /\ run[w].at = "answered" => honoured[run[w].grant] = run[w].gen + 1

(* What a run has read is still there, unless a reconnect crossed it.                   *)
RunsCurrent ==
    \A w \in Refreshers : Holds(w) /\ ~ run[w].crossed =>
        /\ run[w].grant = conns[run[w].conn].grant /\ run[w].gen = conns[run[w].conn].gen
        /\ ~ conns[run[w].conn].fresh

TokenInv ==
    /\ TokensTyped /\ OneHolder /\ GrantsApart
    /\ StoredHonoured /\ RunsHonoured /\ RunsCurrent

-------------------------------------------------------------------------------
(* Data.                                                                       *)

LEMMA RowReplaced ==
    ASSUME NEW S, NEW s \in Seq(S), NEW i \in 1..Len(s), NEW x \in S
    PROVE  /\ [s EXCEPT ![i] = x] \in Seq(S) /\ Len([s EXCEPT ![i] = x]) = Len(s)
           /\ [s EXCEPT ![i] = x][i] = x
           /\ \A j \in 1..Len(s) \ {i} : [s EXCEPT ![i] = x][j] = s[j]
  OBVIOUS

LEMMA RowAppended ==
    ASSUME NEW S, NEW s \in Seq(S), NEW x \in S
    PROVE  /\ Append(s, x) \in Seq(S) /\ Len(Append(s, x)) = Len(s) + 1 /\ Len(s) \in Nat
           /\ Append(s, x)[Len(s) + 1] = x
           /\ \A j \in 1..Len(s) : Append(s, x)[j] = s[j]
  OBVIOUS

LEMMA IdleIsTyped ==
    /\ NoRequest \in Req /\ NoRequest.at = "idle" /\ NoRequest.row = 0
    /\ NoRun \in Run /\ NoRun.at = "idle" /\ ~ Under(NoRun)
  BY DEF NoRequest, Req, NoRun, Run, Under, Providers

-------------------------------------------------------------------------------
(* Steps that write neither tokens nor grants.                                 *)

\* Pages, facts, and requests of a refresh.
LEMMA OthersMove ==
    ASSUME TokenInv, UNCHANGED <<honoured, conns, connect, run, lost>>,
           refreshes' \in Seq(Job),
           \A n \in 1..Len(refreshes') : refreshes'[n].conn \in 1..Len(conns)
    PROVE  TokenInv'
<1>1. TokensTyped'
  BY DEF TokenInv, TokensTyped, Holds, Under
<1>2. OneHolder' /\ GrantsApart' /\ StoredHonoured' /\ RunsHonoured' /\ RunsCurrent'
  BY DEF TokenInv, OneHolder, GrantsApart, StoredHonoured, RunsHonoured, RunsCurrent, Holds, Under
<1>3. QED
  BY <1>1, <1>2 DEF TokenInv

\* A connect request goes on or gives up.
LEMMA RequestMoves ==
    ASSUME TokenInv, NEW u \in Users, NEW x \in Req, connect' = [connect EXCEPT ![u] = x],
           connect[u].at # "idle", x.row \in 0..Len(conns),
           x.at = "idle" \/ x.grant = connect[u].grant,
           UNCHANGED <<honoured, conns, run, lost, refreshes>>
    PROVE  TokenInv'
<1>1. /\ connect' \in [Users -> Req] /\ connect'[u] = x
      /\ \A v \in Users \ {u} : connect'[v] = connect[v]
  BY DEF TokenInv, TokensTyped
<1>2. TokensTyped'
  BY <1>1 DEF TokenInv, TokensTyped, Holds, Under
<1>3. GrantsApart'
  <2>1. \A v \in Users : connect'[v].at # "idle" =>
            connect[v].at # "idle" /\ connect'[v].grant = connect[v].grant
    BY <1>1
  <2>2. QED
    BY <2>1 DEF TokenInv, GrantsApart, Holds, Under
<1>4. OneHolder' /\ StoredHonoured' /\ RunsHonoured' /\ RunsCurrent'
  BY DEF TokenInv, OneHolder, StoredHonoured, RunsHonoured, RunsCurrent, Holds, Under
<1>5. QED
  BY <1>2, <1>3, <1>4 DEF TokenInv

\* A run begins, takes the row's lock, is given up by the queue, or ends without an answer
\* to store; an answer that is not stored is noted.
LEMMA RunMoves ==
    ASSUME TokenInv, NEW w \in Refreshers, NEW x \in Run, run' = [run EXCEPT ![w] = x],
           x.at # "idle" => x.conn \in 1..Len(conns),
           \/ ~ Under(x) /\ (run[w].at = "answered" => run[w].grant \in lost')
           \/ /\ Holds(w) /\ x.conn = run[w].conn /\ x.grant = run[w].grant
              /\ x.gen = run[w].gen /\ x.crossed = run[w].crossed
              /\ x.at = run[w].at \/ (run[w].at = "selected" /\ x.at = "asking"),
           lost \subseteq lost', UNCHANGED <<honoured, conns, connect>>,
           refreshes' \in Seq(Job),
           \A n \in 1..Len(refreshes') : refreshes'[n].conn \in 1..Len(conns)
    PROVE  TokenInv'
<1>1. /\ run' \in [Refreshers -> Run] /\ run'[w] = x
      /\ \A v \in Refreshers \ {w} : run'[v] = run[v]
  BY DEF TokenInv, TokensTyped
<1>2. \A v \in Refreshers : Under(run'[v]) =>
          /\ Holds(v) /\ run'[v].conn = run[v].conn /\ run'[v].grant = run[v].grant
          /\ run'[v].gen = run[v].gen /\ run'[v].crossed = run[v].crossed
          /\ \/ run'[v].at = run[v].at
             \/ run[v].at = "selected" /\ run'[v].at = "asking"
  BY <1>1 DEF Holds
<1>3. TokensTyped'
  BY <1>1, <1>2 DEF TokenInv, TokensTyped, Holds
<1>4. OneHolder'
  BY <1>2 DEF TokenInv, OneHolder, Holds
<1>5. GrantsApart'
  BY <1>2 DEF TokenInv, GrantsApart, Holds
<1>6. StoredHonoured'
  <2>1. ASSUME NEW c \in 1..Len(conns), conns[c].grant \notin lost',
               honoured[conns[c].grant] # conns[c].gen
        PROVE  \E v \in Refreshers : run'[v].at = "answered" /\ run'[v].grant = conns[c].grant
    <3>1. PICK v \in Refreshers : run[v].at = "answered" /\ run[v].grant = conns[c].grant
      BY <2>1 DEF TokenInv, StoredHonoured
    <3>2. run'[v].at = "answered" /\ run'[v].grant = run[v].grant
      BY <1>1, <2>1, <3>1 DEF Under
    <3>3. QED
      BY <3>1, <3>2
  <2>2. QED
    BY <2>1 DEF StoredHonoured
<1>7. RunsHonoured'
  BY <1>2 DEF TokenInv, RunsHonoured, Under, Holds
<1>8. RunsCurrent'
  BY <1>2 DEF TokenInv, RunsCurrent, Holds
<1>9. QED
  BY <1>3, <1>4, <1>5, <1>6, <1>7, <1>8 DEF TokenInv

LEMMA RowsJoined ==
    ASSUME NEW S, NEW a \in Seq(S), NEW b \in Seq(S)
    PROVE  /\ a \o b \in Seq(S) /\ Len(a \o b) = Len(a) + Len(b)
           /\ \A j \in 1..(Len(a) + Len(b)) :
                  (a \o b)[j] = IF j <= Len(a) THEN a[j] ELSE b[j - Len(a)]
  OBVIOUS

LEMMA RowRemoved ==
    ASSUME NEW S, NEW s \in Seq(S), NEW n \in 1..Len(s)
    PROVE  /\ RemoveAt(s, n) \in Seq(S)
           /\ \A j \in 1..Len(RemoveAt(s, n)) : \E k \in 1..Len(s) : RemoveAt(s, n)[j] = s[k]
<1> DEFINE a == SubSeq(s, 1, n - 1)
           b == SubSeq(s, n + 1, Len(s))
<1>1. Len(s) \in Nat /\ n \in Nat /\ n >= 1 /\ n <= Len(s)
  OBVIOUS
<1>2. a \in Seq(S) /\ Len(a) = n - 1 /\ \A j \in 1..(n - 1) : a[j] = s[j]
  BY <1>1
<1>3. b \in Seq(S) /\ Len(b) = Len(s) - n /\ \A j \in 1..(Len(s) - n) : b[j] = s[n + j]
  BY <1>1
<1>4. RemoveAt(s, n) = a \o b
  BY DEF RemoveAt
<1> HIDE DEF a, b
<1>5. /\ a \o b \in Seq(S) /\ Len(a \o b) = Len(s) - 1
      /\ \A j \in 1..(Len(s) - 1) : (a \o b)[j] = IF j <= n - 1 THEN a[j] ELSE b[j - (n - 1)]
  <2>1. Len(a) + Len(b) = Len(s) - 1 /\ Len(a) = n - 1
    BY <1>1, <1>2, <1>3
  <2>2. /\ a \o b \in Seq(S) /\ Len(a \o b) = Len(a) + Len(b)
        /\ \A j \in 1..(Len(a) + Len(b)) :
               (a \o b)[j] = IF j <= Len(a) THEN a[j] ELSE b[j - Len(a)]
    BY <1>2, <1>3, RowsJoined
  <2>3. QED
    BY <2>1, <2>2
<1>6. ASSUME NEW j \in 1..(Len(s) - 1)
      PROVE  \E k \in 1..Len(s) : (a \o b)[j] = s[k]
  <2>1. CASE j <= n - 1
    BY <1>1, <1>2, <1>5, <2>1
  <2>2. CASE j > n - 1
    <3>1. j - (n - 1) \in 1..(Len(s) - n) /\ j + 1 \in 1..Len(s)
      BY <1>1, <2>2
    <3>2. (a \o b)[j] = s[j + 1]
      BY <1>1, <1>3, <1>5, <2>2, <3>1
    <3>3. QED
      BY <3>1, <3>2
  <2>3. j \in Int /\ n \in Int
    BY <1>1
  <2>4. j <= n - 1 \/ j > n - 1
    BY <2>3
  <2>5. QED
    BY <2>1, <2>2, <2>4
<1>7. QED
  BY <1>4, <1>5, <1>6

LEMMA RefreshAppended ==
    ASSUME TokenInv, NEW c \in 1..Len(conns), NEW n \in Nat
    PROVE  LET next == Append(refreshes, [conn |-> c, tries |-> n])
           IN  next \in Seq(Job) /\ \A k \in 1..Len(next) : next[k].conn \in 1..Len(conns)
<1> DEFINE x == [conn |-> c, tries |-> n]
<1>1. refreshes \in Seq(Job) /\ \A k \in 1..Len(refreshes) : refreshes[k].conn \in 1..Len(conns)
  BY DEF TokenInv, TokensTyped
<1>2. x \in Job /\ x.conn = c
  BY DEF Job
<1> HIDE DEF x
<1>3. /\ Append(refreshes, x) \in Seq(Job) /\ Len(Append(refreshes, x)) = Len(refreshes) + 1
      /\ Append(refreshes, x)[Len(refreshes) + 1] = x /\ Len(refreshes) \in Nat
      /\ \A j \in 1..Len(refreshes) : Append(refreshes, x)[j] = refreshes[j]
  BY <1>1, <1>2, RowAppended
<1>4. \A k \in 1..Len(Append(refreshes, x)) : k = Len(refreshes) + 1 \/ k \in 1..Len(refreshes)
  BY <1>3
<1>5. \A k \in 1..Len(Append(refreshes, x)) : Append(refreshes, x)[k].conn \in 1..Len(conns)
  BY <1>1, <1>2, <1>3, <1>4
<1>6. QED
  BY <1>3, <1>5 DEF x

-------------------------------------------------------------------------------
(* Connecting.                                                                 *)

LEMMA ConnectKeeps ==
    ASSUME TokenInv, NEW u \in Users, NEW tool \in Providers,
           NEW account \in Accounts \cup {NoAccount}, Connect(u, tool, account)
    PROVE  TokenInv'
<1> DEFINE n == Len(honoured) + 1
           x == [at |-> "source", tool |-> tool, account |-> account, grant |-> n, row |-> 0]
           gen == IF tool = "gohighlevel" THEN 1 ELSE 0
<1>1. honoured \in Seq(Nat) /\ gen \in Nat /\ Len(honoured) \in Nat /\ Len(conns) \in Nat
  BY DEF TokenInv, TokensTyped
<1>2. /\ honoured' = Append(honoured, gen) /\ connect' = [connect EXCEPT ![u] = x]
      /\ UNCHANGED <<conns, run, lost, refreshes>>
  BY DEF Connect
<1>3. x \in Req /\ x.at # "idle" /\ x.grant = n /\ x.row = 0
  BY <1>1 DEF Req
<1> HIDE DEF x, gen
<1>4. /\ honoured' \in Seq(Nat) /\ Len(honoured') = n
      /\ \A g \in 1..Len(honoured) : honoured'[g] = honoured[g] /\ g \in 1..Len(honoured') /\ g # n
      /\ n \in 1..Len(honoured')
  BY <1>1, <1>2
<1>5. /\ connect' \in [Users -> Req] /\ connect'[u] = x
      /\ \A v \in Users \ {u} : connect'[v] = connect[v]
  BY <1>2, <1>3 DEF TokenInv, TokensTyped
<1>6. TokensTyped'
  BY <1>1, <1>2, <1>3, <1>4, <1>5 DEF TokenInv, TokensTyped, Holds, Under
<1>7. OneHolder' /\ RunsCurrent'
  BY <1>2 DEF TokenInv, OneHolder, RunsCurrent, Holds, Under
<1>8. /\ \A c \in 1..Len(conns) : conns[c].grant # n /\ honoured'[conns[c].grant] = honoured[conns[c].grant]
      /\ \A v \in Users : connect[v].at # "idle" => connect[v].grant # n
      /\ \A w \in Refreshers : Holds(w) => /\ run[w].grant # n
                                           /\ honoured'[run[w].grant] = honoured[run[w].grant]
  BY <1>4 DEF TokenInv, TokensTyped
<1>9. GrantsApart'
  BY <1>2, <1>3, <1>5, <1>8 DEF TokenInv, GrantsApart, Holds, Under
<1>10. StoredHonoured' /\ RunsHonoured'
  BY <1>2, <1>8 DEF TokenInv, StoredHonoured, RunsHonoured, Holds, Under
<1>11. QED
  BY <1>6, <1>7, <1>9, <1>10 DEF TokenInv

LEMMA RequestKeeps ==
    ASSUME TokenInv, NEW u \in Users,
           FindSource(u) \/ InsertSource(u) \/ FindConnection(u) \/ FailConnect(u)
    PROVE  TokenInv'
<1>1. /\ connect[u] \in Req /\ connect[u].row \in 0..Len(conns) /\ connect \in [Users -> Req]
      /\ Len(conns) \in Nat
  BY DEF TokenInv, TokensTyped
<1>2. UNCHANGED <<honoured, conns, run, lost, refreshes>>
  BY DEF FindSource, InsertSource, FindConnection, FailConnect
<1>3. CASE FindConnection(u)
  <2>1. PICK c \in 0..Len(conns) : connect' = [connect EXCEPT ![u].at = "save", ![u].row = c]
    <3>1. Existing(connect[u].tool, connect[u].account) \subseteq 0..Len(conns) /\ 0 \in 0..Len(conns)
      BY DEF Existing, TokenInv, TokensTyped
    <3>2. QED
      BY <1>3, <3>1 DEF FindConnection
  <2> DEFINE y == [connect[u] EXCEPT !.at = "save"]
             x == [y EXCEPT !.row = c]
  <2>2. y \in Req /\ y.grant = connect[u].grant /\ c \in Nat
    BY <1>1 DEF Req
  <2>3. connect' = [connect EXCEPT ![u] = x]
    BY <1>1, <2>1
  <2> HIDE DEF y
  <2>4. x \in Req /\ x.grant = connect[u].grant /\ x.row \in 0..Len(conns)
    BY <2>2 DEF Req
  <2>5. connect[u].at # "idle"
    BY <1>3 DEF FindConnection
  <2> HIDE DEF x
  <2>6. QED
    BY <1>2, <2>3, <2>4, <2>5, RequestMoves
<1>4. CASE FindSource(u) \/ InsertSource(u)
  <2>1. PICK at \in {"lookup", "insert"} : connect' = [connect EXCEPT ![u].at = at]
    BY <1>4 DEF FindSource, InsertSource
  <2> DEFINE x == [connect[u] EXCEPT !.at = at]
  <2>2. x \in Req /\ x.grant = connect[u].grant /\ x.row \in 0..Len(conns)
    BY <1>1 DEF Req
  <2>3. connect' = [connect EXCEPT ![u] = x] /\ connect[u].at # "idle"
    BY <1>4, <2>1 DEF FindSource, InsertSource
  <2> HIDE DEF x
  <2>4. QED
    BY <1>2, <2>2, <2>3, RequestMoves
<1>5. CASE FailConnect(u)
  <2>1. CASE connect[u].at = "idle"
    <3>1. \A v \in Users : connect'[v].at # "idle" => connect'[v] = connect[v]
      BY <1>1, <1>5, IdleIsTyped DEF FailConnect
    <3>2. connect' \in [Users -> Req] /\ \A v \in Users : connect'[v].row \in 0..Len(conns)
      BY <1>1, <1>5, IdleIsTyped DEF FailConnect, TokenInv, TokensTyped
    <3>3. TokensTyped'
      BY <1>2, <3>1, <3>2 DEF TokenInv, TokensTyped, Holds, Under
    <3>4. GrantsApart'
      BY <1>2, <3>1 DEF TokenInv, GrantsApart, Holds, Under
    <3>5. OneHolder' /\ StoredHonoured' /\ RunsHonoured' /\ RunsCurrent'
      BY <1>2 DEF TokenInv, OneHolder, StoredHonoured, RunsHonoured, RunsCurrent, Holds, Under
    <3>6. QED
      BY <3>3, <3>4, <3>5 DEF TokenInv
  <2>2. CASE connect[u].at # "idle"
    <3>1. connect' = [connect EXCEPT ![u] = NoRequest]
      BY <1>5 DEF FailConnect
    <3>2. NoRequest.row \in 0..Len(conns)
      BY IdleIsTyped DEF TokenInv, TokensTyped
    <3>3. QED
      BY <1>2, <2>2, <3>1, <3>2, IdleIsTyped, RequestMoves
  <2>3. QED
    BY <2>1, <2>2
<1>6. QED
  BY <1>3, <1>4, <1>5

\* The tokens of a new grant take their row.
LEMMA SaveConnectionKeeps ==
    ASSUME TokenInv, NEW u \in Users, SaveConnection(u)
    PROVE  TokenInv'
<1> DEFINE q == connect[u]
           x == [tool |-> q.tool, account |-> q.account, grant |-> q.grant,
                 gen |-> honoured[q.grant], fresh |-> TRUE]
           n == IF q.row = 0 THEN Len(conns) + 1 ELSE q.row
<1>1. /\ honoured \in Seq(Nat) /\ conns \in Seq(Conn) /\ q \in Req /\ q.at # "idle"
      /\ q.grant \in 1..Len(honoured) /\ q.row \in 0..Len(conns) /\ Len(conns) \in Nat
      /\ connect \in [Users -> Req] /\ run \in [Refreshers -> Run]
  BY DEF TokenInv, TokensTyped, SaveConnection
<1>2. x \in Conn /\ x.grant = q.grant /\ x.gen = honoured[q.grant]
  BY <1>1 DEF Req, Conn
<1>3. /\ connect' = [connect EXCEPT ![u] = NoRequest] /\ UNCHANGED <<honoured, lost, refreshes>>
      /\ q.row = 0 => conns' = Append(conns, x) /\ run' = run
      /\ q.row # 0 => /\ ~ RowHeld(q.row) /\ conns' = [conns EXCEPT ![q.row] = x]
                      /\ run' = [w \in Refreshers |->
                                    [run[w] EXCEPT !.crossed = @ \/ (run[w].conn = q.row
                                                                    /\ run[w].at = "selected")]]
  BY DEF SaveConnection
<1>4. /\ \A c \in 1..Len(conns) : conns[c].grant # q.grant
      /\ \A v \in Users : connect[v].at # "idle" /\ connect[v].grant = q.grant => v = u
      /\ \A w \in Refreshers : Holds(w) => run[w].grant # q.grant
  BY <1>1 DEF TokenInv, GrantsApart
<1> HIDE DEF x
<1>5. /\ conns' \in Seq(Conn) /\ n \in 1..Len(conns') /\ conns'[n] = x
      /\ Len(conns') >= Len(conns) /\ Len(conns') \in Nat
      /\ \A c \in 1..Len(conns') : c # n => c \in 1..Len(conns) /\ conns'[c] = conns[c]
  <2>1. CASE q.row = 0
    <3>1. n = Len(conns) + 1 /\ conns' = Append(conns, x)
      BY <1>3, <2>1
    <3>2. /\ conns' \in Seq(Conn) /\ Len(conns') = n /\ conns'[n] = x
          /\ \A c \in 1..Len(conns) : conns'[c] = conns[c]
      BY <1>1, <1>2, <3>1, RowAppended
    <3>3. \A c \in 1..n : c # n => c \in 1..Len(conns)
      BY <1>1, <3>1
    <3>4. n \in 1..n /\ n >= Len(conns) /\ n \in Nat
      BY <1>1, <3>1
    <3>5. QED
      BY <3>2, <3>3, <3>4
  <2>2. CASE q.row # 0
    <3>1. q.row \in 1..Len(conns) /\ n = q.row /\ conns' = [conns EXCEPT ![n] = x]
      BY <1>1, <1>3, <2>2
    <3>2. /\ conns' \in Seq(Conn) /\ Len(conns') = Len(conns) /\ conns'[n] = x
          /\ \A c \in 1..Len(conns) \ {n} : conns'[c] = conns[c]
      BY <1>1, <1>2, <3>1, RowReplaced
    <3>3. QED
      BY <1>1, <3>1, <3>2
  <2>3. QED
    BY <2>1, <2>2
<1>6. ASSUME NEW w \in Refreshers
      PROVE  /\ run'[w] \in Run /\ run'[w].at = run[w].at /\ run'[w].conn = run[w].conn
             /\ run'[w].grant = run[w].grant /\ run'[w].gen = run[w].gen
             /\ ~ run'[w].crossed => ~ run[w].crossed
             /\ Holds(w) /\ run[w].conn = n => run'[w].crossed
  <2>1. run[w] \in Run /\ (Holds(w) => run[w].conn \in 1..Len(conns))
    BY DEF TokenInv, TokensTyped, Holds, Under
  <2>2. CASE q.row = 0
    BY <1>1, <1>3, <2>1, <2>2
  <2>3. CASE q.row # 0
    <3> DEFINE y == [run[w] EXCEPT !.crossed = @ \/ (run[w].conn = q.row
                                                    /\ run[w].at = "selected")]
    <3>1. run'[w] = y
      BY <1>3, <2>3
    <3>2. /\ y \in Run /\ y.at = run[w].at /\ y.conn = run[w].conn /\ y.grant = run[w].grant
          /\ y.gen = run[w].gen
          /\ y.crossed = (run[w].crossed \/ (run[w].conn = q.row /\ run[w].at = "selected"))
      BY <2>1 DEF Run
    <3> HIDE DEF y
    <3>3. Holds(w) /\ run[w].conn = n => run[w].at = "selected"
      BY <1>3, <2>3 DEF RowHeld, Holds, Under
    <3>4. QED
      BY <2>3, <3>1, <3>2, <3>3
  <2>4. QED
    BY <2>2, <2>3
<1>7. run' \in [Refreshers -> Run]
  <2>1. CASE q.row = 0
    BY <1>1, <1>3, <2>1
  <2>2. CASE q.row # 0
    <3>1. DOMAIN run' = Refreshers /\ run' = [w \in Refreshers |-> run'[w]]
      BY <1>3, <2>2
    <3>2. QED
      BY <1>6, <3>1
  <2>3. QED
    BY <2>1, <2>2
<1>8. /\ connect' \in [Users -> Req] /\ connect'[u] = NoRequest
      /\ \A v \in Users \ {u} : connect'[v] = connect[v]
  BY <1>1, <1>3, IdleIsTyped
<1> HIDE DEF n
<1>9. TokensTyped'
  <2>1. honoured' \in Seq(Nat) /\ conns' \in Seq(Conn) /\ connect' \in [Users -> Req]
        /\ refreshes' \in Seq(Job)
    BY <1>1, <1>3, <1>5, <1>8 DEF TokenInv, TokensTyped
  <2>2. \A c \in 1..Len(conns') : conns'[c].grant \in 1..Len(honoured')
    BY <1>1, <1>2, <1>3, <1>5 DEF TokenInv, TokensTyped
  <2>3. \A v \in Users : /\ connect'[v].row \in 0..Len(conns')
                         /\ connect'[v].at # "idle" => connect'[v].grant \in 1..Len(honoured')
    BY <1>1, <1>3, <1>5, <1>8, IdleIsTyped DEF TokenInv, TokensTyped
  <2>4. \A w \in Refreshers :
            /\ run'[w].at # "idle" => run'[w].conn \in 1..Len(conns')
            /\ Under(run'[w]) => run'[w].grant \in 1..Len(honoured')
    <3>1. SUFFICES ASSUME NEW w \in Refreshers
                   PROVE  /\ run'[w].at # "idle" => run'[w].conn \in 1..Len(conns')
                          /\ Under(run'[w]) => run'[w].grant \in 1..Len(honoured')
      OBVIOUS
    <3>2. /\ run[w].at # "idle" => run[w].conn \in 1..Len(conns)
          /\ Holds(w) => run[w].grant \in 1..Len(honoured)
      BY DEF TokenInv, TokensTyped
    <3>3. run'[w].at = run[w].at /\ run'[w].conn = run[w].conn /\ run'[w].grant = run[w].grant
      BY <1>6
    <3>4. QED
      BY <1>1, <1>3, <1>5, <3>2, <3>3 DEF Holds, Under
  <2>5. \A k \in 1..Len(refreshes') : refreshes'[k].conn \in 1..Len(conns')
    BY <1>1, <1>3, <1>5 DEF TokenInv, TokensTyped
  <2>6. QED
    BY <1>7, <2>1, <2>2, <2>3, <2>4, <2>5 DEF TokensTyped, Holds
<1>10. OneHolder' /\ RunsHonoured'
  BY <1>3, <1>6 DEF TokenInv, OneHolder, RunsHonoured, Holds, Under
<1>11. GrantsApart'
  <2>1. \A c, d \in 1..Len(conns') : conns'[c].grant = conns'[d].grant => c = d
    BY <1>2, <1>4, <1>5 DEF TokenInv, GrantsApart
  <2>2. ASSUME NEW v \in Users, connect'[v].at # "idle"
        PROVE  /\ \A c \in 1..Len(conns') : conns'[c].grant # connect'[v].grant
               /\ \A z \in Users : connect'[z].at # "idle" /\ connect'[z].grant = connect'[v].grant
                                       => z = v
               /\ \A w \in Refreshers : Under(run'[w]) => run'[w].grant # connect'[v].grant
    <3>1. v # u /\ connect'[v] = connect[v]
      BY <1>8, <2>2, IdleIsTyped
    <3>2. connect[v].grant # q.grant
      BY <1>4, <2>2, <3>1
    <3>3. \A z \in Users : connect'[z].at # "idle" => connect'[z] = connect[z]
      BY <1>8, IdleIsTyped
    <3>4. QED
      BY <1>2, <1>5, <1>6, <2>2, <3>1, <3>2, <3>3 DEF TokenInv, GrantsApart, Holds, Under
  <2>3. \A w \in Refreshers, c \in 1..Len(conns') :
            Under(run'[w]) /\ conns'[c].grant = run'[w].grant => c = run'[w].conn
    BY <1>2, <1>4, <1>5, <1>6 DEF TokenInv, GrantsApart, Holds, Under
  <2>4. \A v, w \in Refreshers : Under(run'[v]) /\ Under(run'[w]) /\ run'[v].grant = run'[w].grant
                                     => v = w
    BY <1>6 DEF TokenInv, GrantsApart, Holds, Under
  <2>5. QED
    BY <2>1, <2>2, <2>3, <2>4 DEF GrantsApart, Holds
<1>12. StoredHonoured'
  <2>1. SUFFICES ASSUME NEW c \in 1..Len(conns'), conns'[c].grant \notin lost,
                        honoured[conns'[c].grant] # conns'[c].gen
                 PROVE  \E w \in Refreshers : run'[w].at = "answered"
                                              /\ run'[w].grant = conns'[c].grant
    BY <1>3 DEF StoredHonoured
  <2>2. c # n
    BY <1>2, <1>5, <2>1
  <2>3. c \in 1..Len(conns) /\ conns'[c] = conns[c]
    BY <1>5, <2>2
  <2>4. PICK w \in Refreshers : run[w].at = "answered" /\ run[w].grant = conns[c].grant
    BY <2>1, <2>3 DEF TokenInv, StoredHonoured
  <2>5. QED
    BY <1>6, <2>3, <2>4
<1>13. RunsCurrent'
  <2>1. SUFFICES ASSUME NEW w \in Refreshers, Under(run'[w]), ~ run'[w].crossed
                 PROVE  /\ run'[w].grant = conns'[run'[w].conn].grant
                        /\ run'[w].gen = conns'[run'[w].conn].gen
                        /\ ~ conns'[run'[w].conn].fresh
    BY DEF RunsCurrent, Holds
  <2>2. Holds(w) /\ ~ run[w].crossed /\ run[w].conn # n /\ run'[w].conn = run[w].conn
    BY <1>6, <2>1 DEF Holds, Under
  <2>3. run[w].conn \in 1..Len(conns)
    BY <2>2 DEF TokenInv, TokensTyped, Holds, Under
  <2>4. conns'[run[w].conn] = conns[run[w].conn]
    BY <1>1, <1>5, <2>2, <2>3
  <2>5. QED
    BY <1>6, <2>2, <2>4 DEF TokenInv, RunsCurrent
<1>14. QED
  BY <1>9, <1>10, <1>11, <1>12, <1>13 DEF TokenInv

-------------------------------------------------------------------------------
(* The refresh.                                                                *)

LEMMA ExpireKeeps ==
    ASSUME TokenInv, NEW c \in 1..Len(conns), Expire(c)
    PROVE  TokenInv'
<1> DEFINE x == [conns[c] EXCEPT !.fresh = FALSE]
<1>1. conns \in Seq(Conn) /\ conns[c] \in Conn /\ conns[c].fresh
  BY DEF TokenInv, TokensTyped, Expire
<1>2. x \in Conn /\ x.grant = conns[c].grant /\ x.gen = conns[c].gen /\ ~ x.fresh
  BY <1>1 DEF Conn
<1>3. conns' = [conns EXCEPT ![c] = x] /\ UNCHANGED <<honoured, connect, refreshes, run, lost>>
  BY DEF Expire
<1> HIDE DEF x
<1>4. /\ conns' \in Seq(Conn) /\ Len(conns') = Len(conns) /\ conns'[c] = x
      /\ \A d \in 1..Len(conns) \ {c} : conns'[d] = conns[d]
  BY <1>1, <1>2, <1>3, RowReplaced
<1>5. \A d \in 1..Len(conns) : /\ conns'[d].grant = conns[d].grant /\ conns'[d].gen = conns[d].gen
                               /\ ~ conns[d].fresh => ~ conns'[d].fresh
  BY <1>1, <1>2, <1>4
<1>6. TokensTyped'
  BY <1>3, <1>4, <1>5 DEF TokenInv, TokensTyped, Holds, Under
<1>7. OneHolder' /\ RunsHonoured'
  BY <1>3 DEF TokenInv, OneHolder, RunsHonoured, Holds, Under
<1>8. GrantsApart' /\ StoredHonoured'
  BY <1>3, <1>4, <1>5 DEF TokenInv, GrantsApart, StoredHonoured, Holds, Under
<1>9. RunsCurrent'
  <2>1. \A w \in Refreshers : Holds(w) => run[w].conn \in 1..Len(conns)
    BY DEF TokenInv, TokensTyped, Holds, Under
  <2>2. QED
    BY <1>3, <1>5, <2>1 DEF TokenInv, RunsCurrent, Holds, Under
<1>10. QED
  BY <1>6, <1>7, <1>8, <1>9 DEF TokenInv

LEMMA RequestRefreshKeeps ==
    ASSUME TokenInv, NEW c \in 1..Len(conns), RequestRefresh(c)
    PROVE  TokenInv'
<1>1. refreshes' = Append(refreshes, [conn |-> c, tries |-> 0])
      /\ UNCHANGED <<honoured, conns, connect, run, lost>>
  BY DEF RequestRefresh
<1>2. refreshes' \in Seq(Job) /\ \A k \in 1..Len(refreshes') : refreshes'[k].conn \in 1..Len(conns)
  BY <1>1, RefreshAppended
<1>3. QED
  BY <1>1, <1>2, OthersMove

LEMMA BeginRefreshKeeps ==
    ASSUME TokenInv, NEW w \in Refreshers, NEW n \in 1..Len(refreshes), BeginRefresh(w, n)
    PROVE  TokenInv'
<1> DEFINE r == refreshes[n]
           x == [NoRun EXCEPT !.at = "begun", !.conn = r.conn, !.tries = r.tries]
<1>1. /\ refreshes \in Seq(Job) /\ r \in Job /\ r.conn \in 1..Len(conns)
      /\ \A k \in 1..Len(refreshes) : refreshes[k].conn \in 1..Len(conns)
  BY DEF TokenInv, TokensTyped
<1>2. x \in Run /\ x.at = "begun" /\ x.conn = r.conn
  BY <1>1, IdleIsTyped DEF Job, Run
<1>3. /\ run' = [run EXCEPT ![w] = x] /\ run[w] = NoRun /\ refreshes' = RemoveAt(refreshes, n)
      /\ UNCHANGED <<honoured, conns, connect, lost>>
  BY DEF BeginRefresh
<1> HIDE DEF x
<1>4. refreshes' \in Seq(Job) /\ \A k \in 1..Len(refreshes') : refreshes'[k].conn \in 1..Len(conns)
  BY <1>1, <1>3, RowRemoved
<1>5. ~ Under(x) /\ run[w].at # "answered" /\ x.conn \in 1..Len(conns)
  BY <1>1, <1>2, <1>3, IdleIsTyped DEF Under
<1>6. lost \subseteq lost'
  BY <1>3
<1>7. QED
  BY <1>2, <1>3, <1>4, <1>5, <1>6, RunMoves

\* The request of the next try.
LEMMA TriedAgain ==
    ASSUME TokenInv, NEW w \in Refreshers, run[w].at # "idle"
    PROVE  LET next == Append(refreshes, [conn |-> run[w].conn, tries |-> run[w].tries + 1])
           IN  next \in Seq(Job) /\ \A k \in 1..Len(next) : next[k].conn \in 1..Len(conns)
<1>1. run[w] \in Run /\ run[w].conn \in 1..Len(conns)
  BY DEF TokenInv, TokensTyped
<1>2. run[w].tries + 1 \in Nat
  BY <1>1 DEF Run
<1>3. QED
  BY <1>1, <1>2, RefreshAppended

LEMMA TimeOutKeeps ==
    ASSUME TokenInv, NEW w \in Refreshers, TimeOut(w)
    PROVE  TokenInv'
<1> DEFINE x == [run[w] EXCEPT !.zombie = TRUE]
<1>1. run[w] \in Run /\ run[w].at # "idle" /\ run[w].conn \in 1..Len(conns)
  BY DEF TokenInv, TokensTyped, TimeOut
<1>2. /\ x \in Run /\ x.at = run[w].at /\ x.conn = run[w].conn /\ x.grant = run[w].grant
      /\ x.gen = run[w].gen /\ x.crossed = run[w].crossed
  BY <1>1 DEF Run
<1>3. /\ run' = [run EXCEPT ![w] = x]
      /\ refreshes' = Append(refreshes, [conn |-> run[w].conn, tries |-> run[w].tries + 1])
      /\ UNCHANGED <<honoured, conns, connect, lost>>
  BY DEF TimeOut
<1> HIDE DEF x
<1>4. refreshes' \in Seq(Job) /\ \A k \in 1..Len(refreshes') : refreshes'[k].conn \in 1..Len(conns)
  BY <1>1, <1>3, TriedAgain
<1>5. lost \subseteq lost' /\ UNCHANGED <<honoured, conns, connect>>
  BY <1>3
<1>6. \/ ~ Under(x) /\ (run[w].at = "answered" => run[w].grant \in lost')
      \/ /\ Holds(w) /\ x.conn = run[w].conn /\ x.grant = run[w].grant
         /\ x.gen = run[w].gen /\ x.crossed = run[w].crossed
         /\ x.at = run[w].at \/ (run[w].at = "selected" /\ x.at = "asking")
  <2>1. CASE Holds(w)
    BY <1>2, <2>1
  <2>2. CASE ~ Holds(w)
    BY <1>2, <2>2 DEF Holds, Under
  <2>3. QED
    BY <2>1, <2>2
<1>7. x.at # "idle" => x.conn \in 1..Len(conns)
  BY <1>1, <1>2
<1>8. run' = [run EXCEPT ![w] = x] /\ x \in Run
  BY <1>2, <1>3
<1>9. QED
  BY <1>4, <1>5, <1>6, <1>7, <1>8, RunMoves

\* Under the lock a run reads what is stored, which is what the provider takes.
LEMMA SelectTokenKeeps ==
    ASSUME TokenInv, NEW w \in Refreshers, SelectToken(w)
    PROVE  TokenInv'
<1> DEFINE n == run[w].conn
           c == conns[n]
           x == [run[w] EXCEPT !.at = "selected", !.grant = c.grant, !.gen = c.gen]
<1>1. /\ run \in [Refreshers -> Run] /\ run[w] \in Run /\ run[w].at = "begun"
      /\ n \in 1..Len(conns) /\ c \in Conn /\ c.grant \in 1..Len(honoured) /\ ~ Locked(n)
      /\ refreshes \in Seq(Job)
      /\ \A k \in 1..Len(refreshes) : refreshes[k].conn \in 1..Len(conns)
  BY DEF TokenInv, TokensTyped, SelectToken
<1>2. UNCHANGED <<honoured, conns, connect, refreshes, lost>>
  BY DEF SelectToken
<1>3. CASE c.gen = 0 \/ c.fresh
  <2>1. run' = [run EXCEPT ![w] = NoRun]
    BY <1>3 DEF SelectToken
  <2>2. lost \subseteq lost' /\ run[w].at # "answered"
    BY <1>1, <1>2
  <2>3. QED
    BY <1>1, <1>2, <2>1, <2>2, IdleIsTyped, RunMoves
<1>4. CASE ~ (c.gen = 0 \/ c.fresh)
  <2>1. /\ x \in Run /\ x.at = "selected" /\ x.grant = c.grant /\ x.gen = c.gen /\ x.conn = n
        /\ x.crossed = run[w].crossed
    BY <1>1 DEF Run, Conn
  <2>2. run' = [run EXCEPT ![w] = x]
    BY <1>1, <1>4 DEF SelectToken
  <2> HIDE DEF x, c
  <2>3. /\ run' \in [Refreshers -> Run] /\ run'[w] = x
        /\ \A v \in Refreshers \ {w} : run'[v] = run[v]
    BY <1>1, <2>1, <2>2
  <2>4. \A v \in Refreshers : Holds(v) => run[v].conn # n /\ v # w
    BY <1>1 DEF Locked, Holds, Under
  <2>5. \A v \in Refreshers : Holds(v) => run[v].grant # c.grant
    BY <1>1, <2>4 DEF TokenInv, GrantsApart, c
  <2>6. TokensTyped'
    BY <1>1, <1>2, <2>1, <2>3 DEF TokenInv, TokensTyped, Holds, Under
  <2>7. OneHolder'
    <3>1. SUFFICES ASSUME NEW v \in Refreshers, NEW z \in Refreshers, Under(run'[v]),
                          Under(run'[z]), run'[v].conn = run'[z].conn
                   PROVE  v = z
      BY DEF OneHolder, Holds
    <3>2. CASE v # w /\ z # w
      BY <2>3, <3>1, <3>2 DEF TokenInv, OneHolder, Holds
    <3>3. CASE v = w \/ z = w
      BY <2>1, <2>3, <2>4, <3>1, <3>3 DEF Holds
    <3>4. QED
      BY <3>2, <3>3
  <2>8. GrantsApart'
    <3>1. \A a, b \in 1..Len(conns) : conns[a].grant = conns[b].grant => a = b
      BY DEF TokenInv, GrantsApart
    <3>2. \A u \in Users : connect[u].at # "idle" => c.grant # connect[u].grant
      BY <1>1 DEF TokenInv, GrantsApart, c
    <3>3. \A u \in Users : connect[u].at # "idle" =>
              \A v \in Refreshers : Under(run'[v]) => run'[v].grant # connect[u].grant
      BY <2>1, <2>3, <3>2 DEF TokenInv, GrantsApart, Holds
    <3>4. \A v \in Refreshers, d \in 1..Len(conns) :
              Under(run'[v]) /\ conns[d].grant = run'[v].grant => d = run'[v].conn
      BY <1>1, <2>1, <2>3, <3>1 DEF TokenInv, GrantsApart, Holds, c
    <3>5. \A v, z \in Refreshers :
              Under(run'[v]) /\ Under(run'[z]) /\ run'[v].grant = run'[z].grant => v = z
      <4>1. SUFFICES ASSUME NEW v \in Refreshers, NEW z \in Refreshers, Under(run'[v]),
                            Under(run'[z]), run'[v].grant = run'[z].grant
                     PROVE  v = z
        OBVIOUS
      <4>2. CASE v # w /\ z # w
        BY <2>3, <4>1, <4>2 DEF TokenInv, GrantsApart, Holds
      <4>3. CASE v = w \/ z = w
        BY <2>1, <2>3, <2>5, <4>1, <4>3 DEF Holds
      <4>4. QED
        BY <4>2, <4>3
    <3>6. \A u \in Users : connect[u].at # "idle" =>
              /\ \A d \in 1..Len(conns) : conns[d].grant # connect[u].grant
              /\ \A v \in Users : connect[v].at # "idle" /\ connect[v].grant = connect[u].grant
                                      => v = u
      BY DEF TokenInv, GrantsApart
    <3>7. QED
      BY <1>2, <3>1, <3>3, <3>4, <3>5, <3>6 DEF GrantsApart, Holds
  <2>9. StoredHonoured'
    <3>1. \A v \in Refreshers : run[v].at = "answered" => run'[v] = run[v]
      BY <1>1, <2>3
    <3>2. SUFFICES ASSUME NEW d \in 1..Len(conns), conns[d].grant \notin lost,
                          honoured[conns[d].grant] # conns[d].gen
                   PROVE  \E v \in Refreshers : run'[v].at = "answered"
                                                /\ run'[v].grant = conns[d].grant
      BY <1>2 DEF StoredHonoured
    <3>3. PICK v \in Refreshers : run[v].at = "answered" /\ run[v].grant = conns[d].grant
      BY <3>2 DEF TokenInv, StoredHonoured
    <3>4. QED
      BY <3>1, <3>3
  <2>10. RunsHonoured'
    <3>1. c.grant \notin lost => honoured[c.grant] = c.gen
      BY <1>1, <2>5 DEF TokenInv, StoredHonoured, Holds, Under, c
    <3>2. QED
      BY <1>2, <2>1, <2>3, <3>1 DEF TokenInv, RunsHonoured, Holds
  <2>11. RunsCurrent'
    <3>1. x.grant = conns[x.conn].grant /\ x.gen = conns[x.conn].gen /\ ~ conns[x.conn].fresh
      BY <1>4, <2>1 DEF c
    <3>2. \A v \in Refreshers \ {w} : Under(run'[v]) /\ ~ run'[v].crossed =>
              /\ run'[v].grant = conns[run'[v].conn].grant /\ run'[v].gen = conns[run'[v].conn].gen
              /\ ~ conns[run'[v].conn].fresh
      BY <2>3 DEF TokenInv, RunsCurrent, Holds
    <3>3. QED
      BY <1>2, <2>3, <3>1, <3>2 DEF RunsCurrent, Holds
  <2>12. QED
    BY <2>6, <2>7, <2>8, <2>9, <2>10, <2>11 DEF TokenInv
<1>5. QED
  BY <1>3, <1>4

LEMMA HoldRowKeeps ==
    ASSUME TokenInv, NEW w \in Refreshers, HoldRow(w)
    PROVE  TokenInv'
<1> DEFINE x == [run[w] EXCEPT !.at = "asking"]
<1>1. /\ run[w] \in Run /\ run[w].at = "selected" /\ run[w].conn \in 1..Len(conns)
      /\ refreshes \in Seq(Job)
      /\ \A k \in 1..Len(refreshes) : refreshes[k].conn \in 1..Len(conns)
  BY DEF TokenInv, TokensTyped, HoldRow
<1>2. /\ x \in Run /\ x.at = "asking" /\ x.conn = run[w].conn /\ x.grant = run[w].grant
      /\ x.gen = run[w].gen /\ x.crossed = run[w].crossed
  BY <1>1 DEF Run
<1>3. run' = [run EXCEPT ![w] = x] /\ UNCHANGED <<honoured, conns, connect, lost, refreshes>>
  BY DEF HoldRow
<1> HIDE DEF x
<1>4. Holds(w) /\ lost \subseteq lost'
  BY <1>1, <1>3 DEF Holds, Under
<1>5. QED
  BY <1>1, <1>2, <1>3, <1>4, RunMoves

\* A run that ends without storing an answer.
LEMMA ThrowKeeps ==
    ASSUME TokenInv, NEW w \in Refreshers, run[w].at # "idle", Throw(w),
           run[w].at = "answered" => run[w].grant \in lost', lost \subseteq lost',
           UNCHANGED <<honoured, conns, connect>>
    PROVE  TokenInv'
<1>1. refreshes' \in Seq(Job) /\ \A k \in 1..Len(refreshes') : refreshes'[k].conn \in 1..Len(conns)
  <2>1. CASE refreshes' = refreshes
    BY <2>1 DEF TokenInv, TokensTyped
  <2>2. CASE refreshes' = Append(refreshes, [conn |-> run[w].conn, tries |-> run[w].tries + 1])
    BY <2>2, TriedAgain
  <2>3. QED
    BY <2>1, <2>2 DEF Throw
<1>2. run' = [run EXCEPT ![w] = NoRun]
  BY DEF Throw
<1>3. QED
  BY <1>1, <1>2, IdleIsTyped, RunMoves

LEMMA FailRefreshKeeps ==
    ASSUME TokenInv, NEW w \in Refreshers, FailRefresh(w)
    PROVE  TokenInv'
<1>1. /\ run[w].at # "idle" /\ Throw(w) /\ UNCHANGED <<honoured, conns, connect>>
      /\ lost' = IF run[w].at = "answered" THEN lost \cup {run[w].grant} ELSE lost
  BY DEF FailRefresh
<1>2. (run[w].at = "answered" => run[w].grant \in lost') /\ lost \subseteq lost'
  BY <1>1
<1>3. QED
  BY <1>1, <1>2, ThrowKeeps

\* The provider's answer replaces the token of the run's grant, which is of no other run.
LEMMA AskProviderKeeps ==
    ASSUME TokenInv, NEW w \in Refreshers, AskProvider(w)
    PROVE  TokenInv'
<1> DEFINE g == run[w].grant
           x == [run[w] EXCEPT !.at = "answered"]
<1>1. /\ run \in [Refreshers -> Run] /\ run[w] \in Run /\ run[w].at = "asking" /\ Holds(w)
      /\ g \in 1..Len(honoured) /\ honoured \in Seq(Nat) /\ honoured[g] \in Nat
  BY DEF TokenInv, TokensTyped, AskProvider, Holds, Under
<1>2. UNCHANGED <<conns, connect, lost>>
  BY DEF AskProvider
<1>3. CASE run[w].gen # honoured[g]
  <2>1. Throw(w) /\ honoured' = honoured
    BY <1>3 DEF AskProvider
  <2>2. lost \subseteq lost' /\ run[w].at # "idle" /\ run[w].at # "answered"
    BY <1>1, <1>2
  <2>3. QED
    BY <1>2, <2>1, <2>2, ThrowKeeps
<1>4. CASE run[w].gen = honoured[g]
  <2>1. /\ x \in Run /\ x.at = "answered" /\ x.grant = g /\ x.gen = run[w].gen
        /\ x.conn = run[w].conn /\ x.crossed = run[w].crossed /\ Under(x)
    BY <1>1 DEF Run, Under
  <2>2. /\ honoured' = [honoured EXCEPT ![g] = honoured[g] + 1] /\ run' = [run EXCEPT ![w] = x]
        /\ refreshes' = refreshes
    BY <1>4 DEF AskProvider
  <2> HIDE DEF x
  <2>3. /\ run' \in [Refreshers -> Run] /\ run'[w] = x
        /\ \A v \in Refreshers \ {w} : run'[v] = run[v]
    BY <1>1, <2>1, <2>2
  <2>4. /\ honoured' \in Seq(Nat) /\ Len(honoured') = Len(honoured)
        /\ honoured'[g] = honoured[g] + 1
        /\ \A h \in 1..Len(honoured) \ {g} : honoured'[h] = honoured[h]
    <3>1. honoured[g] + 1 \in Nat
      BY <1>1
    <3>2. QED
      BY <1>1, <2>2, <3>1, RowReplaced
  <2>5. \A v \in Refreshers : /\ run'[v].conn = run[v].conn /\ run'[v].grant = run[v].grant
                              /\ run'[v].gen = run[v].gen /\ run'[v].crossed = run[v].crossed
                              /\ Under(run'[v]) <=> Holds(v)
                              /\ run'[v].at = "idle" <=> run[v].at = "idle"
    BY <1>1, <2>1, <2>3 DEF Holds
  <2>6. TokensTyped'
    BY <1>2, <2>2, <2>3, <2>4, <2>5 DEF TokenInv, TokensTyped, Holds
  <2>7. OneHolder' /\ GrantsApart' /\ RunsCurrent'
    BY <1>2, <2>5 DEF TokenInv, OneHolder, GrantsApart, RunsCurrent, Holds
  <2>8. StoredHonoured'
    <3>1. SUFFICES ASSUME NEW c \in 1..Len(conns), conns[c].grant \notin lost,
                          honoured'[conns[c].grant] # conns[c].gen
                   PROVE  \E v \in Refreshers : run'[v].at = "answered"
                                                /\ run'[v].grant = conns[c].grant
      BY <1>2 DEF StoredHonoured
    <3>2. CASE conns[c].grant = g
      BY <2>1, <2>3, <3>2
    <3>3. CASE conns[c].grant # g
      <4>1. conns[c].grant \in 1..Len(honoured)
        BY DEF TokenInv, TokensTyped
      <4>2. honoured[conns[c].grant] # conns[c].gen
        BY <2>4, <3>1, <3>3, <4>1
      <4>3. PICK v \in Refreshers : run[v].at = "answered" /\ run[v].grant = conns[c].grant
        BY <3>1, <4>2 DEF TokenInv, StoredHonoured
      <4>4. v # w
        BY <1>1, <4>3
      <4>5. QED
        BY <2>3, <4>3, <4>4
    <3>4. QED
      BY <3>2, <3>3
  <2>9. RunsHonoured'
    <3>1. ASSUME NEW v \in Refreshers \ {w}, Holds(v)
          PROVE  honoured'[run[v].grant] = honoured[run[v].grant]
      <4>1. run[v].grant # g /\ run[v].grant \in 1..Len(honoured)
        BY <1>1, <3>1 DEF TokenInv, TokensTyped, GrantsApart
      <4>2. QED
        BY <2>4, <4>1
    <3>2. QED
      BY <1>2, <1>4, <2>1, <2>3, <2>4, <3>1 DEF TokenInv, RunsHonoured, Holds, Under
  <2>10. QED
    BY <2>6, <2>7, <2>8, <2>9 DEF TokenInv
<1>5. QED
  BY <1>3, <1>4

\* The answer is stored in the connection it was asked for.
LEMMA SaveTokensKeeps ==
    ASSUME TokenInv, NEW w \in Refreshers, SaveTokens(w)
    PROVE  TokenInv'
<1> DEFINE r == run[w]
           n == r.conn
           y == [conns[n] EXCEPT !.grant = r.grant]
           z == [y EXCEPT !.gen = r.gen + 1]
           x == [z EXCEPT !.fresh = TRUE]
<1>1. /\ run \in [Refreshers -> Run] /\ r \in Run /\ r.at = "answered" /\ Holds(w)
      /\ n \in 1..Len(conns) /\ conns \in Seq(Conn) /\ conns[n] \in Conn
      /\ r.grant \in 1..Len(honoured) /\ Len(conns) \in Nat
  BY DEF TokenInv, TokensTyped, SaveTokens, Holds, Under
<1>2. x \in Conn /\ x.grant = r.grant /\ x.gen = r.gen + 1
  <2>1. r.grant \in Nat /\ r.gen + 1 \in Nat
    BY <1>1 DEF Run
  <2>2. y \in Conn /\ y.grant = r.grant
    BY <1>1, <2>1 DEF Conn
  <2> HIDE DEF y
  <2>3. z \in Conn /\ z.grant = r.grant /\ z.gen = r.gen + 1
    BY <2>1, <2>2 DEF Conn
  <2> HIDE DEF z
  <2>4. QED
    BY <2>3 DEF Conn
<1>3. /\ conns' = [conns EXCEPT ![n] = x] /\ run' = [run EXCEPT ![w] = NoRun]
      /\ UNCHANGED <<honoured, connect, refreshes, lost>>
  <2>1. conns' = [conns EXCEPT ![n].grant = r.grant, ![n].gen = r.gen + 1, ![n].fresh = TRUE]
    BY DEF SaveTokens
  <2>2. conns' = [conns EXCEPT ![n] = x]
    BY <1>1, <2>1
  <2>3. QED
    BY <2>2 DEF SaveTokens
<1> HIDE DEF x, y, z
<1>4. /\ conns' \in Seq(Conn) /\ Len(conns') = Len(conns) /\ conns'[n] = x
      /\ \A c \in 1..Len(conns) \ {n} : conns'[c] = conns[c]
  BY <1>1, <1>2, <1>3, RowReplaced
<1>5. /\ run' \in [Refreshers -> Run] /\ run'[w] = NoRun
      /\ \A v \in Refreshers \ {w} : run'[v] = run[v]
  BY <1>1, <1>3, IdleIsTyped
<1>6. honoured[r.grant] = x.gen
  BY <1>1, <1>2 DEF TokenInv, RunsHonoured
<1>7. /\ \A c \in 1..Len(conns) : conns[c].grant = r.grant => c = n
      /\ \A v \in Refreshers \ {w} : Holds(v) => run[v].conn # n /\ run[v].grant # r.grant
      /\ \A u \in Users : connect[u].at # "idle" => connect[u].grant # r.grant
  BY <1>1 DEF TokenInv, OneHolder, GrantsApart
<1>8. \A v \in Refreshers : Under(run'[v]) => v # w /\ Holds(v) /\ run'[v] = run[v]
  BY <1>5, IdleIsTyped DEF Holds
<1>9. TokensTyped'
  <2>1. \A c \in 1..Len(conns') : conns'[c].grant \in 1..Len(honoured)
    BY <1>1, <1>2, <1>4 DEF TokenInv, TokensTyped
  <2>2. \A v \in Refreshers :
            /\ run'[v].at # "idle" => run'[v].conn \in 1..Len(conns)
            /\ Under(run'[v]) => run'[v].grant \in 1..Len(honoured)
    BY <1>5, IdleIsTyped DEF TokenInv, TokensTyped, Holds
  <2>3. QED
    BY <1>3, <1>4, <1>5, <2>1, <2>2 DEF TokenInv, TokensTyped, Holds
<1>10. OneHolder'
  BY <1>8 DEF TokenInv, OneHolder, Holds
<1>11. GrantsApart'
  <2>1. \A c, d \in 1..Len(conns') : conns'[c].grant = conns'[d].grant => c = d
    BY <1>1, <1>2, <1>4, <1>7 DEF TokenInv, GrantsApart
  <2>2. \A u \in Users : connect[u].at # "idle" =>
            \A c \in 1..Len(conns') : conns'[c].grant # connect[u].grant
    BY <1>2, <1>4, <1>7 DEF TokenInv, GrantsApart
  <2>3. \A v \in Refreshers, c \in 1..Len(conns') :
            Under(run'[v]) /\ conns'[c].grant = run'[v].grant => c = run'[v].conn
    BY <1>2, <1>4, <1>7, <1>8 DEF TokenInv, GrantsApart
  <2>4. \A v, u \in Refreshers : Under(run'[v]) /\ Under(run'[u]) /\ run'[v].grant = run'[u].grant
                                     => v = u
    BY <1>8 DEF TokenInv, GrantsApart
  <2>5. \A u \in Users : connect[u].at # "idle" =>
            /\ \A v \in Users : connect[v].at # "idle" /\ connect[v].grant = connect[u].grant => v = u
            /\ \A v \in Refreshers : Under(run'[v]) => run'[v].grant # connect[u].grant
    BY <1>8 DEF TokenInv, GrantsApart
  <2>6. QED
    BY <1>3, <2>1, <2>2, <2>3, <2>4, <2>5 DEF GrantsApart, Holds
<1>12. StoredHonoured'
  <2>1. SUFFICES ASSUME NEW c \in 1..Len(conns'), conns'[c].grant \notin lost,
                        honoured[conns'[c].grant] # conns'[c].gen
                 PROVE  \E v \in Refreshers : run'[v].at = "answered"
                                              /\ run'[v].grant = conns'[c].grant
    BY <1>3 DEF StoredHonoured
  <2>2. c # n /\ c \in 1..Len(conns) /\ conns'[c] = conns[c]
    BY <1>2, <1>4, <1>6, <2>1
  <2>3. PICK v \in Refreshers : run[v].at = "answered" /\ run[v].grant = conns[c].grant
    BY <2>1, <2>2 DEF TokenInv, StoredHonoured
  <2>4. v # w
    BY <1>7, <2>2, <2>3
  <2>5. QED
    BY <1>5, <2>2, <2>3, <2>4
<1>13. RunsHonoured'
  BY <1>3, <1>8 DEF TokenInv, RunsHonoured, Holds, Under
<1>14. RunsCurrent'
  <2>1. SUFFICES ASSUME NEW v \in Refreshers, Under(run'[v]), ~ run'[v].crossed
                 PROVE  /\ run'[v].grant = conns'[run'[v].conn].grant
                        /\ run'[v].gen = conns'[run'[v].conn].gen
                        /\ ~ conns'[run'[v].conn].fresh
    BY DEF RunsCurrent, Holds
  <2>2. Holds(v) /\ run'[v] = run[v] /\ run[v].conn # n
    BY <1>7, <1>8, <2>1
  <2>3. run[v].conn \in 1..Len(conns)
    BY <2>2 DEF TokenInv, TokensTyped, Holds, Under
  <2>4. conns'[run[v].conn] = conns[run[v].conn]
    BY <1>4, <2>2, <2>3
  <2>5. QED
    BY <2>1, <2>2, <2>4 DEF TokenInv, RunsCurrent
<1>15. QED
  BY <1>9, <1>10, <1>11, <1>12, <1>13, <1>14 DEF TokenInv

-------------------------------------------------------------------------------
(* Theorems.                                                                   *)

LEMMA FactsAside ==
    ASSUME TokenInv, UNCHANGED tokenVars
    PROVE  TokenInv'
<1>1. UNCHANGED <<honoured, conns, connect, run, lost, refreshes>>
  BY DEF tokenVars
<1>2. refreshes' \in Seq(Job) /\ \A k \in 1..Len(refreshes') : refreshes'[k].conn \in 1..Len(conns)
  BY <1>1 DEF TokenInv, TokensTyped
<1>3. QED
  BY <1>1, <1>2, OthersMove

LEMMA InitHolds ==
    ASSUME Init
    PROVE  TokenInv
<1>1. /\ honoured = <<>> /\ conns = <<>> /\ refreshes = <<>>
      /\ \A u \in Users : connect[u] = NoRequest
      /\ \A w \in Refreshers : run[w] = NoRun
      /\ connect \in [Users -> Req] /\ run \in [Refreshers -> Run]
  BY IdleIsTyped DEF Init
<1>2. \A w \in Refreshers : ~ Holds(w) /\ run[w].at = "idle"
  BY <1>1, IdleIsTyped DEF Holds
<1>3. TokensTyped
  BY <1>1, <1>2, IdleIsTyped DEF TokensTyped
<1>4. OneHolder /\ RunsHonoured /\ RunsCurrent
  BY <1>2 DEF OneHolder, RunsHonoured, RunsCurrent
<1>5. GrantsApart /\ StoredHonoured
  BY <1>1, <1>2, IdleIsTyped DEF GrantsApart, StoredHonoured
<1>6. QED
  BY <1>3, <1>4, <1>5 DEF TokenInv

LEMMA StepKeeps ==
    ASSUME TokenInv, [Next]_vars
    PROVE  TokenInv'
<1>1. DOMAIN conns = 1..Len(conns) /\ DOMAIN refreshes = 1..Len(refreshes)
  BY DEF TokenInv, TokensTyped
<1>2. ASSUME NEW u \in Users, IntegrationsPage(u)
      PROVE  TokenInv'
  <2>1. UNCHANGED <<honoured, conns, connect, run, lost, refreshes>>
    BY <1>2 DEF IntegrationsPage
  <2>2. refreshes' \in Seq(Job)
        /\ \A k \in 1..Len(refreshes') : refreshes'[k].conn \in 1..Len(conns)
    BY <2>1 DEF TokenInv, TokensTyped
  <2>3. QED
    BY <2>1, <2>2, OthersMove
<1>3. ASSUME NEW u \in Users, ConnectRoutes(u)
      PROVE  TokenInv'
  BY <1>3, ConnectKeeps, RequestKeeps, SaveConnectionKeeps DEF ConnectRoutes
<1>4. ASSUME NEW c \in DOMAIN conns, Expire(c) \/ RequestRefresh(c)
      PROVE  TokenInv'
  BY <1>1, <1>4, ExpireKeeps, RequestRefreshKeeps
<1>5. ASSUME NEW w \in Refreshers, oauthRefresh(w)
      PROVE  TokenInv'
  BY <1>1, <1>5, BeginRefreshKeeps, SelectTokenKeeps, HoldRowKeeps, AskProviderKeeps,
     SaveTokensKeeps, FailRefreshKeeps, TimeOutKeeps DEF oauthRefresh
<1>6. ASSUME NEW r \in Recordings, Receive(r) \/ Replay(r) \/ Send(r)
      PROVE  TokenInv'
  BY <1>6, FactsAside DEF Receive, Replay, Send
<1>7. ASSUME NEW w \in Learners, fathomWebhookHandler(w)
      PROVE  TokenInv'
  <2>1. UNCHANGED tokenVars
    BY <1>7 DEF fathomWebhookHandler, processFathomInboundEvent, TakeJob, ReadRow, Resolve, Embed,
                LearnChunk, CommitFacts, MarkLearnt, FailLearning
  <2>2. QED
    BY <2>1, FactsAside
<1>8. ASSUME NEW k \in Customers, AddCustomer(k)
      PROVE  TokenInv'
  BY <1>8, FactsAside DEF AddCustomer
<1>9. ASSUME NEW f \in DOMAIN facts, NEW contradicted \in BOOLEAN, Judge(f, contradicted)
      PROVE  TokenInv'
  BY <1>9, FactsAside DEF Judge
<1>10. CASE UNCHANGED vars
  BY <1>10, FactsAside DEF vars
<1>11. QED
  BY <1>2, <1>3, <1>4, <1>5, <1>6, <1>7, <1>8, <1>9, <1>10 DEF Next

LEMMA Invariance == Spec => []TokenInv
<1>1. Init => TokenInv
  BY InitHolds
<1>2. TokenInv /\ [Next]_vars => TokenInv'
  BY StepKeeps
<1>3. QED
  BY <1>1, <1>2, PTL DEF Spec

\* A refresh asks the provider with the tokens that are stored, expiring and still honoured,
\* for any accounts, reconnects, retries and runs the queue has given up, save after an
\* answer that was lost or when a reconnect came between the run's select and first update.
THEOREM RefreshesAskOnce == Spec => []AsksWithStoredToken
<1>1. ASSUME TokenInv
      PROVE  AsksWithStoredToken
  <2>1. ASSUME NEW w \in Refreshers, run[w].at = "asking", ~ run[w].crossed,
               run[w].grant \notin lost
        PROVE  /\ run[w].grant = conns[run[w].conn].grant /\ run[w].gen = conns[run[w].conn].gen
               /\ ~ conns[run[w].conn].fresh /\ run[w].gen = honoured[run[w].grant]
    <3>1. Holds(w)
      BY <2>1 DEF Holds, Under
    <3>2. QED
      BY <1>1, <2>1, <3>1 DEF TokenInv, RunsHonoured, RunsCurrent
  <2>2. QED
    BY <2>1 DEF AsksWithStoredToken
<1>2. TokenInv => AsksWithStoredToken
  BY <1>1
<1>3. QED
  BY <1>2, Invariance, PTL

-------------------------------------------------------------------------------
(* The type invariant: what the two kinds of connection keep apart, and the bound on
   retries.                                                                          *)

RunKind(x) ==
    /\ x.at = "idle" => x = NoRun
    /\ x.at = "begun" => x.grant = 0
    /\ x.tries <= MaxRetries
    /\ Under(x) => conns[x.conn].tool = "gohighlevel"

\* What a request of a user keeps of the kind it connects.
RequestKind(q) ==
    /\ q.at = "idle" => q = NoRequest
    /\ q.at # "idle" => /\ honoured[q.grant] = 0 <=> q.tool = "aircall"
                        /\ q.account = NoAccount => q.tool = "gohighlevel"
    /\ q.row # 0 => conns[q.row].tool = q.tool

KindsApart ==
    /\ \A c \in 1..Len(conns) :
           /\ conns[c].gen = 0 <=> conns[c].tool = "aircall"
           /\ conns[c].account = NoAccount => conns[c].tool = "gohighlevel"
    /\ \A u \in Users : RequestKind(connect[u])
    /\ \A w \in Refreshers : RunKind(run[w])
    /\ \A n \in 1..Len(refreshes) : refreshes[n].tries <= MaxRetries

LEMMA BoundsTyped == MaxRetries \in Nat /\ NoAccount \notin Accounts
  BY IntegrationsAssumption

LEMMA IdleKinds == RequestKind(NoRequest) /\ RunKind(NoRun)
  BY BoundsTyped DEF RequestKind, RunKind, NoRequest, NoRun, Under

\* A step of a refresh, and one that is about neither requests nor accounts.
LEMMA KindsStay ==
    ASSUME TokenInv, KindsApart, connect' = connect, Len(conns') = Len(conns),
           \A c \in 1..Len(conns) : /\ conns'[c].tool = conns[c].tool
                                    /\ conns'[c].account = conns[c].account
                                    /\ conns'[c].gen = 0 <=> conns[c].gen = 0,
           \A u \in Users : connect[u].at # "idle" =>
               honoured'[connect[u].grant] = honoured[connect[u].grant],
           \A w \in Refreshers : run'[w] = run[w] \/ \E x \in Run :
               /\ run'[w] = x /\ RunKind(x)
               /\ Under(x) => x.conn \in 1..Len(conns),
           \A n \in 1..Len(refreshes') : refreshes'[n].tries <= MaxRetries
    PROVE  KindsApart'
<1>1. \A u \in Users : RequestKind(connect[u])'
  <2>1. SUFFICES ASSUME NEW u \in Users PROVE RequestKind(connect[u])'
    OBVIOUS
  <2>2. RequestKind(connect[u]) /\ connect[u].row \in 0..Len(conns) /\ Len(conns) \in Nat
    BY DEF KindsApart, TokenInv, TokensTyped
  <2>3. connect[u].row # 0 => connect[u].row \in 1..Len(conns)
    BY <2>2
  <2>4. QED
    BY <2>2, <2>3 DEF RequestKind
<1>2. ASSUME NEW w \in Refreshers
      PROVE  RunKind(run[w])'
  <2>1. PICK x : x = run'[w]
    OBVIOUS
  <2>2. RunKind(x) /\ (Under(x) => x.conn \in 1..Len(conns))
    BY <2>1 DEF KindsApart, TokenInv, TokensTyped, Holds, Under
  <2>3. Under(x) => conns'[x.conn].tool = "gohighlevel"
    BY <2>2 DEF RunKind
  <2>4. QED
    BY <2>1, <2>2, <2>3 DEF RunKind
<1>3. QED
  BY <1>1, <1>2 DEF KindsApart

LEMMA ConnectKinds ==
    ASSUME TokenInv, KindsApart, NEW u \in Users, NEW tool \in Providers,
           NEW account \in Accounts \cup {NoAccount}, Connect(u, tool, account)
    PROVE  KindsApart'
<1> DEFINE n == Len(honoured) + 1
           x == [at |-> "source", tool |-> tool, account |-> account, grant |-> n, row |-> 0]
           gen == IF tool = "gohighlevel" THEN 1 ELSE 0
<1>1. honoured \in Seq(Nat) /\ gen \in Nat /\ Len(honoured) \in Nat /\ connect \in [Users -> Req]
  BY DEF TokenInv, TokensTyped
<1>2. /\ honoured' = Append(honoured, gen) /\ connect' = [connect EXCEPT ![u] = x]
      /\ UNCHANGED <<conns, run, lost, refreshes>>
      /\ account = NoAccount => tool = "gohighlevel"
  BY DEF Connect
<1>3. /\ x.at = "source" /\ x.tool = tool /\ x.account = account /\ x.grant = n /\ x.row = 0
      /\ gen = 0 <=> tool = "aircall"
  BY DEF Providers
<1> HIDE DEF x, gen
<1>4. /\ honoured'[n] = gen /\ \A g \in 1..Len(honoured) : honoured'[g] = honoured[g]
      /\ connect'[u] = x /\ \A v \in Users \ {u} : connect'[v] = connect[v]
  BY <1>1, <1>2
<1>5. ASSUME NEW v \in Users
      PROVE  RequestKind(connect[v])'
  <2>1. CASE v = u
    BY <1>2, <1>3, <1>4, <2>1 DEF RequestKind
  <2>2. CASE v # u
    <3>1. RequestKind(connect[v]) /\ (connect[v].at # "idle" => connect[v].grant \in 1..Len(honoured))
      BY DEF KindsApart, TokenInv, TokensTyped
    <3>2. connect'[v] = connect[v] /\ conns' = conns
      BY <1>2, <1>4, <2>2
    <3>3. QED
      BY <1>4, <3>1, <3>2 DEF RequestKind
  <2>3. QED
    BY <2>1, <2>2
<1>6. \A w \in Refreshers : RunKind(run[w])'
  BY <1>2 DEF KindsApart, RunKind
<1>7. QED
  BY <1>2, <1>5, <1>6 DEF KindsApart

\* A connect request goes on, gives up, or finds the row of its account.
LEMMA RequestMovesKind ==
    ASSUME KindsApart, NEW u \in Users, NEW x, connect \in [Users -> Req],
           connect' = [connect EXCEPT ![u] = x], RequestKind(x),
           UNCHANGED <<honoured, conns, run, refreshes>>
    PROVE  KindsApart'
<1>1. ASSUME NEW v \in Users
      PROVE  RequestKind(connect[v])'
  <2>1. PICK y : y = connect'[v]
    OBVIOUS
  <2>2. RequestKind(y)
    BY <2>1 DEF KindsApart
  <2>3. QED
    BY <2>1, <2>2 DEF RequestKind
<1>2. \A w \in Refreshers : RunKind(run[w])'
  BY DEF KindsApart, RunKind
<1>3. QED
  BY <1>1, <1>2 DEF KindsApart

LEMMA RequestKinds ==
    ASSUME TokenInv, KindsApart, NEW u \in Users,
           FindSource(u) \/ InsertSource(u) \/ FindConnection(u) \/ FailConnect(u)
    PROVE  KindsApart'
<1>1. /\ connect[u] \in Req /\ connect \in [Users -> Req] /\ RequestKind(connect[u])
      /\ DOMAIN conns = 1..Len(conns) /\ Len(conns) \in Nat
      /\ UNCHANGED <<honoured, conns, run, refreshes>>
  BY DEF TokenInv, TokensTyped, KindsApart, FindSource, InsertSource, FindConnection, FailConnect
<1>2. PICK q : q = connect[u]
  OBVIOUS
<1>3. CASE FindConnection(u)
  <2>1. PICK c \in {0} \cup Existing(q.tool, q.account) :
            connect' = [connect EXCEPT ![u].at = "save", ![u].row = c]
    BY <1>2, <1>3 DEF FindConnection
  <2>2. PICK x : x = [q EXCEPT !.at = "save", !.row = c]
    OBVIOUS
  <2>3. connect' = [connect EXCEPT ![u] = x] /\ q.at = "lookup"
    BY <1>1, <1>2, <1>3, <2>1, <2>2 DEF FindConnection
  <2>4. /\ x.at = "save" /\ x.row = c /\ x.grant = q.grant /\ x.tool = q.tool
        /\ x.account = q.account
    BY <1>1, <1>2, <2>2 DEF Req
  <2>5. c # 0 => conns[c].tool = q.tool
    BY <2>1 DEF Existing
  <2>6. RequestKind(x)
    BY <1>1, <1>2, <2>3, <2>4, <2>5 DEF RequestKind
  <2>7. QED
    BY <1>1, <2>3, <2>6, RequestMovesKind
<1>4. CASE FindSource(u) \/ InsertSource(u)
  <2>1. PICK at \in {"lookup", "insert"} : connect' = [connect EXCEPT ![u].at = at]
    BY <1>4 DEF FindSource, InsertSource
  <2>2. PICK x : x = [q EXCEPT !.at = at]
    OBVIOUS
  <2>3. connect' = [connect EXCEPT ![u] = x] /\ q.at # "idle"
    BY <1>1, <1>2, <1>4, <2>1, <2>2 DEF FindSource, InsertSource
  <2>4. /\ x.at = at /\ x.row = q.row /\ x.grant = q.grant /\ x.tool = q.tool
        /\ x.account = q.account
    BY <1>1, <1>2, <2>2 DEF Req
  <2>5. RequestKind(x)
    BY <1>1, <1>2, <2>3, <2>4 DEF RequestKind
  <2>6. QED
    BY <1>1, <2>3, <2>5, RequestMovesKind
<1>5. CASE FailConnect(u)
  <2>1. connect' = [connect EXCEPT ![u] = NoRequest]
    BY <1>5 DEF FailConnect
  <2>2. QED
    BY <1>1, <2>1, IdleKinds, RequestMovesKind
<1>6. QED
  BY <1>3, <1>4, <1>5

LEMMA SaveConnectionKinds ==
    ASSUME TokenInv, KindsApart, NEW u \in Users, SaveConnection(u)
    PROVE  KindsApart'
<1>1. PICK q : q = connect[u]
  OBVIOUS
<1>2. /\ q \in Req /\ q.at = "save" /\ q.row \in 0..Len(conns) /\ RequestKind(q)
      /\ conns \in Seq(Conn) /\ Len(conns) \in Nat /\ connect \in [Users -> Req]
      /\ honoured' = honoured /\ refreshes' = refreshes
      /\ connect' = [connect EXCEPT ![u] = NoRequest]
      /\ q.grant \in 1..Len(honoured) /\ honoured \in Seq(Nat)
  BY <1>1 DEF TokenInv, TokensTyped, KindsApart, SaveConnection
<1>3. PICK x : x = [tool |-> q.tool, account |-> q.account, grant |-> q.grant,
                    gen |-> honoured[q.grant], fresh |-> TRUE]
  OBVIOUS
<1>4. PICK n : n = IF q.row = 0 THEN Len(conns) + 1 ELSE q.row
  OBVIOUS
<1>5. x \in Conn
  BY <1>2, <1>3 DEF Conn, Req
<1>6. /\ conns' \in Seq(Conn) /\ n \in 1..Len(conns') /\ conns'[n] = x /\ Len(conns') \in Nat
      /\ \A c \in 1..Len(conns') : c # n => c \in 1..Len(conns) /\ conns'[c] = conns[c]
      /\ \A c \in 1..Len(conns) : c \in 1..Len(conns') /\ conns'[c].tool = conns[c].tool
  <2>1. CASE q.row = 0
    <3>1. conns' = Append(conns, x)
      BY <1>1, <1>3, <2>1 DEF SaveConnection
    <3>2. n = Len(conns) + 1
      BY <1>4, <2>1
    <3>3. /\ conns' \in Seq(Conn) /\ Len(conns') = n /\ conns'[n] = x
          /\ \A c \in 1..Len(conns) : conns'[c] = conns[c]
      BY <1>2, <1>5, <3>1, <3>2, RowAppended
    <3>4. \A c \in 1..n : c = n \/ c \in 1..Len(conns)
      BY <1>2, <3>2
    <3>5. n \in 1..n /\ n \in Nat /\ \A c \in 1..Len(conns) : c \in 1..n
      BY <1>2, <3>2
    <3>6. QED
      BY <3>3, <3>4, <3>5
  <2>2. CASE q.row # 0
    <3>1. n \in 1..Len(conns) /\ n = q.row
      BY <1>2, <1>4, <2>2
    <3>2. conns' = [conns EXCEPT ![n] = x]
      BY <1>1, <1>3, <2>2, <3>1 DEF SaveConnection
    <3>3. /\ conns' \in Seq(Conn) /\ Len(conns') = Len(conns) /\ conns'[n] = x
          /\ \A c \in 1..Len(conns) \ {n} : conns'[c] = conns[c]
      BY <1>2, <1>5, <3>1, <3>2, RowReplaced
    <3>4. x.tool = conns[n].tool
      BY <1>2, <1>3, <2>2, <3>1 DEF RequestKind
    <3>5. QED
      BY <1>2, <3>1, <3>3, <3>4
  <2>3. QED
    BY <2>1, <2>2
<1>7. \A c \in 1..Len(conns') : /\ conns'[c].gen = 0 <=> conns'[c].tool = "aircall"
                                /\ conns'[c].account = NoAccount => conns'[c].tool = "gohighlevel"
  <2>1. SUFFICES ASSUME NEW c \in 1..Len(conns')
                 PROVE  /\ conns'[c].gen = 0 <=> conns'[c].tool = "aircall"
                        /\ conns'[c].account = NoAccount => conns'[c].tool = "gohighlevel"
    OBVIOUS
  <2>2. CASE c = n
    BY <1>2, <1>3, <1>6, <2>2 DEF RequestKind
  <2>3. CASE c # n
    BY <1>6, <2>3 DEF KindsApart
  <2>4. QED
    BY <2>2, <2>3
<1>8. ASSUME NEW v \in Users
      PROVE  RequestKind(connect[v])'
  <2>1. PICK y : y = connect'[v]
    OBVIOUS
  <2>2. RequestKind(y) /\ y.row \in 0..Len(conns)
    <3>1. CASE v = u
      BY <1>2, <2>1, <3>1, IdleKinds DEF NoRequest
    <3>2. CASE v # u
      BY <1>2, <2>1, <3>2 DEF KindsApart, TokenInv, TokensTyped
    <3>3. QED
      BY <3>1, <3>2
  <2>3. y.row # 0 => conns'[y.row].tool = y.tool
    BY <1>2, <1>6, <2>2 DEF RequestKind
  <2>4. QED
    BY <1>2, <2>1, <2>2, <2>3 DEF RequestKind
<1>9. ASSUME NEW w \in Refreshers
      PROVE  RunKind(run[w])'
  <2>1. run[w] \in Run /\ RunKind(run[w]) /\ run \in [Refreshers -> Run]
    BY DEF TokenInv, TokensTyped, KindsApart
  <2>2. PICK r : r = run[w]
    OBVIOUS
  <2>3. PICK y : y = run'[w]
    OBVIOUS
  <2>4. y = r \/ (r.at = "selected" /\ y.at = r.at /\ y.conn = r.conn /\ y.grant = r.grant
                   /\ y.tries = r.tries)
    <3>1. CASE q.row = 0
      BY <1>1, <2>2, <2>3, <3>1 DEF SaveConnection
    <3>2. CASE q.row # 0
      <4>1. y = [r EXCEPT !.crossed = @ \/ (r.conn = q.row /\ r.at = "selected")]
        BY <1>1, <2>2, <2>3, <3>2 DEF SaveConnection
      <4>2. CASE r.at = "selected"
        BY <2>1, <2>2, <4>1, <4>2 DEF Run
      <4>3. CASE r.at # "selected"
        BY <2>1, <2>2, <4>1, <4>3 DEF Run
      <4>4. QED
        BY <4>2, <4>3
    <3>3. QED
      BY <3>1, <3>2
  <2>5. RunKind(y) /\ (Under(y) => y.conn \in 1..Len(conns))
    BY <2>1, <2>2, <2>4 DEF RunKind, Under, TokenInv, TokensTyped, Holds
  <2>6. Under(y) => conns'[y.conn].tool = "gohighlevel"
    BY <1>6, <2>5 DEF RunKind
  <2>7. QED
    BY <2>3, <2>5, <2>6 DEF RunKind
<1>10. QED
  BY <1>2, <1>7, <1>8, <1>9 DEF KindsApart

\* Runs begin, read, ask, save, fail and are given up.
LEMMA RunMovesKind ==
    ASSUME TokenInv, KindsApart, NEW w \in Refreshers, NEW x \in Run,
           run' = [run EXCEPT ![w] = x], RunKind(x), Under(x) => x.conn \in 1..Len(conns),
           UNCHANGED <<conns, connect>>,
           \A u \in Users : connect[u].at # "idle" =>
               honoured'[connect[u].grant] = honoured[connect[u].grant],
           \A n \in 1..Len(refreshes') : refreshes'[n].tries <= MaxRetries
    PROVE  KindsApart'
<1>1. run'[w] = x /\ \A v \in Refreshers \ {w} : run'[v] = run[v]
  BY DEF TokenInv, TokensTyped
<1>2. \A v \in Refreshers : run'[v] = run[v] \/ \E y \in Run :
          /\ run'[v] = y /\ RunKind(y)
          /\ Under(y) => y.conn \in 1..Len(conns)
  BY <1>1
<1>3. QED
  BY <1>2, KindsStay

LEMMA TriesAppended ==
    ASSUME TokenInv, KindsApart, NEW c, NEW n \in Nat, n <= MaxRetries,
           refreshes' = Append(refreshes, [conn |-> c, tries |-> n])
    PROVE  \A k \in 1..Len(refreshes') : refreshes'[k].tries <= MaxRetries
<1>1. PICK x : x = [conn |-> c, tries |-> n]
  OBVIOUS
<1>2. refreshes \in Seq(Job) /\ Len(refreshes) \in Nat /\ x.tries = n
  BY <1>1 DEF TokenInv, TokensTyped
<1>3. /\ Len(refreshes') = Len(refreshes) + 1 /\ refreshes'[Len(refreshes) + 1] = x
      /\ \A k \in 1..Len(refreshes) : refreshes'[k] = refreshes[k]
  BY <1>1, <1>2
<1>4. \A k \in 1..Len(refreshes') : k = Len(refreshes) + 1 \/ k \in 1..Len(refreshes)
  BY <1>2, <1>3
<1>5. QED
  BY <1>2, <1>3, <1>4 DEF KindsApart

LEMMA ThrowTries ==
    ASSUME TokenInv, KindsApart, NEW w \in Refreshers, Throw(w)
    PROVE  /\ run' = [run EXCEPT ![w] = NoRun]
           /\ \A k \in 1..Len(refreshes') : refreshes'[k].tries <= MaxRetries
<1>1. run' = [run EXCEPT ![w] = NoRun]
  BY DEF Throw
<1>2. run[w].tries \in Nat /\ run[w].tries <= MaxRetries
  BY DEF TokenInv, TokensTyped, Run, KindsApart, RunKind
<1>3. CASE refreshes' = refreshes
  BY <1>1, <1>3 DEF KindsApart
<1>4. CASE /\ run[w].tries # MaxRetries
           /\ refreshes' = Append(refreshes, [conn |-> run[w].conn, tries |-> run[w].tries + 1])
  <2>1. PICK n \in Nat : n = run[w].tries + 1 /\ n <= MaxRetries
    BY <1>2, <1>4, BoundsTyped
  <2>2. PICK c : c = run[w].conn
    OBVIOUS
  <2>3. refreshes' = Append(refreshes, [conn |-> c, tries |-> n])
    BY <1>4, <2>1, <2>2
  <2>4. QED
    BY <1>1, <2>1, <2>3, TriesAppended
<1>5. QED
  BY <1>3, <1>4 DEF Throw

LEMMA BeginRefreshKinds ==
    ASSUME TokenInv, KindsApart, NEW w \in Refreshers, NEW n \in DOMAIN refreshes,
           BeginRefresh(w, n)
    PROVE  KindsApart'
<1>1. refreshes \in Seq(Job) /\ n \in 1..Len(refreshes)
  BY DEF TokenInv, TokensTyped
<1>2. PICK r \in Job : r = refreshes[n]
  BY <1>1
<1>3. r.tries <= MaxRetries
  BY <1>1, <1>2 DEF KindsApart
<1>4. PICK x : x = [NoRun EXCEPT !.at = "begun", !.conn = r.conn, !.tries = r.tries]
  OBVIOUS
<1>5. /\ run' = [run EXCEPT ![w] = x] /\ UNCHANGED <<conns, connect, honoured>>
      /\ refreshes' = RemoveAt(refreshes, n)
  BY <1>2, <1>4 DEF BeginRefresh
<1>6. x \in Run /\ ~ Under(x) /\ RunKind(x)
  BY <1>3, <1>4 DEF Job, Run, Under, RunKind, NoRun
<1>7. \A k \in 1..Len(refreshes') : refreshes'[k].tries <= MaxRetries
  BY <1>1, <1>5, RowRemoved DEF KindsApart
<1>8. QED
  BY <1>5, <1>6, <1>7, RunMovesKind

LEMMA RefreshKinds ==
    ASSUME TokenInv, KindsApart, NEW w \in Refreshers,
           SelectToken(w) \/ HoldRow(w) \/ AskProvider(w) \/ FailRefresh(w) \/ TimeOut(w)
    PROVE  KindsApart'
<1>1. /\ UNCHANGED <<conns, connect>> /\ run \in [Refreshers -> Run] /\ RunKind(run[w])
      /\ conns \in Seq(Conn)
      /\ \A k \in 1..Len(refreshes) : refreshes[k].tries <= MaxRetries
  BY DEF SelectToken, HoldRow, AskProvider, FailRefresh, TimeOut, TokenInv, TokensTyped, KindsApart
<1>2. PICK r \in Run : r = run[w]
  BY <1>1
<1>3. /\ r.at # "idle" => r.conn \in 1..Len(conns)
      /\ RunKind(r)
  BY <1>1, <1>2 DEF TokenInv, TokensTyped
<1>4. CASE SelectToken(w)
  <2>1. PICK c \in Conn : c = conns[r.conn]
    BY <1>1, <1>2, <1>3, <1>4 DEF SelectToken
  <2>2. PICK x : x = IF c.gen = 0 \/ c.fresh THEN NoRun
                     ELSE [r EXCEPT !.at = "selected", !.grant = c.grant, !.gen = c.gen]
    OBVIOUS
  <2>3. run' = [run EXCEPT ![w] = x] /\ UNCHANGED <<honoured, refreshes>> /\ r.at = "begun"
    BY <1>1, <1>2, <1>4, <2>1, <2>2 DEF SelectToken
  <2>4. CASE c.gen = 0 \/ c.fresh
    <3>1. x = NoRun
      BY <2>2, <2>4
    <3>2. QED
      BY <1>1, <2>3, <3>1, IdleIsTyped, IdleKinds, RunMovesKind
  <2>5. CASE ~ (c.gen = 0 \/ c.fresh)
    <3>1. x \in Run /\ x.at = "selected" /\ x.conn = r.conn /\ x.tries = r.tries
      BY <2>2, <2>5 DEF Run, Conn
    <3>2. c.tool = "gohighlevel"
      BY <1>3, <2>1, <2>3, <2>5 DEF KindsApart, Conn, Providers
    <3>3. RunKind(x) /\ (Under(x) => x.conn \in 1..Len(conns))
      BY <1>3, <2>1, <2>3, <3>1, <3>2 DEF RunKind
    <3>4. QED
      BY <1>1, <2>3, <3>1, <3>3, RunMovesKind
  <2>6. QED
    BY <2>4, <2>5
<1>5. CASE HoldRow(w)
  <2>1. PICK x : x = [r EXCEPT !.at = "asking"]
    OBVIOUS
  <2>2. run' = [run EXCEPT ![w] = x] /\ UNCHANGED <<honoured, refreshes>> /\ r.at = "selected"
    BY <1>1, <1>2, <1>5, <2>1 DEF HoldRow
  <2>3. x \in Run /\ x.at = "asking" /\ x.conn = r.conn /\ x.tries = r.tries
    BY <2>1 DEF Run
  <2>4. RunKind(x) /\ (Under(x) => x.conn \in 1..Len(conns))
    BY <1>3, <2>2, <2>3 DEF RunKind, Under
  <2>5. QED
    BY <1>1, <2>2, <2>3, <2>4, RunMovesKind
<1>6. CASE AskProvider(w) /\ r.gen = honoured[r.grant]
  <2>1. PICK x : x = [r EXCEPT !.at = "answered"]
    OBVIOUS
  <2>2. /\ run' = [run EXCEPT ![w] = x] /\ UNCHANGED refreshes /\ r.at = "asking"
        /\ honoured' = [honoured EXCEPT ![r.grant] = @ + 1]
    BY <1>1, <1>2, <1>6, <2>1 DEF AskProvider
  <2>3. x \in Run /\ x.at = "answered" /\ x.conn = r.conn /\ x.tries = r.tries
    BY <2>1 DEF Run
  <2>4. RunKind(x) /\ (Under(x) => x.conn \in 1..Len(conns))
    BY <1>3, <2>2, <2>3 DEF RunKind, Under
  <2>5. \A u \in Users : connect[u].at # "idle" => connect[u].grant # r.grant
    BY <1>2, <2>2 DEF TokenInv, GrantsApart, Holds, Under
  <2>6. \A u \in Users : connect[u].at # "idle" =>
            honoured'[connect[u].grant] = honoured[connect[u].grant]
    BY <2>2, <2>5 DEF TokenInv, TokensTyped
  <2>7. QED
    BY <1>1, <2>2, <2>3, <2>4, <2>6, RunMovesKind
<1>7. CASE Throw(w) /\ UNCHANGED honoured
  BY <1>1, <1>7, ThrowTries, IdleIsTyped, IdleKinds, RunMovesKind
<1>8. CASE TimeOut(w)
  <2>1. PICK x : x = [r EXCEPT !.zombie = TRUE]
    OBVIOUS
  <2>2. /\ run' = [run EXCEPT ![w] = x] /\ UNCHANGED honoured
        /\ r.at # "idle" /\ r.tries < MaxRetries
        /\ refreshes' = Append(refreshes, [conn |-> r.conn, tries |-> r.tries + 1])
    BY <1>1, <1>2, <1>8, <2>1 DEF TimeOut
  <2>3. /\ x \in Run /\ x.at = r.at /\ x.conn = r.conn /\ x.tries = r.tries /\ x.grant = r.grant
        /\ r.tries \in Nat
    BY <2>1 DEF Run
  <2>4. RunKind(x) /\ (Under(x) => x.conn \in 1..Len(conns))
    BY <1>3, <2>2, <2>3 DEF RunKind, Under
  <2>5. PICK n \in Nat : n = r.tries + 1 /\ n <= MaxRetries
    BY <2>2, <2>3, BoundsTyped
  <2>6. PICK c : c = r.conn
    OBVIOUS
  <2>7. \A k \in 1..Len(refreshes') : refreshes'[k].tries <= MaxRetries
    BY <2>2, <2>5, <2>6, TriesAppended
  <2>8. QED
    BY <1>1, <2>2, <2>3, <2>4, <2>7, RunMovesKind
<1>9. QED
  BY <1>2, <1>4, <1>5, <1>6, <1>7, <1>8 DEF AskProvider, FailRefresh

LEMMA SaveTokensKinds ==
    ASSUME TokenInv, KindsApart, NEW w \in Refreshers, SaveTokens(w)
    PROVE  KindsApart'
<1>1. PICK r \in Run : r = run[w]
  BY DEF TokenInv, TokensTyped
<1>2. /\ r.at = "answered" /\ r.conn \in 1..Len(conns) /\ conns \in Seq(Conn)
      /\ RunKind(r) /\ run \in [Refreshers -> Run] /\ connect' = connect /\ honoured' = honoured
      /\ run' = [run EXCEPT ![w] = NoRun]
      /\ \A k \in 1..Len(refreshes') : refreshes'[k].tries <= MaxRetries
  BY <1>1 DEF SaveTokens, TokenInv, TokensTyped, KindsApart
<1>3. PICK c \in Conn : c = conns[r.conn]
  BY <1>2
<1>4. PICK x : x = [c EXCEPT !.grant = r.grant, !.gen = r.gen + 1, !.fresh = TRUE]
  OBVIOUS
<1>5. conns' = [conns EXCEPT ![r.conn] = x]
  BY <1>1, <1>2, <1>3, <1>4 DEF SaveTokens
<1>6. x \in Conn /\ x.tool = c.tool /\ x.account = c.account /\ x.gen # 0
  <2>1. PICK g \in Nat : g = r.gen + 1 /\ g # 0
    BY DEF Run
  <2>2. x = [c EXCEPT !.grant = r.grant, !.gen = g, !.fresh = TRUE] /\ r.grant \in Nat
    BY <1>4, <2>1 DEF Run
  <2>3. QED
    BY <2>1, <2>2 DEF Conn
<1>7. /\ Len(conns') = Len(conns) /\ conns'[r.conn] = x
      /\ \A d \in 1..Len(conns) \ {r.conn} : conns'[d] = conns[d]
  BY <1>2, <1>5, <1>6, RowReplaced
<1>8. c.tool = "gohighlevel" /\ c.gen # 0
  BY <1>2, <1>3 DEF KindsApart, RunKind, Under
<1>9. \A d \in 1..Len(conns) : /\ conns'[d].tool = conns[d].tool
                               /\ conns'[d].account = conns[d].account
                               /\ conns'[d].gen = 0 <=> conns[d].gen = 0
  <2>1. SUFFICES ASSUME NEW d \in 1..Len(conns)
                 PROVE  /\ conns'[d].tool = conns[d].tool
                        /\ conns'[d].account = conns[d].account
                        /\ conns'[d].gen = 0 <=> conns[d].gen = 0
    OBVIOUS
  <2>2. CASE d = r.conn
    BY <1>3, <1>6, <1>7, <1>8, <2>2
  <2>3. CASE d # r.conn
    BY <1>7, <2>3
  <2>4. QED
    BY <2>2, <2>3
<1>10. \A v \in Refreshers : run'[v] = run[v] \/ \E y \in Run :
           /\ run'[v] = y /\ RunKind(y)
           /\ Under(y) => y.conn \in 1..Len(conns)
  <2>1. run'[w] = NoRun /\ \A v \in Refreshers \ {w} : run'[v] = run[v]
    BY <1>2
  <2>2. QED
    BY <2>1, IdleIsTyped, IdleKinds
<1>11. QED
  BY <1>2, <1>7, <1>9, <1>10, KindsStay

LEMMA ExpireKinds ==
    ASSUME TokenInv, KindsApart, NEW c \in DOMAIN conns, Expire(c) \/ RequestRefresh(c)
    PROVE  KindsApart'
<1>1. /\ c \in 1..Len(conns) /\ conns \in Seq(Conn) /\ UNCHANGED <<connect, run, honoured>>
      /\ \A k \in 1..Len(refreshes) : refreshes[k].tries <= MaxRetries
  BY DEF Expire, RequestRefresh, TokenInv, TokensTyped, KindsApart
<1>2. CASE Expire(c)
  <2>1. PICK x : x = [conns[c] EXCEPT !.fresh = FALSE]
    OBVIOUS
  <2>2. conns' = [conns EXCEPT ![c] = x] /\ refreshes' = refreshes
    BY <1>1, <1>2, <2>1 DEF Expire
  <2>3. conns[c] \in Conn
    BY <1>1
  <2>4. /\ x \in Conn /\ x.tool = conns[c].tool /\ x.account = conns[c].account
        /\ x.gen = conns[c].gen
    BY <2>1, <2>3 DEF Conn
  <2>5. /\ Len(conns') = Len(conns) /\ conns'[c] = x
        /\ \A d \in 1..Len(conns) \ {c} : conns'[d] = conns[d]
    BY <1>1, <2>2, <2>4, RowReplaced
  <2>6. \A d \in 1..Len(conns) : /\ conns'[d].tool = conns[d].tool
                                 /\ conns'[d].account = conns[d].account
                                 /\ conns'[d].gen = conns[d].gen
    BY <2>4, <2>5
  <2>7. QED
    BY <1>1, <2>2, <2>5, <2>6, KindsStay
<1>3. CASE RequestRefresh(c)
  <2>1. refreshes' = Append(refreshes, [conn |-> c, tries |-> 0]) /\ conns' = conns
    BY <1>3 DEF RequestRefresh
  <2>2. \A k \in 1..Len(refreshes') : refreshes'[k].tries <= MaxRetries
    BY <2>1, TriesAppended, BoundsTyped
  <2>3. QED
    BY <1>1, <2>1, <2>2, KindsStay
<1>4. QED
  BY <1>2, <1>3

LEMMA OthersKinds ==
    ASSUME TokenInv, KindsApart, UNCHANGED <<honoured, conns, connect, refreshes, run>>
    PROVE  KindsApart'
<1>1. \A k \in 1..Len(refreshes') : refreshes'[k].tries <= MaxRetries
  BY DEF KindsApart
<1>2. QED
  BY <1>1, KindsStay

LEMMA KindsInvariant == Spec => []KindsApart
<1>1. ASSUME Init
      PROVE  KindsApart
  BY <1>1, IdleKinds DEF Init, KindsApart
<1>2. ASSUME TokenInv, KindsApart, [Next]_vars
      PROVE  KindsApart'
  <2>1. CASE \E u \in Users : IntegrationsPage(u)
    BY <1>2, <2>1, OthersKinds DEF IntegrationsPage
  <2>2. CASE \E u \in Users : ConnectRoutes(u)
    BY <1>2, <2>2, ConnectKinds, RequestKinds, SaveConnectionKinds DEF ConnectRoutes
  <2>3. CASE \E c \in DOMAIN conns : Expire(c) \/ RequestRefresh(c)
    BY <1>2, <2>3, ExpireKinds
  <2>4. CASE \E w \in Refreshers : oauthRefresh(w)
    BY <1>2, <2>4, BeginRefreshKinds, RefreshKinds, SaveTokensKinds DEF oauthRefresh
  <2>5. CASE UNCHANGED tokenVars
    BY <1>2, <2>5, OthersKinds DEF tokenVars
  <2>6. (\E r \in Recordings : Receive(r) \/ Replay(r) \/ Send(r)) => UNCHANGED tokenVars
    BY DEF Receive, Replay, Send
  <2>7. (\E w \in Learners : fathomWebhookHandler(w)) => UNCHANGED tokenVars
    BY DEF fathomWebhookHandler, processFathomInboundEvent, TakeJob, ReadRow, Resolve, Embed,
           LearnChunk, CommitFacts, MarkLearnt, FailLearning
  <2>8. /\ (\E k \in Customers : AddCustomer(k)) => UNCHANGED tokenVars
        /\ (\E f \in DOMAIN facts, contradicted \in BOOLEAN : Judge(f, contradicted))
               => UNCHANGED tokenVars
        /\ UNCHANGED vars => UNCHANGED tokenVars
    BY DEF AddCustomer, Judge, vars
  <2>9. QED
    BY <1>2, <2>1, <2>2, <2>3, <2>4, <2>5, <2>6, <2>7, <2>8 DEF Next
<1>3. Init => KindsApart
  BY <1>1
<1>4. TokenInv /\ KindsApart /\ [Next]_vars => KindsApart'
  BY <1>2
<1>5. QED
  BY <1>3, <1>4, Invariance, PTL DEF Spec

-------------------------------------------------------------------------------
(* Recursion.  A fold of the library is a recursive definition over the subsets of a set:
   it has a value if the set is finite, by induction on the size of a subset.          *)

\* What holds of the empty set and of a subset with an element more holds of all subsets.
LEMMA FiniteInduction ==
    ASSUME NEW S, IsFiniteSet(S), NEW W, {} \in W,
           \A T \in SUBSET S, x \in S : T \in W /\ x \notin T => T \cup {x} \in W
    PROVE  SUBSET S \subseteq W
<1> DEFINE Bad == (SUBSET S) \ W
<1>1. SUFFICES ASSUME Bad # {} PROVE FALSE
  OBVIOUS
<1>2. PICK T \in Bad : \A U \in Bad : ~ (<<U, T>> \in StrictSubsetOrdering(S))
  <2>1. IsWellFoundedOn(StrictSubsetOrdering(S), FiniteSubsetsOf(S))
    BY FS_StrictSubsetOrderingWellFounded
  <2>2. Bad \subseteq FiniteSubsetsOf(S)
    BY FS_FiniteSubsetsOfFinite
  <2>3. QED
    BY <2>1, <2>2, <1>1, WFMin
<1>3. T # {}
  OBVIOUS
<1>4. PICK x \in T : TRUE
  BY <1>3
<1>5. T \ {x} \notin Bad
  BY <1>2, <1>4 DEF StrictSubsetOrdering
<1>6. (T \ {x}) \cup {x} \in W
  BY <1>4, <1>5
<1>7. (T \ {x}) \cup {x} = T
  BY <1>4
<1>8. QED
  BY <1>6, <1>7

LEMMA NatSetInduction ==
    ASSUME NEW W, 0 \in W, \A n \in Nat : n \in W => n + 1 \in W
    PROVE  Nat \subseteq W
<1>1. SUFFICES ASSUME NEW n \in Nat, n \notin W PROVE FALSE
  OBVIOUS
<1> DEFINE Below(m) == 0..m
           Bad == {Below(m) : m \in (0..n) \ W}
<1>2. PICK T \in Bad : \A U \in Bad : ~ (<<U, T>> \in StrictSubsetOrdering(0..n))
  <2>1. IsWellFoundedOn(StrictSubsetOrdering(0..n), FiniteSubsetsOf(0..n))
    BY FS_StrictSubsetOrderingWellFounded
  <2>2. IsFiniteSet(0..n)
    BY FS_Interval
  <2>3. Bad \subseteq SUBSET (0..n)
    OBVIOUS
  <2>4. Bad \subseteq FiniteSubsetsOf(0..n)
    BY <2>2, <2>3, FS_FiniteSubsetsOfFinite
  <2>5. Below(n) \in Bad
    BY <1>1
  <2>6. QED
    BY <2>1, <2>4, <2>5, WFMin
<1>3. PICK m \in (0..n) \ W : T = Below(m)
  OBVIOUS
<1>4. m # 0 /\ m - 1 \in 0..n
  BY <1>3
<1>5. m - 1 \notin W
  BY <1>3, <1>4
<1>6. Below(m - 1) \in Bad
  BY <1>4, <1>5
<1>7. Below(m - 1) \subseteq Below(m) /\ m \in Below(m) /\ m \notin Below(m - 1)
  BY <1>3
<1>8. <<Below(m - 1), Below(m)>> \in StrictSubsetOrdering(0..n)
  <2>1. Below(m - 1) \in SUBSET (0..n) /\ Below(m) \in SUBSET (0..n)
    BY <1>3
  <2>2. Below(m - 1) # Below(m)
    BY <1>7
  <2>3. QED
    BY <2>1, <2>2, <1>7 DEF StrictSubsetOrdering
<1>9. QED
  BY <1>2, <1>3, <1>6, <1>8


\* A recursive definition over the subsets of a finite set has a value.
Folds(S, base, step, ch, I) ==
    I = [s \in SUBSET S |-> IF s = {} THEN base ELSE step[<<ch[s], I[s \ {ch[s]}]>>]]

LEMMA FoldExists ==
    ASSUME NEW S, IsFiniteSet(S), NEW X, NEW base \in X, NEW step \in [S \X X -> X],
           NEW ch, \A s \in SUBSET S : s # {} => ch[s] \in s
    PROVE  \E I \in [SUBSET S -> X] : Folds(S, base, step, ch, I)
<1> DEFINE Rhs(I, s) == IF s = {} THEN base ELSE step[<<ch[s], I[s \ {ch[s]}]>>]
           Upto(n, I) == \A s \in SUBSET S : Cardinality(s) <= n => I[s] = Rhs(I, s)
           W == {n \in Nat : \E I \in [SUBSET S -> X] : Upto(n, I)}
<1>1. \A s \in SUBSET S : IsFiniteSet(s) /\ Cardinality(s) \in Nat
                          /\ (Cardinality(s) = 0 <=> s = {})
  BY FS_Subset, FS_CardinalityType, FS_EmptySet
<1>2. \A I \in [SUBSET S -> X], s \in SUBSET S : Rhs(I, s) \in X
  OBVIOUS
<1>3. 0 \in W
  <2>1. PICK I \in [SUBSET S -> X] : \A s \in SUBSET S : I[s] = base
    <3>1. [s \in SUBSET S |-> base] \in [SUBSET S -> X]
      OBVIOUS
    <3>2. QED
      BY <3>1
  <2>2. Upto(0, I)
    BY <1>1, <2>1
  <2>3. QED
    BY <2>2
<1>4. ASSUME NEW n \in Nat, n \in W
      PROVE  n + 1 \in W
  <2>1. PICK I \in [SUBSET S -> X] : Upto(n, I)
    BY <1>4
  <2>2. PICK J : J = [s \in SUBSET S |-> Rhs(I, s)]
    OBVIOUS
  <2>3. J \in [SUBSET S -> X]
    BY <1>2, <2>2
  <2>4. ASSUME NEW s \in SUBSET S, Cardinality(s) <= n + 1
        PROVE  J[s] = Rhs(J, s)
    <3>1. CASE s = {}
      BY <2>2, <3>1
    <3>2. CASE s # {}
      <4>1. PICK t : t = s \ {ch[s]}
        OBVIOUS
      <4>2. t \in SUBSET S /\ Cardinality(t) <= n
        <5>1. IsFiniteSet(s) /\ Cardinality(s) \in Nat /\ ch[s] \in s /\ t \in SUBSET S
          BY <1>1, <3>2, <4>1
        <5>2. Cardinality(t) = Cardinality(s) - 1
          BY <4>1, <5>1, FS_RemoveElement
        <5>3. QED
          BY <2>4, <5>1, <5>2
      <4>3. J[t] = I[t]
        BY <2>1, <2>2, <4>2
      <4>4. QED
        BY <2>2, <3>2, <4>1, <4>3
    <3>3. QED
      BY <3>1, <3>2
  <2>5. Upto(n + 1, J) /\ n + 1 \in Nat
    BY <2>4
  <2>6. QED
    BY <2>3, <2>5
<1> HIDE DEF W
<1>5. Nat \subseteq W
  BY <1>3, <1>4, NatSetInduction
<1>6. PICK I \in [SUBSET S -> X] : Upto(Cardinality(S), I)
  BY <1>1, <1>5 DEF W
<1>7. \A s \in SUBSET S : Cardinality(s) <= Cardinality(S)
  BY FS_Subset
<1>8. I = [s \in SUBSET S |-> Rhs(I, s)]
  BY <1>6, <1>7
<1>9. QED
  BY <1>8 DEF Folds

LEMMA IntervalHasMax ==
    ASSUME NEW n \in Nat, NEW s \in SUBSET (1..n), s # {}
    PROVE  Max(s) \in s /\ \A y \in s : Max(s) >= y
<1> DEFINE W == {t \in SUBSET (1..n) : t = {} \/ \E x \in t : \A y \in t : x >= y}
<1>1. \A t \in SUBSET (1..n), x \in 1..n : t \in W /\ x \notin t => t \cup {x} \in W
  <2>1. SUFFICES ASSUME NEW t \in W, NEW x \in 1..n PROVE \E z \in t \cup {x} : \A y \in t \cup {x} : z >= y
    OBVIOUS
  <2>2. CASE t = {}
    BY <2>2
  <2>3. CASE t # {}
    <3>1. PICK z \in t : \A y \in t : z >= y
      BY <2>3
    <3>2. z \in Nat /\ x \in Nat /\ \A y \in t : y \in Nat
      OBVIOUS
    <3>3. CASE z >= x
      BY <3>1, <3>3
    <3>4. CASE ~ (z >= x)
      BY <3>1, <3>2, <3>4
    <3>5. QED
      BY <3>3, <3>4
  <2>4. QED
    BY <2>2, <2>3
<1>2. {} \in W /\ IsFiniteSet(1..n)
  BY FS_Interval
<1> HIDE DEF W
<1>3. SUBSET (1..n) \subseteq W
  <2>1. PICK r : r = 1..n
    OBVIOUS
  <2>2. \A t \in SUBSET r, x \in r : t \in W /\ x \notin t => t \cup {x} \in W
    BY <1>1, <2>1
  <2>3. IsFiniteSet(r) /\ {} \in W
    BY <1>2, <2>1
  <2>4. SUBSET r \subseteq W
    BY <2>2, <2>3, FiniteInduction
  <2>5. QED
    BY <2>1, <2>4
<1>4. \E x \in s : \A y \in s : x >= y
  BY <1>3 DEF W
<1>5. QED
  BY <1>4 DEF Max

LEMMA MaxOfInterval ==
    ASSUME NEW n \in Nat, n # 0
    PROVE  Max(1..n) = n /\ (1..n) \ {n} = 1..(n - 1)
<1>1. 1..n \in SUBSET (1..n) /\ n \in 1..n
  OBVIOUS
<1>2. Max(1..n) \in 1..n /\ Max(1..n) >= n
  BY <1>1, IntervalHasMax
<1>3. QED
  BY <1>2

-------------------------------------------------------------------------------
(* Lengths.                                                                    *)

SumEqn(buf, I) ==
    I = [s \in SUBSET DOMAIN buf |-> IF s = {} THEN 0 ELSE I[s \ {Max(s)}] + buf[Max(s)] + 1]

LEMMA LengthIsEqn ==
    ASSUME NEW buf
    PROVE  Length(buf) = (CHOOSE I : SumEqn(buf, I))[DOMAIN buf] - (IF buf = <<>> THEN 0 ELSE 1)
BY DEF Length, FoldLeft, MapThenFoldSet, SumEqn

Sums(buf, L) ==
    /\ L \in [0..Len(buf) -> Nat] /\ L[0] = 0
    /\ \A k \in 1..Len(buf) : L[k] = L[k - 1] + buf[k] + 1

LEMMA LengthSums ==
    ASSUME NEW buf \in Seq(Nat)
    PROVE  \E L : Sums(buf, L) /\ Length(buf) = L[Len(buf)] - (IF buf = <<>> THEN 0 ELSE 1)
<1> DEFINE n == Len(buf)
           S == 1..n
           step == [p \in S \X Nat |-> p[2] + buf[p[1]] + 1]
           ch == [s \in SUBSET S |-> Max(s)]
<1>1. n \in Nat /\ DOMAIN buf = S /\ IsFiniteSet(S) /\ \A i \in S : buf[i] \in Nat
  <2>1. n \in Int /\ 1 \in Int
    OBVIOUS
  <2>2. IsFiniteSet(1..n)
    BY <2>1, FS_Interval
  <2>3. QED
    BY <2>2
<1>2. step \in [S \X Nat -> Nat]
  BY <1>1
<1>3. \A s \in SUBSET S : s # {} => ch[s] \in s
  BY <1>1, IntervalHasMax
<1>4. PICK I \in [SUBSET S -> Nat] : Folds(S, 0, step, ch, I)
  <2> HIDE DEF S, step, ch
  <2>1. QED
    BY <1>1, <1>2, <1>3, FoldExists
<1>5. SumEqn(buf, I)
  <2>1. ASSUME NEW s \in SUBSET S, s # {}
        PROVE  I[s] = I[s \ {Max(s)}] + buf[Max(s)] + 1
    <3>1. PICK m : m = Max(s)
      OBVIOUS
    <3>2. PICK t : t = s \ {m}
      OBVIOUS
    <3>3. ch[s] = m /\ m \in S /\ t \in SUBSET S /\ I[t] \in Nat
      BY <1>3, <2>1, <3>1, <3>2
    <3>4. I[s] = step[<<m, I[t]>>]
      BY <1>4, <2>1, <3>2, <3>3 DEF Folds
    <3>5. <<m, I[t]>> \in S \X Nat
      BY <3>3
    <3>6. step[<<m, I[t]>>] = I[t] + buf[m] + 1
      BY <3>5
    <3>7. QED
      BY <3>1, <3>2, <3>4, <3>6
  <2>2. \A s \in SUBSET S : I[s] = IF s = {} THEN 0 ELSE I[s \ {Max(s)}] + buf[Max(s)] + 1
    BY <1>4, <2>1 DEF Folds
  <2>3. QED
    BY <1>1, <1>4, <2>2 DEF SumEqn
<1>6. PICK J : J = CHOOSE K : SumEqn(buf, K)
  OBVIOUS
<1>7. SumEqn(buf, J)
  BY <1>5, <1>6
<1>8. PICK L : L = [k \in 0..n |-> J[1..k]]
  OBVIOUS
<1>9. L[0] = 0
  <2>1. 1..0 = {} /\ 0 \in 0..n
    BY <1>1
  <2>2. J[{}] = 0
    BY <1>7 DEF SumEqn
  <2>3. QED
    BY <1>8, <2>1, <2>2
<1>10. ASSUME NEW k \in 1..n
       PROVE  L[k] = L[k - 1] + buf[k] + 1
  <2>1. k \in Nat /\ k # 0 /\ k \in 0..n /\ k - 1 \in 0..n
    BY <1>1
  <2>2. Max(1..k) = k /\ (1..k) \ {k} = 1..(k - 1)
    BY <2>1, MaxOfInterval
  <2>3. 1..k \in SUBSET DOMAIN buf /\ 1..k # {}
    <3>1. k \in 1..k /\ \A j \in 1..k : j \in 1..n
      BY <1>1, <2>1
    <3>2. QED
      BY <1>1, <3>1
  <2>4. J[1..k] = J[1..(k - 1)] + buf[k] + 1
    BY <1>7, <2>2, <2>3 DEF SumEqn
  <2>5. QED
    BY <1>8, <2>1, <2>4
<1>11. \A k \in 0..n : L[k] \in Nat
  <2> DEFINE W == {k \in Nat : k <= n => L[k] \in Nat}
  <2>1. 0 \in W
    BY <1>9
  <2>2. \A k \in Nat : k \in W => k + 1 \in W
    <3>1. SUFFICES ASSUME NEW k \in Nat, k + 1 <= n, L[k] \in Nat PROVE L[k + 1] \in Nat
      BY <1>1
    <3>2. k + 1 \in 1..n /\ (k + 1) - 1 = k /\ buf[k + 1] \in Nat
      BY <1>1, <3>1
    <3>3. QED
      BY <1>10, <3>1, <3>2
  <2> HIDE DEF W
  <2>3. Nat \subseteq W
    BY <2>1, <2>2, NatSetInduction
  <2>4. QED
    BY <1>1, <2>3 DEF W
<1>12. Sums(buf, L)
  BY <1>8, <1>9, <1>10, <1>11 DEF Sums
<1>13. Length(buf) = L[n] - (IF buf = <<>> THEN 0 ELSE 1)
  BY <1>1, <1>6, <1>8, LengthIsEqn
<1>14. QED
  BY <1>12, <1>13

\* A line more adds its length, and a line break unless it is the first.
LEMMA LengthGrows ==
    /\ Length(<<>>) = 0
    /\ \A buf \in Seq(Nat), x \in Nat :
           /\ Length(buf) \in Nat /\ Append(buf, x) \in Seq(Nat)
           /\ Length(Append(buf, x)) = Length(buf) + x + (IF buf = <<>> THEN 0 ELSE 1)
<1>1. Length(<<>>) = 0
  <2>1. <<>> \in Seq(Nat) /\ Len(<<>>) = 0
    OBVIOUS
  <2>2. PICK L : Sums(<<>>, L) /\ Length(<<>>) = L[0] - 0
    BY <2>1, LengthSums
  <2>3. QED
    BY <2>2 DEF Sums
<1>2. ASSUME NEW buf \in Seq(Nat), NEW x \in Nat
      PROVE  /\ Length(buf) \in Nat /\ Append(buf, x) \in Seq(Nat)
             /\ Length(Append(buf, x)) = Length(buf) + x + (IF buf = <<>> THEN 0 ELSE 1)
  <2>1. PICK n : n = Len(buf)
    OBVIOUS
  <2>2. PICK more : more = Append(buf, x)
    OBVIOUS
  <2>3. /\ more \in Seq(Nat) /\ Len(more) = n + 1 /\ more[n + 1] = x /\ more # <<>> /\ n \in Nat
        /\ \A k \in 1..n : more[k] = buf[k] /\ buf[k] \in Nat
        /\ buf = <<>> <=> n = 0
    BY <2>1, <2>2
  <2>4. PICK L : Sums(buf, L) /\ Length(buf) = L[n] - (IF buf = <<>> THEN 0 ELSE 1)
    BY <2>1, LengthSums
  <2>5. PICK M : Sums(more, M) /\ Length(more) = M[n + 1] - (IF more = <<>> THEN 0 ELSE 1)
    BY <2>3, LengthSums
  <2>6. \A k \in 0..n : M[k] = L[k]
    <3> DEFINE W == {k \in Nat : k <= n => M[k] = L[k]}
    <3>1. 0 \in W
      BY <2>4, <2>5 DEF Sums
    <3>2. \A k \in Nat : k \in W => k + 1 \in W
      <4>1. SUFFICES ASSUME NEW k \in Nat, k + 1 <= n, M[k] = L[k] PROVE M[k + 1] = L[k + 1]
        BY <2>3
      <4>2. k + 1 \in 1..n /\ (k + 1) - 1 = k /\ k + 1 \in 1..(n + 1) /\ more[k + 1] = buf[k + 1]
        BY <2>3, <4>1
      <4>3. M[k + 1] = M[k] + more[k + 1] + 1 /\ L[k + 1] = L[k] + buf[k + 1] + 1
        BY <2>1, <2>3, <2>4, <2>5, <4>2 DEF Sums
      <4>4. QED
        BY <4>1, <4>2, <4>3
    <3> HIDE DEF W
    <3>3. Nat \subseteq W
      BY <3>1, <3>2, NatSetInduction
    <3>4. QED
      BY <2>3, <3>3 DEF W
  <2>7. L[n] \in Nat /\ M[n] = L[n] /\ (n # 0 => L[n] >= 1) /\ (n = 0 => L[n] = 0)
    <3>1. L[n] \in Nat /\ M[n] = L[n] /\ (n = 0 => L[n] = 0)
      BY <2>1, <2>3, <2>4, <2>6 DEF Sums
    <3>2. ASSUME n # 0 PROVE L[n] >= 1
      <4>1. n \in 1..n /\ n - 1 \in 0..n /\ buf[n] \in Nat
        BY <2>3, <3>2
      <4>2. L[n] = L[n - 1] + buf[n] + 1 /\ L[n - 1] \in Nat
        BY <2>1, <2>4, <4>1 DEF Sums
      <4>3. QED
        BY <4>1, <4>2
    <3>3. QED
      BY <3>1, <3>2
  <2>8. M[n + 1] = M[n] + x + 1
    <3>1. n + 1 \in 1..(n + 1) /\ (n + 1) - 1 = n
      BY <2>3
    <3>2. QED
      BY <2>3, <2>5, <3>1 DEF Sums
  <2>9. QED
    BY <2>2, <2>3, <2>4, <2>5, <2>7, <2>8
<1>3. QED
  BY <1>1, <1>2

-------------------------------------------------------------------------------
(* Chunks.                                                                     *)

State == [out : Seq(Seq(Nat)), buf : Seq(Nat)]
Bounded(chunk) == Length(chunk) \in MinChunk..MaxChunk
Kept(s, x) == Contains(s.buf, x) \/ \E j \in 1..Len(s.out) : Contains(s.out[j], x)

WellChunked(s) ==
    /\ s \in State
    /\ \A j \in 1..Len(s.out) : Bounded(s.out[j])
    /\ Length(s.buf) <= MaxChunk /\ \A i \in 1..Len(s.buf) : s.buf[i] <= Length(s.buf)

LEMMA SizesTyped == MaxChunk \in Nat /\ MinChunk \in Nat /\ 1 <= MinChunk /\ MinChunk <= MaxChunk
  BY IntegrationsAssumption


LEMMA OneLine ==
    ASSUME NEW x \in Nat
    PROVE  <<x>> \in Seq(Nat) /\ Length(<<x>>) = x /\ Contains(<<x>>, x) /\ <<x>> = Append(<<>>, x)
<1>1. <<>> \in Seq(Nat) /\ <<x>> = Append(<<>>, x) /\ <<x>> \in Seq(Nat)
  OBVIOUS
<1>2. Length(<<x>>) = x
  <2>1. Length(Append(<<>>, x)) = Length(<<>>) + x + (IF <<>> = <<>> THEN 0 ELSE 1) /\ Length(<<>>) = 0
    BY <1>1, LengthGrows
  <2>2. Length(Append(<<>>, x)) = x
    BY <2>1
  <2>3. QED
    BY <1>1, <2>2
<1>3. Contains(<<x>>, x)
  BY DEF Contains
<1>4. QED
  BY <1>1, <1>2, <1>3

LEMMA PiecesBounded ==
    ASSUME NEW line \in Nat
    PROVE  /\ Pieces(line) \in Seq(Seq(Nat))
           /\ \A j \in 1..Len(Pieces(line)) : Bounded(Pieces(line)[j])
<1> DEFINE a == [n \in 1..(line \div MaxChunk) |-> <<MaxChunk>>]
           b == IF line % MaxChunk >= MinChunk THEN << <<line % MaxChunk>> >> ELSE <<>>
<1>1. PICK q \in Nat : q = line \div MaxChunk
  BY SizesTyped
<1>2. PICK r \in Nat : r = line % MaxChunk /\ r < MaxChunk
  BY SizesTyped
<1>3. Bounded(<<MaxChunk>>) /\ <<MaxChunk>> \in Seq(Nat)
  BY SizesTyped, OneLine DEF Bounded
<1>4. r >= MinChunk => Bounded(<<r>>) /\ <<r>> \in Seq(Nat)
  BY <1>2, SizesTyped, OneLine DEF Bounded
<1>5. a \in Seq(Seq(Nat)) /\ Len(a) = q /\ \A j \in 1..q : a[j] = <<MaxChunk>>
  <2>1. PICK full : full = <<MaxChunk>>
    OBVIOUS
  <2>2. PICK T : T = Seq(Nat)
    OBVIOUS
  <2>3. full \in T
    BY <1>3, <2>1, <2>2
  <2>4. PICK g : g = [n \in 1..q |-> full]
    OBVIOUS
  <2>5. g \in Seq(T) /\ Len(g) = q /\ \A j \in 1..q : g[j] = full
    BY <2>3, <2>4
  <2>6. a = g
    BY <1>1, <2>1, <2>4
  <2>7. QED
    BY <2>1, <2>2, <2>5, <2>6
<1>6. b \in Seq(Seq(Nat)) /\ \A j \in 1..Len(b) : Bounded(b[j])
  BY <1>2, <1>4
<1>7. Pieces(line) = a \o b
  BY DEF Pieces
<1> HIDE DEF a, b
<1>8. /\ a \o b \in Seq(Seq(Nat)) /\ Len(a \o b) = Len(a) + Len(b) /\ Len(b) \in Nat
      /\ \A j \in 1..(Len(a) + Len(b)) :
             (a \o b)[j] = IF j <= Len(a) THEN a[j] ELSE b[j - Len(a)]
  <2>1. PICK T : T = Seq(Nat)
    OBVIOUS
  <2>2. a \in Seq(T) /\ b \in Seq(T)
    BY <1>5, <1>6, <2>1
  <2>3. /\ a \o b \in Seq(T) /\ Len(a \o b) = Len(a) + Len(b) /\ Len(b) \in Nat
        /\ \A j \in 1..(Len(a) + Len(b)) :
               (a \o b)[j] = IF j <= Len(a) THEN a[j] ELSE b[j - Len(a)]
    BY <2>2
  <2>4. QED
    BY <2>1, <2>3
<1>9. ASSUME NEW j \in 1..(Len(a) + Len(b))
      PROVE  Bounded((a \o b)[j])
  <2>1. CASE j <= Len(a)
    <3>1. j \in 1..q
      BY <1>5, <1>8, <2>1
    <3>2. (a \o b)[j] = a[j] /\ a[j] = <<MaxChunk>>
      BY <1>5, <1>8, <2>1, <3>1
    <3>3. QED
      BY <1>3, <3>2
  <2>2. CASE ~ (j <= Len(a))
    <3>1. j - Len(a) \in 1..Len(b)
      BY <1>5, <1>8, <2>2
    <3>2. QED
      BY <1>6, <1>8, <2>2, <3>1
  <2>3. QED
    BY <2>1, <2>2
<1>10. QED
  BY <1>7, <1>8, <1>9

LEMMA PushKeeps ==
    ASSUME NEW s, WellChunked(s)
    PROVE  /\ WellChunked(Push(s)) /\ Push(s).buf = <<>>
           /\ \A x \in MinChunk..MaxChunk : Kept(s, x) =>
                  \E j \in 1..Len(Push(s).out) : Contains(Push(s).out[j], x)
<1>1. PICK out : out = IF Length(s.buf) >= MinChunk THEN Append(s.out, s.buf) ELSE s.out
  OBVIOUS
<1>2. Push(s) = [out |-> out, buf |-> <<>>]
  BY <1>1 DEF Push
<1>3. s.out \in Seq(Seq(Nat)) /\ s.buf \in Seq(Nat) /\ Length(s.buf) \in Nat /\ Len(s.out) \in Nat
  BY LengthGrows DEF WellChunked, State
<1>4. /\ out \in Seq(Seq(Nat)) /\ \A j \in 1..Len(out) : Bounded(out[j])
      /\ \A j \in 1..Len(s.out) : j \in 1..Len(out) /\ out[j] = s.out[j]
      /\ Length(s.buf) >= MinChunk => Len(out) \in 1..Len(out) /\ out[Len(out)] = s.buf
  <2>1. CASE Length(s.buf) >= MinChunk
    <3>1. out = Append(s.out, s.buf)
      BY <1>1, <2>1
    <3>2. /\ out \in Seq(Seq(Nat)) /\ Len(out) = Len(s.out) + 1 /\ out[Len(out)] = s.buf
          /\ \A j \in 1..Len(s.out) : out[j] = s.out[j]
      BY <1>3, <3>1
    <3>3. Bounded(s.buf)
      BY <1>3, <2>1, SizesTyped DEF Bounded, WellChunked
    <3>4. \A j \in 1..Len(out) : j = Len(out) \/ j \in 1..Len(s.out)
      BY <1>3, <3>2
    <3>5. Len(out) \in 1..Len(out) /\ \A j \in 1..Len(s.out) : j \in 1..Len(out)
      BY <1>3, <3>2
    <3>6. QED
      BY <3>2, <3>3, <3>4, <3>5 DEF WellChunked
  <2>2. CASE ~ (Length(s.buf) >= MinChunk)
    BY <1>1, <1>3, <2>2 DEF WellChunked
  <2>3. QED
    BY <2>1, <2>2
<1>5. WellChunked(Push(s)) /\ Push(s).buf = <<>> /\ Push(s).out = out
  <2>1. <<>> \in Seq(Nat) /\ Len(<<>>) = 0 /\ Length(<<>>) = 0
    BY LengthGrows
  <2>2. QED
    BY <1>2, <1>4, <2>1, SizesTyped DEF WellChunked, State
<1>6. ASSUME NEW x \in MinChunk..MaxChunk, Contains(s.buf, x)
      PROVE  Length(s.buf) >= MinChunk
  <2>1. PICK i \in 1..Len(s.buf) : s.buf[i] = x
    BY <1>6 DEF Contains
  <2>2. x <= Length(s.buf)
    BY <2>1 DEF WellChunked
  <2>3. QED
    BY <1>3, <2>2, SizesTyped
<1>7. ASSUME NEW x \in MinChunk..MaxChunk, Kept(s, x)
      PROVE  \E j \in 1..Len(out) : Contains(out[j], x)
  BY <1>4, <1>6, <1>7 DEF Kept
<1>8. QED
  BY <1>5, <1>7

LEMMA AddLineKeeps ==
    ASSUME NEW s, WellChunked(s), NEW line \in Nat
    PROVE  /\ WellChunked(AddLine(s, line))
           /\ \A x \in MinChunk..MaxChunk : Kept(s, x) \/ x = line => Kept(AddLine(s, line), x)
<1>1. CASE line = 0
  <2>1. AddLine(s, line) = s
    BY <1>1 DEF AddLine
  <2>2. QED
    BY <1>1, <2>1, SizesTyped
<1>2. CASE line # 0 /\ line > MaxChunk
  <2>1. PICK a \in Seq(Seq(Nat)) : a = Push(s).out /\ \A j \in 1..Len(a) : Bounded(a[j])
    BY PushKeeps DEF WellChunked, State
  <2>2. PICK b \in Seq(Seq(Nat)) : b = Pieces(line) /\ \A j \in 1..Len(b) : Bounded(b[j])
    BY PiecesBounded
  <2>3. AddLine(s, line) = [out |-> a \o b, buf |-> <<>>]
    BY <1>2, <2>1, <2>2 DEF AddLine
  <2>4. /\ a \o b \in Seq(Seq(Nat)) /\ Len(a \o b) = Len(a) + Len(b) /\ Len(b) \in Nat /\ Len(a) \in Nat
        /\ \A j \in 1..(Len(a) + Len(b)) :
               (a \o b)[j] = IF j <= Len(a) THEN a[j] ELSE b[j - Len(a)]
    OBVIOUS
  <2>5. ASSUME NEW j \in 1..(Len(a) + Len(b))
        PROVE  Bounded((a \o b)[j])
    <3>1. CASE j <= Len(a)
      BY <2>1, <2>4, <3>1
    <3>2. CASE ~ (j <= Len(a))
      <4>1. j - Len(a) \in 1..Len(b)
        BY <2>4, <3>2
      <4>2. QED
        BY <2>2, <2>4, <3>2, <4>1
    <3>3. QED
      BY <3>1, <3>2
  <2>6. <<>> \in Seq(Nat) /\ Len(<<>>) = 0 /\ Length(<<>>) = 0
    BY LengthGrows
  <2>7. WellChunked(AddLine(s, line))
    BY <2>3, <2>4, <2>5, <2>6, SizesTyped DEF WellChunked, State
  <2>8. \A j \in 1..Len(a) : j \in 1..Len(a \o b) /\ (a \o b)[j] = a[j]
    BY <2>4
  <2>9. \A x \in MinChunk..MaxChunk : Kept(s, x) => Kept(AddLine(s, line), x)
    BY <2>1, <2>3, <2>8, PushKeeps DEF Kept
  <2>10. \A x \in MinChunk..MaxChunk : x # line
    BY <1>2, SizesTyped
  <2>11. QED
    BY <2>7, <2>9, <2>10
<1>3. CASE line # 0 /\ ~ (line > MaxChunk)
  <2>1. PICK p : p = IF Length(s.buf) + line + 1 > MaxChunk THEN Push(s) ELSE s
    OBVIOUS
  <2>2. AddLine(s, line) = [p EXCEPT !.buf = Append(p.buf, line)]
    BY <1>3, <2>1 DEF AddLine
  <2>3. WellChunked(p) /\ \A x \in MinChunk..MaxChunk : Kept(s, x) => Kept(p, x)
    BY <2>1, PushKeeps DEF Kept
  <2>4. s.buf \in Seq(Nat) /\ Length(s.buf) \in Nat
    BY LengthGrows DEF WellChunked, State
  <2>5. PICK b \in Seq(Nat) : b = p.buf
    BY <2>3 DEF WellChunked, State
  <2>6. PICK more : more = Append(b, line)
    OBVIOUS
  <2>7. /\ more \in Seq(Nat) /\ Len(more) = Len(b) + 1 /\ more[Len(b) + 1] = line /\ Len(b) \in Nat
        /\ \A i \in 1..Len(b) : more[i] = b[i] /\ b[i] \in Nat
    BY <2>6
  <2>8. Length(b) \in Nat /\ Length(more) = Length(b) + line + (IF b = <<>> THEN 0 ELSE 1)
    BY <2>6, LengthGrows
  <2>9. Length(more) <= MaxChunk
    <3>1. CASE Length(s.buf) + line + 1 > MaxChunk
      <4>1. b = <<>>
        BY <2>1, <2>5, <3>1, PushKeeps
      <4>2. QED
        BY <1>3, <2>8, <4>1, LengthGrows, SizesTyped
    <3>2. CASE ~ (Length(s.buf) + line + 1 > MaxChunk)
      BY <2>1, <2>4, <2>5, <2>8, <3>2, SizesTyped
    <3>3. QED
      BY <3>1, <3>2
  <2>10. \A i \in 1..Len(more) : more[i] <= Length(more)
    <3>1. SUFFICES ASSUME NEW i \in 1..Len(more) PROVE more[i] <= Length(more)
      OBVIOUS
    <3>2. CASE i \in 1..Len(b)
      <4>1. b[i] <= Length(b)
        BY <2>3, <2>5, <3>2 DEF WellChunked
      <4>2. QED
        BY <2>7, <2>8, <3>2, <4>1
    <3>3. CASE i = Len(b) + 1
      BY <2>7, <2>8, <3>3
    <3>4. QED
      BY <2>7, <3>2, <3>3
  <2>11. p \in State /\ AddLine(s, line) = [p EXCEPT !.buf = more]
    BY <2>2, <2>3, <2>5, <2>6 DEF WellChunked
  <2>12. AddLine(s, line) \in State /\ AddLine(s, line).out = p.out /\ AddLine(s, line).buf = more
    BY <2>7, <2>11 DEF State
  <2>13. WellChunked(AddLine(s, line))
    BY <2>3, <2>9, <2>10, <2>12 DEF WellChunked
  <2>14. Contains(more, line) /\ \A x : Contains(b, x) => Contains(more, x)
    <3>1. Len(b) + 1 \in 1..Len(more) /\ \A i \in 1..Len(b) : i \in 1..Len(more)
      BY <2>7
    <3>2. QED
      BY <2>7, <3>1 DEF Contains
  <2>15. QED
    BY <2>3, <2>5, <2>12, <2>13, <2>14 DEF Kept
<1>4. QED
  BY <1>1, <1>2, <1>3

Empty == [out |-> <<>>, buf |-> <<>>]
LinesEqn(lines, I) ==
    I = [s \in SUBSET DOMAIN lines |->
            IF s = {} THEN Empty ELSE AddLine(I[s \ {Max(s)}], lines[Max(s)])]

LEMMA NothingWell == WellChunked(Empty)
<1>1. <<>> \in Seq(Nat) /\ <<>> \in Seq(Seq(Nat)) /\ Len(<<>>) = 0 /\ Length(<<>>) = 0
  BY LengthGrows
<1>2. QED
  BY <1>1, SizesTyped DEF Empty, WellChunked, State

LEMMA ChunksAreEqn ==
    ASSUME NEW lines
    PROVE  chunkTranscript(lines) = Push((CHOOSE I : LinesEqn(lines, I))[DOMAIN lines]).out
BY DEF chunkTranscript, FoldLeft, MapThenFoldSet, LinesEqn, Empty

\* The states of the loop.
LEMMA LinesFold ==
    ASSUME NEW lines \in Seq(Nat)
    PROVE  \E T : /\ T[0] = Empty /\ \A k \in 1..Len(lines) : T[k] = AddLine(T[k - 1], lines[k])
                  /\ chunkTranscript(lines) = Push(T[Len(lines)]).out
<1> DEFINE n == Len(lines)
           S == 1..n
           X == {s \in State : WellChunked(s)}
           step == [p \in S \X X |-> AddLine(p[2], lines[p[1]])]
           ch == [s \in SUBSET S |-> Max(s)]
<1>1. n \in Nat /\ DOMAIN lines = S /\ IsFiniteSet(S) /\ \A i \in S : lines[i] \in Nat
  <2>1. n \in Int /\ 1 \in Int
    OBVIOUS
  <2>2. IsFiniteSet(1..n)
    BY <2>1, FS_Interval
  <2>3. QED
    BY <2>2
<1>2. step \in [S \X X -> X]
  BY <1>1, AddLineKeeps DEF WellChunked
<1>3. \A s \in SUBSET S : s # {} => ch[s] \in s
  BY <1>1, IntervalHasMax
<1>4. Empty \in X
  BY NothingWell DEF WellChunked
<1>5. PICK I \in [SUBSET S -> X] : Folds(S, Empty, step, ch, I)
  <2> HIDE DEF S, X, step, ch
  <2>1. QED
    BY <1>1, <1>2, <1>3, <1>4, FoldExists
<1>6. LinesEqn(lines, I)
  <2>1. ASSUME NEW s \in SUBSET S, s # {}
        PROVE  I[s] = AddLine(I[s \ {Max(s)}], lines[Max(s)])
    <3>1. PICK m : m = Max(s)
      OBVIOUS
    <3>2. PICK t : t = s \ {m}
      OBVIOUS
    <3>3. ch[s] = m /\ m \in S /\ t \in SUBSET S /\ I[t] \in X
      BY <1>3, <2>1, <3>1, <3>2
    <3>4. I[s] = step[<<m, I[t]>>]
      BY <1>5, <2>1, <3>2, <3>3 DEF Folds
    <3>5. <<m, I[t]>> \in S \X X
      BY <3>3
    <3>6. step[<<m, I[t]>>] = AddLine(I[t], lines[m])
      BY <3>5
    <3>7. QED
      BY <3>1, <3>2, <3>4, <3>6
  <2>2. \A s \in SUBSET S : I[s] = IF s = {} THEN Empty ELSE AddLine(I[s \ {Max(s)}], lines[Max(s)])
    BY <1>5, <2>1 DEF Folds
  <2>3. QED
    BY <1>1, <1>5, <2>2 DEF LinesEqn
<1>7. PICK J : J = CHOOSE K : LinesEqn(lines, K)
  OBVIOUS
<1>8. LinesEqn(lines, J)
  BY <1>6, <1>7
<1>9. PICK T : T = [k \in 0..n |-> J[1..k]]
  OBVIOUS
<1>10. T[0] = Empty
  <2>1. 1..0 = {} /\ 0 \in 0..n
    BY <1>1
  <2>2. J[{}] = Empty
    BY <1>8 DEF LinesEqn
  <2>3. QED
    BY <1>9, <2>1, <2>2
<1>11. ASSUME NEW k \in 1..n
       PROVE  T[k] = AddLine(T[k - 1], lines[k])
  <2>1. k \in Nat /\ k # 0 /\ k \in 0..n /\ k - 1 \in 0..n
    BY <1>1
  <2>2. Max(1..k) = k /\ (1..k) \ {k} = 1..(k - 1)
    BY <2>1, MaxOfInterval
  <2>3. 1..k \in SUBSET DOMAIN lines /\ 1..k # {}
    <3>1. k \in 1..k /\ \A j \in 1..k : j \in 1..n
      BY <1>1, <2>1
    <3>2. QED
      BY <1>1, <3>1
  <2>4. J[1..k] = AddLine(J[1..(k - 1)], lines[k])
    BY <1>8, <2>2, <2>3 DEF LinesEqn
  <2>5. T[k] = J[1..k] /\ T[k - 1] = J[1..(k - 1)]
    BY <1>9, <2>1
  <2>6. QED
    BY <2>4, <2>5
<1>12. chunkTranscript(lines) = Push(T[n]).out
  <2>1. T[n] = J[DOMAIN lines]
    BY <1>1, <1>9
  <2>2. QED
    BY <1>7, <2>1, ChunksAreEqn
<1>13. QED
  BY <1>10, <1>11, <1>12

\* Of any transcript, every chunk has a permitted length, and every line that is neither too
\* short nor too long is whole in one of them: chunkTranscript drops noise only.
THEOREM ChunksKeepLines ==
    ASSUME NEW lines \in Seq(Nat)
    PROVE  /\ chunkTranscript(lines) \in Seq(Seq(Nat))
           /\ \A j \in 1..Len(chunkTranscript(lines)) :
                  Length(chunkTranscript(lines)[j]) \in MinChunk..MaxChunk
           /\ \A x \in MinChunk..MaxChunk : Contains(lines, x) =>
                  \E j \in 1..Len(chunkTranscript(lines)) : Contains(chunkTranscript(lines)[j], x)
<1>1. PICK T : /\ T[0] = Empty /\ \A k \in 1..Len(lines) : T[k] = AddLine(T[k - 1], lines[k])
               /\ chunkTranscript(lines) = Push(T[Len(lines)]).out
  BY LinesFold
<1> DEFINE n == Len(lines)
           Done(k) == /\ WellChunked(T[k])
                      /\ \A x \in MinChunk..MaxChunk, i \in 1..k : lines[i] = x => Kept(T[k], x)
           W == {k \in Nat : k <= n => Done(k)}
<1>2. n \in Nat /\ \A i \in 1..n : lines[i] \in Nat
  OBVIOUS
<1>3. 0 \in W
  BY <1>1, NothingWell
<1>4. \A k \in Nat : k \in W => k + 1 \in W
  <2>1. SUFFICES ASSUME NEW k \in Nat, k + 1 <= n, Done(k) PROVE Done(k + 1)
    BY <1>2
  <2>2. k + 1 \in 1..n /\ (k + 1) - 1 = k /\ lines[k + 1] \in Nat
    BY <1>2, <2>1
  <2>3. T[k + 1] = AddLine(T[k], lines[k + 1])
    BY <1>1, <2>2
  <2>4. /\ WellChunked(T[k + 1])
        /\ \A x \in MinChunk..MaxChunk : Kept(T[k], x) \/ x = lines[k + 1] => Kept(T[k + 1], x)
    BY <2>1, <2>2, <2>3, AddLineKeeps
  <2>5. \A i \in 1..(k + 1) : i = k + 1 \/ i \in 1..k
    BY <2>1
  <2>6. QED
    BY <2>1, <2>4, <2>5
<1>5. Done(n)
  <2>1. 0 \in W /\ \A k \in Nat : k \in W => k + 1 \in W
    BY <1>3, <1>4
  <2> HIDE DEF W
  <2>2. Nat \subseteq W
    BY <2>1, NatSetInduction
  <2>3. QED
    BY <1>2, <2>2 DEF W
<1>6. PICK out : out = chunkTranscript(lines)
  OBVIOUS
<1>7. /\ out \in Seq(Seq(Nat)) /\ \A j \in 1..Len(out) : Bounded(out[j])
      /\ \A x \in MinChunk..MaxChunk : Kept(T[n], x) => \E j \in 1..Len(out) : Contains(out[j], x)
  BY <1>1, <1>5, <1>6, PushKeeps DEF WellChunked, State
<1>8. \A x \in MinChunk..MaxChunk : Contains(lines, x) => Kept(T[n], x)
  BY <1>5 DEF Contains
<1>9. QED
  BY <1>6, <1>7, <1>8 DEF Bounded

-------------------------------------------------------------------------------
(* Facts.                                                                             *)
Fact == [customer : Customers, text : Seq(Nat), contradicted : BOOLEAN]
Row == [stored : BOOLEAN, processed : BOOLEAN, error : BOOLEAN]
Learner == [at : {"idle", "read", "resolve", "embed", "learn", "mark"},
            rec : Recordings \cup {NoLearner.rec}, customer : Customers \cup {NoLearner.customer},
            next : Nat, new : SUBSET Seq(Nat), tries : Nat]

Has(customer, text) ==
    \E f \in 1..Len(facts) : facts[f].customer = customer /\ facts[f].text = text

(* A run stands where its code stands: what it has looked at is a fact or held.       *)
Placed(x) ==
    /\ x \in Learner
    /\ x.at # "idle" => x.rec \in Recordings
    /\ x.at \in {"embed", "learn", "mark"} =>
           /\ x.customer \in customers
           /\ \E n \in DOMAIN Invitees[x.rec] : Invitees[x.rec][n] = x.customer
    /\ x.at # "learn" => x.new = {}
    /\ x.at = "learn" => x.next # 0 /\ x.new \subseteq ToSet(ChunksOf[x.rec])
    /\ \A j \in 1..Len(ChunksOf[x.rec]) :
           /\ x.at = "learn" /\ j < x.next =>
                  ChunksOf[x.rec][j] \in x.new \/ Has(x.customer, ChunksOf[x.rec][j])
           /\ x.at = "mark" => Has(x.customer, ChunksOf[x.rec][j])

FactsTyped ==
    /\ customers \subseteq Customers /\ inbox \in [Recordings -> Row]
    /\ facts \in Seq(Fact)
    /\ \A f \in 1..Len(facts) : /\ facts[f].customer \in customers
                                /\ Length(facts[f].text) \in MinChunk..MaxChunk

(* A text that is held twice, or held and a fact, was met.                            *)
HeldOnce ==
    \A w \in Learners : \A text \in learner[w].new :
        <<learner[w].customer, text>> \notin met =>
            /\ ~ Has(learner[w].customer, text)
            /\ \A v \in Learners : learner[v].customer = learner[w].customer
                                   /\ text \in learner[v].new => v = w

FactsOnce ==
    \A f, g \in 1..Len(facts) :
        /\ facts[f].customer = facts[g].customer /\ facts[f].text = facts[g].text
        /\ <<facts[f].customer, facts[f].text>> \notin met
        => f = g

LearntFrom(r) ==
    \E n \in DOMAIN Invitees[r] :
        \A j \in 1..Len(ChunksOf[r]) : Has(Invitees[r][n], ChunksOf[r][j])

FactInv ==
    /\ FactsTyped /\ learner \in [Learners -> Learner] /\ \A w \in Learners : Placed(learner[w])
    /\ HeldOnce /\ FactsOnce
    /\ \A r \in Recordings : inbox[r].processed /\ ~ inbox[r].error => LearntFrom(r)

LEMMA ChunksOfRecording ==
    ASSUME NEW r \in Recordings
    PROVE  /\ ChunksOf[r] \in Seq(Seq(Nat))
           /\ \A j \in 1..Len(ChunksOf[r]) : Length(ChunksOf[r][j]) \in MinChunk..MaxChunk
           /\ \A x \in MinChunk..MaxChunk : Contains(Transcript[r], x) =>
                  \E j \in 1..Len(ChunksOf[r]) : Contains(ChunksOf[r][j], x)
<1>1. Transcript[r] \in Seq(Nat) /\ ChunksOf[r] = chunkTranscript(Transcript[r])
  BY IntegrationsAssumption DEF ChunksOf
<1>2. QED
  BY <1>1, ChunksKeepLines

\* Of a finite set there is a sequence of its elements, each once.
LEMMA SetListed ==
    ASSUME NEW S, IsFiniteSet(S)
    PROVE  /\ SetToSeq(S) \in Seq(S)
           /\ \A i, j \in 1..Len(SetToSeq(S)) : SetToSeq(S)[i] = SetToSeq(S)[j] => i = j
           /\ \A x \in S : \E i \in 1..Len(SetToSeq(S)) : SetToSeq(S)[i] = x
<1>1. PICK n \in Nat : n = Cardinality(S)
  BY FS_CardinalityType
<1>2. PICK b \in Bijection(1..n, S) : TRUE
  BY <1>1, FS_CardinalityType DEF ExistsBijection
<1>3. b \in [1..n -> S] /\ IsInjective(b)
  BY <1>2 DEF Bijection, Injection
<1>4. PICK q : q = SetToSeq(S)
  OBVIOUS
<1>5. q \in [1..n -> S] /\ IsInjective(q)
  BY <1>1, <1>3, <1>4 DEF SetToSeq
<1>6. q \in Seq(S) /\ Len(q) = n
  BY <1>5
<1>7. q \in Surjection(1..n, S)
  <2>1. q \in Injection(1..n, S)
    BY <1>5 DEF Injection
  <2>2. IsFiniteSet(1..n) /\ Cardinality(1..n) = n
    <3>1. 1 \in Int /\ n \in Int
      OBVIOUS
    <3>2. QED
      BY <3>1, FS_Interval
  <2>3. QED
    BY <1>1, <2>1, <2>2, FS_Injection
<1>8. \A x \in S : \E i \in 1..n : q[i] = x
  BY <1>7 DEF Surjection
<1>9. QED
  BY <1>4, <1>5, <1>6, <1>8 DEF IsInjective

\* A sequence has finitely many elements.
LEMMA ElementsFinite ==
    ASSUME NEW S, NEW chunks \in Seq(S)
    PROVE  IsFiniteSet(ToSet(chunks))
<1>1. PICK n \in Nat : n = Len(chunks)
  OBVIOUS
<1>2. chunks \in Surjection(1..n, ToSet(chunks))
  <2>1. DOMAIN chunks = 1..n /\ chunks \in [1..n -> ToSet(chunks)]
    BY <1>1 DEF ToSet
  <2>2. \A x \in ToSet(chunks) : \E i \in 1..n : chunks[i] = x
    BY <1>1 DEF ToSet
  <2>3. QED
    BY <2>1, <2>2 DEF Surjection
<1>3. IsFiniteSet(1..n)
  <2>1. 1 \in Int /\ n \in Int
    OBVIOUS
  <2>2. QED
    BY <2>1, FS_Interval
<1>4. QED
  BY <1>2, <1>3, FS_Surjection

\* The rows of a set of chunks.
FactRows(k, new) == {[customer |-> k, text |-> text, contradicted |-> FALSE] : text \in new}

LEMMA RowsListed ==
    ASSUME NEW new, IsFiniteSet(new), NEW k \in Customers, \A text \in new : text \in Seq(Nat)
    PROVE  \E q \in Seq(Fact) :
               /\ q = SetToSeq(FactRows(k, new))
               /\ \A i \in 1..Len(q) : q[i].customer = k /\ q[i].text \in new
               /\ \A i, j \in 1..Len(q) : q[i].text = q[j].text => i = j
               /\ \A text \in new : \E i \in 1..Len(q) : q[i].text = text
<1> DEFINE row(text) == [customer |-> k, text |-> text, contradicted |-> FALSE]
           rows == {row(text) : text \in new}
<1>2. IsFiniteSet(rows)
  <2>1. PICK f : f = [text \in new |-> row(text)]
    OBVIOUS
  <2>2. f \in Surjection(new, rows)
    BY <2>1 DEF Surjection
  <2>3. QED
    BY <2>2, FS_Surjection
<1>3. \A x \in rows : x \in Fact /\ x.customer = k /\ x.text \in new
                      /\ \A y \in rows : x.text = y.text => x = y
  <2>2. \A text \in new : text \in Seq(Nat) /\ row(text) \in Fact
    BY DEF Fact
  <2>3. SUFFICES ASSUME NEW x \in rows
                 PROVE  x \in Fact /\ x.customer = k /\ x.text \in new
                        /\ \A y \in rows : x.text = y.text => x = y
    OBVIOUS
  <2>4. PICK text \in new : x = row(text)
    OBVIOUS
  <2>5. x \in Fact /\ x.customer = k /\ x.text = text
    BY <2>2, <2>4
  <2>6. ASSUME NEW y \in rows, x.text = y.text
        PROVE  x = y
    <3>1. PICK other \in new : y = row(other)
      OBVIOUS
    <3>2. other = text
      BY <2>5, <2>6, <3>1
    <3>3. QED
      BY <2>4, <3>1, <3>2
  <2>7. QED
    BY <2>5, <2>6
<1>4. \A text \in new : row(text) \in rows /\ row(text).text = text
  OBVIOUS
<1>5. PICK q : q = SetToSeq(rows)
  OBVIOUS
<1> HIDE DEF rows
<1>6. /\ q \in Seq(rows) /\ \A i, j \in 1..Len(q) : q[i] = q[j] => i = j
      /\ \A x \in rows : \E i \in 1..Len(q) : q[i] = x
  BY <1>2, <1>5, SetListed
<1>7. /\ q \in Seq(Fact)
      /\ \A i \in 1..Len(q) : q[i] \in rows
  BY <1>3, <1>6
<1>8. /\ \A i \in 1..Len(q) : q[i].customer = k /\ q[i].text \in new
      /\ \A i, j \in 1..Len(q) : q[i].text = q[j].text => i = j
  BY <1>3, <1>6, <1>7
<1>9. ASSUME NEW text \in new
      PROVE  \E i \in 1..Len(q) : q[i].text = text
  <2>1. PICK x \in rows : x.text = text
    BY <1>4
  <2>2. QED
    BY <1>6, <2>1
<1>10. q = SetToSeq(FactRows(k, new))
  BY <1>5 DEF rows, FactRows
<1>11. QED
  BY <1>7, <1>8, <1>9, <1>10

-------------------------------------------------------------------------------
(* Steps of a run that learns.                                                 *)

LEMMA PlacedStays ==
    ASSUME NEW x, Placed(x), customers \subseteq customers',
           \A k, text : Has(k, text) => Has(k, text)'
    PROVE  Placed(x)'
<1>1. \A k : k \in customers => k \in customers'
  OBVIOUS
<1> HIDE DEF Has
<1>2. QED
  BY <1>1 DEF Placed

\* A step that holds no text and adds no fact: runs move, rows are written, facts are judged.
LEMMA QuietStep ==
    ASSUME FactInv, facts' \in Seq(Fact), Len(facts') = Len(facts),
           \A f \in 1..Len(facts) : /\ facts'[f].customer = facts[f].customer
                                    /\ facts'[f].text = facts[f].text,
           met' = met, customers \subseteq customers', customers' \subseteq Customers,
           learner' \in [Learners -> Learner],
           \A w \in Learners : learner'[w] = learner[w] \/ \E x : /\ learner'[w] = x
                                                               /\ Placed(x) /\ x.new = {},
           inbox' \in [Recordings -> Row],
           \A r \in Recordings : inbox'[r].processed /\ ~ inbox'[r].error =>
               (inbox[r].processed /\ ~ inbox[r].error) \/ LearntFrom(r)
    PROVE  FactInv'
<1>1. \A k, text : Has(k, text)' <=> Has(k, text)
  BY DEF Has
<1>2. FactsTyped'
  BY DEF FactInv, FactsTyped
<1>3. ASSUME NEW w \in Learners
      PROVE  Placed(learner[w])'
  <2>1. PICK x : x = learner'[w]
    OBVIOUS
  <2>2. Placed(x)
    BY <2>1 DEF FactInv
  <2>3. Placed(x)'
    BY <1>1, <2>2, PlacedStays
  <2>4. QED
    BY <2>1, <2>3
<1>4. \A w \in Learners : /\ learner'[w].new \subseteq learner[w].new
                          /\ learner'[w].new # {} => learner'[w] = learner[w]
  <2>1. SUFFICES ASSUME NEW w \in Learners
                 PROVE  /\ learner'[w].new \subseteq learner[w].new
                        /\ learner'[w].new # {} => learner'[w] = learner[w]
    OBVIOUS
  <2>2. QED
    OBVIOUS
<1>5. HeldOnce'
  <2>1. SUFFICES ASSUME NEW w \in Learners, NEW text \in learner'[w].new,
                        <<learner'[w].customer, text>> \notin met
                 PROVE  /\ ~ Has(learner[w].customer, text)'
                        /\ \A v \in Learners : learner'[v].customer = learner'[w].customer
                                               /\ text \in learner'[v].new => v = w
    BY DEF HeldOnce
  <2>2. learner'[w] = learner[w] /\ text \in learner[w].new
    BY <1>4, <2>1
  <2>3. /\ ~ Has(learner[w].customer, text)
        /\ \A v \in Learners : learner[v].customer = learner[w].customer
                               /\ text \in learner[v].new => v = w
    BY <2>1, <2>2 DEF FactInv, HeldOnce
  <2>4. \A v \in Learners : text \in learner'[v].new => learner'[v] = learner[v]
    BY <1>4
  <2>5. PICK k : k = learner[w].customer
    OBVIOUS
  <2>6. ~ Has(k, text)'
    BY <1>1, <2>3, <2>5
  <2>7. ~ Has(learner[w].customer, text)'
    BY <2>2, <2>5, <2>6 DEF Has
  <2>8. QED
    BY <2>2, <2>3, <2>4, <2>7
<1>6. FactsOnce'
  BY DEF FactInv, FactsOnce
<1>7. \A r \in Recordings : LearntFrom(r) => LearntFrom(r)'
  BY <1>1 DEF LearntFrom
<1>8. \A r \in Recordings : (inbox[r].processed /\ ~ inbox[r].error => LearntFrom(r))'
  BY <1>7 DEF FactInv
<1>9. QED
  BY <1>2, <1>3, <1>5, <1>6, <1>8 DEF FactInv

LEMMA LearnerMoves ==
    ASSUME FactInv, NEW w \in Learners, NEW x, learner' = [learner EXCEPT ![w] = x],
           Placed(x), x.new = {}, UNCHANGED <<facts, met, customers>>,
           inbox' \in [Recordings -> Row],
           \A r \in Recordings : inbox'[r].processed /\ ~ inbox'[r].error =>
               (inbox[r].processed /\ ~ inbox[r].error) \/ LearntFrom(r)
    PROVE  FactInv'
<1>1. learner \in [Learners -> Learner] /\ x \in Learner
  BY DEF FactInv, Placed
<1>2. /\ learner' \in [Learners -> Learner] /\ learner'[w] = x
      /\ \A v \in Learners \ {w} : learner'[v] = learner[v]
  BY <1>1
<1>3. \A v \in Learners : learner'[v] = learner[v] \/ \E y : /\ learner'[v] = y
                                                            /\ Placed(y) /\ y.new = {}
  BY <1>2
<1>4. facts' \in Seq(Fact) /\ customers \subseteq customers' /\ customers' \subseteq Customers
  BY DEF FactInv, FactsTyped
<1>5. QED
  BY <1>2, <1>3, <1>4, QuietStep

LEMMA IdleIsPlaced == Placed(NoLearner) /\ NoLearner.new = {} /\ NoLearner.at = "idle"
  BY DEF Placed, NoLearner, Learner

LEMMA StarterIsPlaced ==
    ASSUME NEW r \in Recordings, NEW n \in Nat
    PROVE  LET x == [NoLearner EXCEPT !.at = "read", !.rec = r, !.tries = n]
           IN  Placed(x) /\ x.new = {}
  BY DEF Placed, NoLearner, Learner

LEMMA RowsStay ==
    ASSUME FactInv, inbox' = inbox
    PROVE  /\ inbox' \in [Recordings -> Row]
           /\ \A r \in Recordings : inbox'[r].processed /\ ~ inbox'[r].error =>
                  (inbox[r].processed /\ ~ inbox[r].error) \/ LearntFrom(r)
  BY DEF FactInv, FactsTyped

LEMMA RowMarked ==
    ASSUME FactInv, NEW w \in Learners, learner[w].rec \in Recordings, NEW error \in BOOLEAN,
           markProcessed(w, error), error \/ LearntFrom(learner[w].rec)
    PROVE  /\ inbox' \in [Recordings -> Row]
           /\ \A r \in Recordings : inbox'[r].processed /\ ~ inbox'[r].error =>
                  (inbox[r].processed /\ ~ inbox[r].error) \/ LearntFrom(r)
<1>1. PICK rec \in Recordings : rec = learner[w].rec
  OBVIOUS
<1>2. inbox \in [Recordings -> Row] /\ inbox[rec] \in Row
  BY DEF FactInv, FactsTyped
<1>3. PICK y : y = [[inbox[rec] EXCEPT !.processed = TRUE] EXCEPT !.error = error]
  OBVIOUS
<1>4. y \in Row /\ y.error = error
  BY <1>2, <1>3 DEF Row
<1>5. inbox' = [inbox EXCEPT ![rec] = y]
  BY <1>1, <1>2, <1>3 DEF markProcessed
<1>6. /\ inbox' \in [Recordings -> Row] /\ inbox'[rec] = y
      /\ \A r \in Recordings \ {rec} : inbox'[r] = inbox[r]
  BY <1>2, <1>4, <1>5
<1>7. QED
  BY <1>1, <1>4, <1>6

LEMMA TakeJobLearns ==
    ASSUME FactInv, NEW w \in Learners, NEW r \in Recordings, TakeJob(w, r)
    PROVE  FactInv'
<1>1. PICK x : x = [NoLearner EXCEPT !.at = "read", !.rec = r]
  OBVIOUS
<1>2. Placed(x) /\ x.new = {}
  BY <1>1 DEF Placed, NoLearner, Learner
<1>3. learner' = [learner EXCEPT ![w] = x]
  <2>1. learner[w] = NoLearner /\ learner \in [Learners -> Learner]
    BY DEF TakeJob, FactInv
  <2>2. learner' = [learner EXCEPT ![w] = [NoLearner EXCEPT !.at = "read", !.rec = r]]
    BY <2>1 DEF TakeJob
  <2>3. QED
    BY <1>1, <2>2
<1>4. UNCHANGED <<facts, met, customers, inbox>>
  BY DEF TakeJob
<1>5. QED
  BY <1>2, <1>3, <1>4, RowsStay, LearnerMoves

LEMMA ReadRowLearns ==
    ASSUME FactInv, NEW w \in Learners, ReadRow(w)
    PROVE  FactInv'
<1>1. UNCHANGED <<facts, met, customers, inbox>> /\ learner[w].at = "read" /\ Placed(learner[w])
  BY DEF ReadRow, FactInv
<1>2. PICK x : x = IF inbox[learner[w].rec].processed THEN NoLearner
                   ELSE [learner[w] EXCEPT !.at = "resolve"]
  OBVIOUS
<1>3. learner' = [learner EXCEPT ![w] = x]
  BY <1>2 DEF ReadRow, FactInv
<1>4. Placed(x) /\ x.new = {}
  <2>1. CASE inbox[learner[w].rec].processed
    BY <1>2, <2>1, IdleIsPlaced
  <2>2. CASE ~ inbox[learner[w].rec].processed
    BY <1>1, <1>2, <2>2 DEF Placed, Learner
  <2>3. QED
    BY <2>1, <2>2
<1>5. QED
  BY <1>1, <1>3, <1>4, RowsStay, LearnerMoves

LEMMA ResolveLearns ==
    ASSUME FactInv, NEW w \in Learners, Resolve(w)
    PROVE  FactInv'
<1>1. /\ UNCHANGED <<facts, met, customers>> /\ learner[w].at = "resolve" /\ Placed(learner[w])
      /\ learner \in [Learners -> Learner]
  BY DEF Resolve, FactInv
<1>2. CASE markProcessed(w, TRUE) /\ learner' = [learner EXCEPT ![w] = NoLearner]
  <2>1. learner[w].rec \in Recordings
    BY <1>1 DEF Placed
  <2>2. QED
    BY <1>1, <1>2, <2>1, IdleIsPlaced, RowMarked, LearnerMoves
<1>3. ASSUME NEW n \in DOMAIN Invitees[learner[w].rec], inbox' = inbox,
             Invitees[learner[w].rec][n] \in customers,
             learner' = [learner EXCEPT ![w].at = "embed",
                                        ![w].customer = Invitees[learner[w].rec][n]]
      PROVE  FactInv'
  <2>1. PICK k : k = Invitees[learner[w].rec][n]
    OBVIOUS
  <2>2. PICK x : x = [learner[w] EXCEPT !.at = "embed", !.customer = k]
    OBVIOUS
  <2>3. learner' = [learner EXCEPT ![w] = x]
    BY <1>1, <1>3, <2>1, <2>2
  <2>4. k \in Customers /\ learner[w] \in Learner
    BY <1>1, <1>3, <2>1 DEF FactInv, FactsTyped
  <2>5. /\ x \in Learner /\ x.at = "embed" /\ x.customer = k /\ x.rec = learner[w].rec
        /\ x.new = learner[w].new
    BY <2>2, <2>4 DEF Learner
  <2>6. Placed(x) /\ x.new = {}
    BY <1>1, <1>3, <2>1, <2>5 DEF Placed
  <2>7. QED
    BY <1>1, <1>3, <2>3, <2>6, RowsStay, LearnerMoves
<1>4. QED
  BY <1>2, <1>3 DEF Resolve

LEMMA RetryStarts ==
    ASSUME FactInv, NEW w \in Learners, learner[w].at # "idle", Retry(w)
    PROVE  \E x : learner' = [learner EXCEPT ![w] = x] /\ Placed(x) /\ x.new = {}
<1>1. /\ learner \in [Learners -> Learner] /\ learner[w].rec \in Recordings
      /\ learner[w].tries + 1 \in Nat
  BY DEF FactInv, Placed, Learner
<1>2. PICK x : x = IF learner[w].tries = MaxRetries THEN NoLearner
                   ELSE [NoLearner EXCEPT !.at = "read", !.rec = learner[w].rec,
                                          !.tries = learner[w].tries + 1]
  OBVIOUS
<1>3. learner' = [learner EXCEPT ![w] = x]
  BY <1>1, <1>2 DEF Retry
<1>4. PICK r \in Recordings : r = learner[w].rec
  BY <1>1
<1>5. PICK n \in Nat : n = learner[w].tries + 1
  BY <1>1
<1>6. Placed(x) /\ x.new = {}
  <2>1. CASE learner[w].tries = MaxRetries
    BY <1>2, <2>1, IdleIsPlaced
  <2>2. CASE learner[w].tries # MaxRetries
    <3>1. x = [NoLearner EXCEPT !.at = "read", !.rec = r, !.tries = n]
      BY <1>2, <1>4, <1>5, <2>2
    <3>2. QED
      BY <3>1, StarterIsPlaced
  <2>3. QED
    BY <2>1, <2>2
<1>7. QED
  BY <1>3, <1>6

LEMMA EmbedLearns ==
    ASSUME FactInv, NEW w \in Learners, Embed(w)
    PROVE  FactInv'
<1>1. /\ UNCHANGED <<facts, met, customers>> /\ learner[w].at = "embed" /\ Placed(learner[w])
      /\ learner \in [Learners -> Learner] /\ learner[w].rec \in Recordings
  BY DEF Embed, FactInv, Placed
<1>2. CASE learner' = [learner EXCEPT ![w].at = "learn", ![w].next = 1] /\ inbox' = inbox
  <2>1. PICK x : x = [learner[w] EXCEPT !.at = "learn", !.next = 1]
    OBVIOUS
  <2>2. learner' = [learner EXCEPT ![w] = x]
    BY <1>1, <1>2, <2>1
  <2>3. /\ x \in Learner /\ x.at = "learn" /\ x.customer = learner[w].customer
        /\ x.rec = learner[w].rec /\ x.new = learner[w].new /\ x.next = 1
    BY <1>1, <2>1 DEF Learner
  <2>4. Placed(x) /\ x.new = {}
    BY <1>1, <2>3 DEF Placed
  <2>5. QED
    BY <1>1, <1>2, <2>2, <2>4, RowsStay, LearnerMoves
<1>3. CASE markProcessed(w, TRUE) /\ Retry(w)
  BY <1>1, <1>3, RetryStarts, RowMarked, LearnerMoves
<1>4. QED
  BY <1>2, <1>3 DEF Embed

LEMMA FailLearningLearns ==
    ASSUME FactInv, NEW w \in Learners, FailLearning(w)
    PROVE  FactInv'
<1>1. UNCHANGED <<facts, met, customers, inbox>> /\ learner[w].at # "idle" /\ Retry(w)
  BY DEF FailLearning
<1>2. QED
  BY <1>1, RetryStarts, RowsStay, LearnerMoves

LEMMA MarkLearntLearns ==
    ASSUME FactInv, NEW w \in Learners, MarkLearnt(w)
    PROVE  FactInv'
<1>1. /\ UNCHANGED <<facts, met, customers>> /\ learner[w].at = "mark" /\ Placed(learner[w])
      /\ learner[w].rec \in Recordings /\ markProcessed(w, FALSE)
      /\ learner' = [learner EXCEPT ![w] = NoLearner]
  BY DEF MarkLearnt, FactInv, Placed
<1>2. LearntFrom(learner[w].rec)
  BY <1>1 DEF Placed, LearntFrom
<1>3. QED
  BY <1>1, <1>2, IdleIsPlaced, RowMarked, LearnerMoves

LEMMA OthersLearn ==
    ASSUME FactInv,
           \/ \E k \in Customers : AddCustomer(k)
           \/ \E r \in Recordings : Receive(r) \/ Replay(r) \/ Send(r)
           \/ UNCHANGED factVars
    PROVE  FactInv'
<1>1. UNCHANGED <<facts, met, learner>> /\ customers \subseteq customers' /\ customers' \subseteq Customers
  BY DEF FactInv, FactsTyped, AddCustomer, Receive, Replay, Send, factVars
<1>2. /\ inbox' \in [Recordings -> Row]
      /\ \A r \in Recordings : inbox'[r].processed /\ ~ inbox'[r].error =>
             (inbox[r].processed /\ ~ inbox[r].error)
  <2>1. inbox \in [Recordings -> Row]
    BY DEF FactInv, FactsTyped
  <2>2. CASE inbox' = inbox
    BY <2>1, <2>2
  <2>3. ASSUME NEW r \in Recordings, Receive(r) \/ Replay(r)
        PROVE  \E y \in Row : /\ inbox' = [inbox EXCEPT ![r] = y]
                              /\ y.processed => inbox[r].processed /\ y.error = inbox[r].error
    <3>1. CASE Receive(r)
      <4>1. PICK y : y = [inbox[r] EXCEPT !.stored = TRUE]
        OBVIOUS
      <4>2. inbox' = [inbox EXCEPT ![r] = y]
        BY <2>1, <3>1, <4>1 DEF Receive
      <4>3. y \in Row /\ y.processed = inbox[r].processed /\ y.error = inbox[r].error
        BY <2>1, <4>1 DEF Row
      <4>4. QED
        BY <4>2, <4>3
    <3>2. CASE Replay(r)
      <4>1. PICK y : y = [inbox[r] EXCEPT !.processed = FALSE, !.error = FALSE]
        OBVIOUS
      <4>2. inbox' = [inbox EXCEPT ![r] = y]
        BY <2>1, <3>2, <4>1 DEF Replay
      <4>3. y \in Row /\ ~ y.processed
        BY <2>1, <4>1 DEF Row
      <4>4. QED
        BY <4>2, <4>3
    <3>3. QED
      BY <2>3, <3>1, <3>2
  <2>4. ASSUME NEW r \in Recordings, Receive(r) \/ Replay(r)
        PROVE  /\ inbox' \in [Recordings -> Row]
               /\ \A q \in Recordings : inbox'[q].processed /\ ~ inbox'[q].error =>
                      (inbox[q].processed /\ ~ inbox[q].error)
    <3>1. PICK y \in Row : /\ inbox' = [inbox EXCEPT ![r] = y]
                           /\ y.processed => inbox[r].processed /\ y.error = inbox[r].error
      BY <2>3, <2>4
    <3>2. inbox' \in [Recordings -> Row] /\ inbox'[r] = y
          /\ \A q \in Recordings \ {r} : inbox'[q] = inbox[q]
      BY <2>1, <3>1
    <3>3. QED
      BY <3>1, <3>2
  <2>5. inbox' = inbox \/ \E r \in Recordings : Receive(r) \/ Replay(r)
    BY DEF AddCustomer, Send, factVars
  <2>6. QED
    BY <2>2, <2>4, <2>5
<1>3. QED
  BY <1>1, <1>2, QuietStep DEF FactInv, FactsTyped

LEMMA JudgeLearns ==
    ASSUME FactInv, NEW f \in DOMAIN facts, NEW contradicted \in BOOLEAN, Judge(f, contradicted)
    PROVE  FactInv'
<1>1. UNCHANGED <<met, learner, customers, inbox>> /\ facts \in Seq(Fact) /\ f \in 1..Len(facts)
  BY DEF Judge, FactInv, FactsTyped
<1>2. PICK x : x = [facts[f] EXCEPT !.contradicted = contradicted]
  OBVIOUS
<1>3. x \in Fact /\ x.customer = facts[f].customer /\ x.text = facts[f].text
  <2>1. facts[f] \in Fact
    BY <1>1
  <2>2. QED
    BY <1>2, <2>1 DEF Fact
<1>4. facts' = [facts EXCEPT ![f] = x]
  BY <1>1, <1>2 DEF Judge
<1>5. /\ facts' \in Seq(Fact) /\ Len(facts') = Len(facts) /\ facts'[f] = x
      /\ \A g \in 1..Len(facts) \ {f} : facts'[g] = facts[g]
  BY <1>1, <1>3, <1>4
<1>6. \A g \in 1..Len(facts) : /\ facts'[g].customer = facts[g].customer
                               /\ facts'[g].text = facts[g].text
  BY <1>3, <1>5
<1>7. customers \subseteq customers' /\ customers' \subseteq Customers /\ learner' \in [Learners -> Learner]
  BY <1>1 DEF FactInv, FactsTyped
<1>8. QED
  BY <1>1, <1>5, <1>6, <1>7, RowsStay, QuietStep

LEMMA LearnChunkLearns ==
    ASSUME FactInv, NEW w \in Learners, LearnChunk(w)
    PROVE  FactInv'
<1>1. /\ UNCHANGED <<facts, customers, inbox>> /\ learner[w].at = "learn" /\ Placed(learner[w])
      /\ learner \in [Learners -> Learner] /\ learner[w].next <= Len(ChunksOf[learner[w].rec])
  BY DEF LearnChunk, FactInv
<1>2. PICK l \in Learner : l = learner[w]
  BY <1>1
<1>3. PICK chunks \in Seq(Seq(Nat)) : chunks = ChunksOf[l.rec]
  BY <1>1, <1>2, ChunksOfRecording DEF Placed
<1>4. PICK text : text = chunks[l.next]
  OBVIOUS
<1>5. l.next \in 1..Len(chunks) /\ text \in Seq(Nat) /\ text \in ToSet(chunks)
  <2>1. l.next \in Nat /\ l.next # 0
    BY <1>1, <1>2 DEF Placed, Learner
  <2>2. l.next \in 1..Len(chunks)
    BY <1>1, <1>2, <1>3, <2>1
  <2>3. QED
    BY <1>3, <1>4, <2>2 DEF ToSet
<1>6. Known(w, text) <=> text \in l.new \/ Has(l.customer, text)
  BY <1>2 DEF Known, Has, FactInv, FactsTyped
<1>7. PICK new : new = IF Known(w, text) THEN l.new ELSE l.new \cup {text}
  OBVIOUS
<1>8. PICK x : x = [l EXCEPT !.next = l.next + 1, !.new = new]
  OBVIOUS
<1>9. learner' = [learner EXCEPT ![w] = x]
  BY <1>1, <1>2, <1>3, <1>4, <1>7, <1>8 DEF LearnChunk
<1>10. new \in SUBSET Seq(Nat) /\ new \subseteq ToSet(chunks) /\ l.new \subseteq new
       /\ (text \in new \/ Has(l.customer, text)) /\ new \subseteq l.new \cup {text}
       /\ (text \notin l.new /\ text \in new => ~ Has(l.customer, text))
  <2>1. l.new \in SUBSET Seq(Nat) /\ l.new \subseteq ToSet(chunks)
    BY <1>1, <1>2, <1>3 DEF Learner, Placed
  <2>2. QED
    BY <1>5, <1>6, <1>7, <2>1
<1>11. /\ x \in Learner /\ x.at = "learn" /\ x.rec = l.rec /\ x.customer = l.customer
       /\ x.next = l.next + 1 /\ x.new = new
  <2>1. l.at = "learn" /\ l.next + 1 \in Nat /\ new \in SUBSET Seq(Nat)
    BY <1>1, <1>2, <1>10 DEF Learner
  <2>2. QED
    BY <1>8, <2>1 DEF Learner
<1>12. Placed(x)
  <2>1. \A j \in 1..Len(chunks) : j < l.next + 1 => chunks[j] \in new \/ Has(l.customer, chunks[j])
    <3>1. SUFFICES ASSUME NEW j \in 1..Len(chunks), j < l.next + 1
                   PROVE  chunks[j] \in new \/ Has(l.customer, chunks[j])
      OBVIOUS
    <3>2. CASE j = l.next
      BY <1>4, <1>10, <3>2
    <3>3. CASE j < l.next
      <4>1. chunks[j] \in l.new \/ Has(l.customer, chunks[j])
        BY <1>1, <1>2, <1>3, <3>3 DEF Placed
      <4>2. QED
        BY <1>10, <4>1
    <3>4. QED
      BY <1>5, <3>1, <3>2, <3>3
  <2>2. x.next # 0
    BY <1>5, <1>11
  <2>3. QED
    BY <1>1, <1>2, <1>3, <1>10, <1>11, <2>1, <2>2 DEF Placed
<1>13. /\ learner' \in [Learners -> Learner] /\ learner'[w] = x
       /\ \A v \in Learners \ {w} : learner'[v] = learner[v]
  BY <1>1, <1>9, <1>11
<1>14. /\ \A k, t : Has(k, t)' <=> Has(k, t)
       /\ met \subseteq met'
       /\ \A v \in Learners \ {w} : learner[v].customer = l.customer /\ text \in learner[v].new
              => <<l.customer, text>> \in met'
  <2>1. \A k, t : Has(k, t)' <=> Has(k, t)
    BY <1>1 DEF Has
  <2>2. PICK unseen : unseen = (\E v \in Learners \ {w} : learner[v].customer = l.customer
                                                          /\ text \in learner[v].new)
    OBVIOUS
  <2>3. met' = IF unseen THEN met \cup {<<l.customer, text>>} ELSE met
    BY <1>1, <1>2, <1>3, <1>4, <2>2 DEF LearnChunk
  <2>4. QED
    BY <2>1, <2>2, <2>3
<1>15. FactsTyped'
  BY <1>1 DEF FactInv, FactsTyped
<1>16. ASSUME NEW v \in Learners
       PROVE  Placed(learner[v])'
  <2>1. PICK y : y = learner'[v]
    OBVIOUS
  <2>2. Placed(y)
    BY <1>12, <1>13, <2>1 DEF FactInv
  <2>3. Placed(y)'
    BY <1>1, <1>14, <2>2, PlacedStays
  <2>4. QED
    BY <2>1, <2>3
<1>17. HeldOnce'
  <2>1. SUFFICES ASSUME NEW v \in Learners, NEW t \in learner'[v].new, NEW k,
                        k = learner'[v].customer, <<k, t>> \notin met'
                 PROVE  /\ ~ Has(k, t)'
                        /\ \A u \in Learners : learner'[u].customer = k
                                               /\ t \in learner'[u].new => u = v
    <3>1. PICK k : k = k
      OBVIOUS
    <3>2. QED
      BY DEF HeldOnce, Has
  <2>2. \A u \in Learners : learner'[u].customer = learner[u].customer
    BY <1>2, <1>11, <1>13
  <2>3. \A u \in Learners : /\ t \in learner'[u].new => t \in learner[u].new \/ (u = w /\ t = text)
                            /\ t \in learner[u].new => t \in learner'[u].new
    BY <1>2, <1>10, <1>11, <1>13
  <2>4. CASE t \in learner[v].new
    <3>1. /\ ~ Has(k, t)
          /\ \A u \in Learners : learner[u].customer = k /\ t \in learner[u].new => u = v
      BY <1>14, <2>1, <2>2, <2>4 DEF FactInv, HeldOnce
    <3>2. ASSUME NEW u \in Learners, learner'[u].customer = k, t \in learner'[u].new, u # v
          PROVE  FALSE
      <4>1. u = w /\ t = text
        BY <2>2, <2>3, <3>1, <3>2
      <4>2. v \in Learners \ {w} /\ learner[v].customer = l.customer
        BY <1>2, <2>1, <2>2, <3>2, <4>1
      <4>3. QED
        BY <1>2, <1>14, <2>1, <2>2, <2>4, <4>1, <4>2
    <3>3. QED
      BY <1>14, <3>1, <3>2
  <2>5. CASE t \notin learner[v].new
    <3>1. v = w /\ t = text /\ k = l.customer
      BY <1>2, <2>1, <2>2, <2>3, <2>5
    <3>2. ~ Has(k, t)'
      BY <1>2, <1>10, <1>11, <1>13, <1>14, <2>1, <2>5, <3>1
    <3>3. ASSUME NEW u \in Learners, learner'[u].customer = k, t \in learner'[u].new, u # v
          PROVE  FALSE
      BY <1>14, <2>1, <2>2, <2>3, <3>1, <3>3
    <3>4. QED
      BY <3>2, <3>3
  <2>6. QED
    BY <2>4, <2>5
<1>18. FactsOnce'
  BY <1>1, <1>14 DEF FactInv, FactsOnce
<1>19. \A r \in Recordings : (inbox[r].processed /\ ~ inbox[r].error => LearntFrom(r))'
  BY <1>1, <1>14 DEF FactInv, LearntFrom
<1>20. QED
  BY <1>13, <1>15, <1>16, <1>17, <1>18, <1>19 DEF FactInv

LEMMA CommitFactsLearns ==
    ASSUME FactInv, NEW w \in Learners, CommitFacts(w)
    PROVE  FactInv'
<1>1. /\ UNCHANGED <<met, customers, inbox>> /\ learner[w].at = "learn" /\ Placed(learner[w])
      /\ learner \in [Learners -> Learner] /\ learner[w].next > Len(ChunksOf[learner[w].rec])
      /\ facts \in Seq(Fact) /\ Len(facts) \in Nat
  BY DEF CommitFacts, FactInv, FactsTyped
<1>2. PICK l \in Learner : l = learner[w]
  BY <1>1
<1>3. PICK chunks \in Seq(Seq(Nat)) : /\ chunks = ChunksOf[l.rec]
                                      /\ \A j \in 1..Len(chunks) : Length(chunks[j]) \in MinChunk..MaxChunk
  BY <1>1, <1>2, ChunksOfRecording DEF Placed
<1>4. l.new \in SUBSET ToSet(chunks) /\ l.customer \in customers /\ l.customer \in Customers
  BY <1>1, <1>2, <1>3 DEF Placed, FactInv, FactsTyped
<1>5. PICK k : k = l.customer
  OBVIOUS
<1>6. PICK q \in Seq(Fact) :
          /\ facts' = facts \o q
          /\ \A i \in 1..Len(q) : q[i].customer = k /\ q[i].text \in l.new
          /\ \A i, j \in 1..Len(q) : q[i].text = q[j].text => i = j
          /\ \A text \in l.new : \E i \in 1..Len(q) : q[i].text = text
  <2>1. PICK new : new = l.new
    OBVIOUS
  <2>2. k \in Customers /\ IsFiniteSet(new) /\ \A text \in new : text \in Seq(Nat)
    <3>1. IsFiniteSet(ToSet(chunks))
      <4>1. PICK T : T = Seq(Nat)
        OBVIOUS
      <4>2. chunks \in Seq(T)
        BY <1>3, <4>1
      <4>3. QED
        BY <4>2, ElementsFinite
    <3>2. new \in SUBSET ToSet(chunks)
      BY <1>4, <2>1
    <3>3. IsFiniteSet(new)
      BY <3>1, <3>2, FS_Subset
    <3>4. QED
      BY <1>2, <1>4, <1>5, <2>1, <3>3 DEF Learner
  <2>3. PICK q \in Seq(Fact) :
            /\ q = SetToSeq(FactRows(k, new))
            /\ \A i \in 1..Len(q) : q[i].customer = k /\ q[i].text \in new
            /\ \A i, j \in 1..Len(q) : q[i].text = q[j].text => i = j
            /\ \A text \in new : \E i \in 1..Len(q) : q[i].text = text
    BY <2>2, RowsListed
  <2>4. facts' = facts \o q
    BY <1>1, <1>2, <1>5, <2>1, <2>3 DEF CommitFacts, FactRows
  <2>5. QED
    BY <2>1, <2>3, <2>4
<1>7. PICK n \in Nat : n = Len(facts)
  BY <1>1
<1>8. PICK m \in Nat : m = Len(q)
  OBVIOUS
<1>9. /\ facts' \in Seq(Fact) /\ Len(facts') = n + m
      /\ \A f \in 1..n : f \in 1..(n + m) /\ facts'[f] = facts[f]
      /\ \A i \in 1..m : n + i \in 1..(n + m) /\ facts'[n + i] = q[i]
      /\ \A f \in 1..(n + m) : f \in 1..n \/ \E i \in 1..m : f = n + i
  <2>1. PICK T : T = Fact
    OBVIOUS
  <2>2. facts \in Seq(T) /\ q \in Seq(T)
    BY <1>1, <2>1
  <2>3. /\ facts \o q \in Seq(T) /\ Len(facts \o q) = n + m
        /\ \A j \in 1..(n + m) : (facts \o q)[j] = IF j <= n THEN facts[j] ELSE q[j - n]
    BY <1>7, <1>8, <2>2
  <2>4. \A f \in 1..n : f \in 1..(n + m) /\ facts'[f] = facts[f]
    BY <1>6, <2>3
  <2>5. ASSUME NEW i \in 1..m PROVE n + i \in 1..(n + m) /\ facts'[n + i] = q[i]
    <3>1. n + i \in 1..(n + m) /\ ~ (n + i <= n) /\ (n + i) - n = i
      OBVIOUS
    <3>2. QED
      BY <1>6, <2>3, <3>1
  <2>6. ASSUME NEW f \in 1..(n + m), f \notin 1..n PROVE \E i \in 1..m : f = n + i
    <3>1. f - n \in 1..m /\ f = n + (f - n)
      BY <2>6
    <3>2. QED
      BY <3>1
  <2>7. QED
    BY <1>6, <2>1, <2>3, <2>4, <2>5, <2>6
<1>10. \A kk, t : Has(kk, t)' <=> Has(kk, t) \/ (kk = k /\ t \in l.new)
  <2>1. ASSUME NEW kk, NEW t, Has(kk, t) PROVE Has(kk, t)'
    BY <1>7, <1>9, <2>1 DEF Has
  <2>2. ASSUME NEW t \in l.new PROVE Has(k, t)'
    <3>1. PICK i \in 1..m : q[i].text = t /\ q[i].customer = k
      BY <1>6, <1>8
    <3>2. n + i \in 1..Len(facts') /\ facts'[n + i] = q[i]
      BY <1>9
    <3>3. QED
      BY <3>1, <3>2 DEF Has
  <2>3. ASSUME NEW kk, NEW t, Has(kk, t)' PROVE Has(kk, t) \/ (kk = k /\ t \in l.new)
    <3>1. PICK f \in 1..(n + m) : facts'[f].customer = kk /\ facts'[f].text = t
      BY <1>9, <2>3 DEF Has
    <3>2. CASE f \in 1..n
      BY <1>7, <1>9, <3>1, <3>2 DEF Has
    <3>3. CASE \E i \in 1..m : f = n + i
      <4>1. PICK i \in 1..m : f = n + i
        BY <3>3
      <4>2. facts'[f] = q[i] /\ q[i].customer = k /\ q[i].text \in l.new
        BY <1>6, <1>8, <1>9, <4>1
      <4>3. QED
        BY <3>1, <4>2
    <3>4. QED
      BY <1>9, <3>2, <3>3
  <2>4. QED
    BY <2>1, <2>2, <2>3
<1>11. PICK x : x = [l EXCEPT !.at = "mark", !.new = {}]
  OBVIOUS
<1>12. learner' = [learner EXCEPT ![w] = x]
  BY <1>1, <1>2, <1>11 DEF CommitFacts
<1>13. x \in Learner /\ x.at = "mark" /\ x.rec = l.rec /\ x.customer = k /\ x.new = {}
  BY <1>2, <1>5, <1>11 DEF Learner
<1>14. /\ learner' \in [Learners -> Learner] /\ learner'[w] = x
       /\ \A v \in Learners \ {w} : learner'[v] = learner[v]
  BY <1>1, <1>12, <1>13
<1>15. FactsTyped'
  <2>1. ASSUME NEW f \in 1..(n + m)
        PROVE  facts'[f].customer \in customers /\ Length(facts'[f].text) \in MinChunk..MaxChunk
    <3>1. CASE f \in 1..n
      BY <1>7, <1>9, <3>1 DEF FactInv, FactsTyped
    <3>2. CASE \E i \in 1..m : f = n + i
      <4>1. PICK i \in 1..m : f = n + i
        BY <3>2
      <4>2. facts'[f].customer = k /\ facts'[f].text \in ToSet(chunks)
        BY <1>4, <1>6, <1>8, <1>9, <4>1
      <4>3. \A text \in ToSet(chunks) : Length(text) \in MinChunk..MaxChunk
        <5>1. SUFFICES ASSUME NEW text \in ToSet(chunks) PROVE Length(text) \in MinChunk..MaxChunk
          OBVIOUS
        <5>2. PICK j \in 1..Len(chunks) : chunks[j] = text
          BY DEF ToSet
        <5>3. QED
          BY <1>3, <5>2
      <4>4. QED
        BY <1>4, <1>5, <4>2, <4>3
    <3>3. QED
      BY <1>9, <3>1, <3>2
  <2>2. QED
    BY <1>1, <1>9, <2>1 DEF FactInv, FactsTyped
<1>16. Placed(x)'
  <2>1. /\ l.customer \in customers /\ l.rec \in Recordings
        /\ \E i \in DOMAIN Invitees[l.rec] : Invitees[l.rec][i] = l.customer
    BY <1>1, <1>2 DEF Placed
  <2>2. ASSUME NEW j \in 1..Len(chunks)
        PROVE  Has(k, chunks[j])'
    <3>1. j < l.next
      <4>1. l.next \in Nat /\ Len(chunks) \in Nat /\ l.next > Len(chunks)
        BY <1>1, <1>2, <1>3 DEF Learner
      <4>2. QED
        BY <4>1
    <3>2. chunks[j] \in l.new \/ Has(k, chunks[j])
      BY <1>1, <1>2, <1>3, <1>5, <3>1 DEF Placed
    <3>3. QED
      BY <1>10, <3>2
  <2>3. customers' = customers
    BY <1>1
  <2> HIDE DEF Has
  <2>4. QED
    BY <1>3, <1>5, <1>13, <2>1, <2>2, <2>3 DEF Placed
<1>17. ASSUME NEW v \in Learners
       PROVE  Placed(learner[v])'
  <2>1. CASE v = w
    BY <1>14, <1>16, <2>1
  <2>2. CASE v # w
    <3>1. PICK y : y = learner[v]
      OBVIOUS
    <3>2. Placed(y) /\ learner'[v] = y
      BY <1>14, <2>2, <3>1 DEF FactInv
    <3>3. Placed(y)'
      BY <1>1, <1>10, <3>2, PlacedStays
    <3>4. QED
      BY <3>2, <3>3
  <2>3. QED
    BY <2>1, <2>2
<1>18. HeldOnce'
  <2>1. SUFFICES ASSUME NEW v \in Learners, NEW t \in learner'[v].new, NEW kk,
                        kk = learner'[v].customer, <<kk, t>> \notin met'
                 PROVE  /\ ~ Has(kk, t)'
                        /\ \A u \in Learners : learner'[u].customer = kk
                                               /\ t \in learner'[u].new => u = v
    BY DEF HeldOnce, Has
  <2>2. v # w /\ learner'[v] = learner[v]
    BY <1>13, <1>14, <2>1
  <2>3. /\ ~ Has(kk, t)
        /\ \A u \in Learners : learner[u].customer = kk /\ t \in learner[u].new => u = v
    BY <1>1, <2>1, <2>2 DEF FactInv, HeldOnce
  <2>4. ~ (kk = k /\ t \in l.new)
    BY <1>2, <1>5, <2>2, <2>3
  <2>5. \A u \in Learners : t \in learner'[u].new => learner'[u] = learner[u]
    BY <1>13, <1>14
  <2>6. QED
    BY <1>10, <2>3, <2>4, <2>5
<1>19. FactsOnce'
  <2>1. SUFFICES ASSUME NEW f \in 1..(n + m), NEW g \in 1..(n + m),
                        facts'[f].customer = facts'[g].customer, facts'[f].text = facts'[g].text,
                        <<facts'[f].customer, facts'[f].text>> \notin met
                 PROVE  f = g
    BY <1>1, <1>9 DEF FactsOnce
  <2>2. ASSUME NEW i \in 1..m, NEW h \in 1..n, facts[h].customer = k, facts[h].text = q[i].text
        PROVE  <<k, q[i].text>> \in met
    <3>1. q[i].text \in learner[w].new /\ learner[w].customer = k
      BY <1>2, <1>5, <1>6, <1>8
    <3>2. Has(k, q[i].text)
      BY <1>7, <2>2 DEF Has
    <3>3. QED
      BY <3>1, <3>2 DEF FactInv, HeldOnce
  <2>3. \A i \in 1..m : q[i].customer = k
    BY <1>6, <1>8
  <2>4. CASE f \in 1..n /\ g \in 1..n
    BY <1>7, <1>9, <2>1, <2>4 DEF FactInv, FactsOnce
  <2>5. CASE f \in 1..n /\ \E i \in 1..m : g = n + i
    <3>1. PICK i \in 1..m : g = n + i
      BY <2>5
    <3>2. facts'[f] = facts[f] /\ facts'[g] = q[i] /\ q[i].customer = k
      BY <1>9, <2>3, <2>5, <3>1
    <3>3. facts[f].customer = k /\ facts[f].text = q[i].text /\ <<k, q[i].text>> \notin met
      BY <2>1, <3>2
    <3>4. QED
      BY <2>2, <2>5, <3>3
  <2>6. CASE g \in 1..n /\ \E i \in 1..m : f = n + i
    <3>1. PICK i \in 1..m : f = n + i
      BY <2>6
    <3>2. facts'[g] = facts[g] /\ facts'[f] = q[i] /\ q[i].customer = k
      BY <1>9, <2>3, <2>6, <3>1
    <3>3. facts[g].customer = k /\ facts[g].text = q[i].text /\ <<k, q[i].text>> \notin met
      BY <2>1, <3>2
    <3>4. QED
      BY <2>2, <2>6, <3>3
  <2>7. CASE (\E i \in 1..m : f = n + i) /\ \E i \in 1..m : g = n + i
    <3>1. PICK i \in 1..m : f = n + i
      BY <2>7
    <3>2. PICK j \in 1..m : g = n + j
      BY <2>7
    <3>3. q[i].text = q[j].text
      BY <1>9, <2>1, <3>1, <3>2
    <3>4. i = j
      BY <1>6, <1>8, <3>3
    <3>5. QED
      BY <3>1, <3>2, <3>4
  <2>8. QED
    BY <1>9, <2>4, <2>5, <2>6, <2>7
<1>20. \A r \in Recordings : (inbox[r].processed /\ ~ inbox[r].error => LearntFrom(r))'
  BY <1>1, <1>10 DEF FactInv, LearntFrom
<1>21. QED
  BY <1>14, <1>15, <1>17, <1>18, <1>19, <1>20 DEF FactInv

LEMMA FactsStart ==
    ASSUME Init
    PROVE  FactInv
<1>1. /\ facts = <<>> /\ customers \subseteq Customers /\ inbox = [r \in Recordings |-> NoRow]
      /\ learner = [w \in Learners |-> NoLearner]
  BY DEF Init
<1>2. NoRow \in Row /\ ~ NoRow.processed /\ NoLearner \in Learner
  BY IdleIsPlaced DEF NoRow, Row, Placed
<1>3. FactsTyped
  BY <1>1, <1>2 DEF FactsTyped
<1>4. HeldOnce /\ FactsOnce
  BY <1>1, IdleIsPlaced DEF HeldOnce, FactsOnce
<1>5. QED
  BY <1>1, <1>2, <1>3, <1>4, IdleIsPlaced DEF FactInv

LEMMA FactsStep ==
    ASSUME FactInv, [Next]_vars
    PROVE  FactInv'
<1>1. CASE \E w \in Learners : fathomWebhookHandler(w)
  BY <1>1, TakeJobLearns, ReadRowLearns, ResolveLearns, EmbedLearns, LearnChunkLearns,
     CommitFactsLearns, MarkLearntLearns, FailLearningLearns
     DEF fathomWebhookHandler, processFathomInboundEvent
<1>2. CASE \E f \in DOMAIN facts, contradicted \in BOOLEAN : Judge(f, contradicted)
  BY <1>2, JudgeLearns
<1>3. CASE \/ \E k \in Customers : AddCustomer(k)
           \/ \E r \in Recordings : Receive(r) \/ Replay(r) \/ Send(r)
           \/ UNCHANGED factVars
  BY <1>3, OthersLearn
<1>4. (\E u \in Users : IntegrationsPage(u) \/ ConnectRoutes(u)) => UNCHANGED factVars
  BY DEF IntegrationsPage, ConnectRoutes, Connect, FindSource, InsertSource, FindConnection,
         SaveConnection, FailConnect
<1>5. (\E c \in DOMAIN conns : Expire(c) \/ RequestRefresh(c)) => UNCHANGED factVars
  BY DEF Expire, RequestRefresh
<1>6. (\E w \in Refreshers : oauthRefresh(w)) => UNCHANGED factVars
  BY DEF oauthRefresh, BeginRefresh, SelectToken, HoldRow, AskProvider, SaveTokens,
         FailRefresh, TimeOut
<1>7. UNCHANGED vars => UNCHANGED factVars
  BY DEF vars
<1>8. QED
  BY <1>1, <1>2, <1>3, <1>4, <1>5, <1>6, <1>7 DEF Next

LEMMA FactsInvariant == Spec => []FactInv
<1>1. Init => FactInv
  BY FactsStart
<1>2. FactInv /\ [Next]_vars => FactInv'
  BY FactsStep
<1>3. QED
  BY <1>1, <1>2, PTL DEF Spec

\* Whatever is redelivered, retried or replayed, a customer has each text in one fact, unless
\* two runs held it uncommitted at once; and of a recording marked as processed, each line
\* that is neither too short nor too long is whole in a fact of one invitee: for any
\* transcripts, invitations, customers and runs.
THEOREM RecordingsLearntOnce == Spec => []LearntOnce
<1>1. ASSUME FactInv
      PROVE  LearntOnce
  <2>1. DOMAIN facts = 1..Len(facts)
    BY <1>1 DEF FactInv, FactsTyped
  <2>2. ASSUME NEW r \in Recordings, inbox[r].processed, ~ inbox[r].error
        PROVE  \E n \in DOMAIN Invitees[r] : \A line \in MinChunk..MaxChunk :
                   Contains(Transcript[r], line) =>
                       \E f \in DOMAIN facts : /\ facts[f].customer = Invitees[r][n]
                                               /\ Contains(facts[f].text, line)
    <3>1. PICK n \in DOMAIN Invitees[r] :
              \A j \in 1..Len(ChunksOf[r]) : Has(Invitees[r][n], ChunksOf[r][j])
      BY <1>1, <2>2 DEF FactInv, LearntFrom
    <3>2. ASSUME NEW line \in MinChunk..MaxChunk, Contains(Transcript[r], line)
          PROVE  \E f \in DOMAIN facts : /\ facts[f].customer = Invitees[r][n]
                                         /\ Contains(facts[f].text, line)
      <4>1. PICK j \in 1..Len(ChunksOf[r]) : Contains(ChunksOf[r][j], line)
        BY <3>2, ChunksOfRecording
      <4>2. PICK f \in 1..Len(facts) : /\ facts[f].customer = Invitees[r][n]
                                       /\ facts[f].text = ChunksOf[r][j]
        BY <3>1 DEF Has
      <4>3. QED
        BY <2>1, <4>1, <4>2
    <3>3. QED
      BY <3>2
  <2>3. \A f, g \in DOMAIN facts :
            /\ facts[f].customer = facts[g].customer /\ facts[f].text = facts[g].text
            /\ <<facts[f].customer, facts[f].text>> \notin met
            => f = g
    BY <1>1, <2>1 DEF FactInv, FactsOnce
  <2>4. QED
    BY <2>2, <2>3 DEF LearntOnce
<1>2. FactInv => LearntOnce
  BY <1>1
<1>3. QED
  BY <1>2, FactsInvariant, PTL

\* Rows, requests and runs have their types: an Aircall connection keeps no refresh token and
\* a GoHighLevel connection always has one, a retry is one of those the queue allows, and a
\* fact is about a customer and as long as a chunk may be.
THEOREM TypesHold == Spec => []TypeOK
<1>1. ASSUME TokenInv, KindsApart, FactInv
      PROVE  TypeOK
  <2>1. /\ honoured \in Seq(Nat) /\ conns \in Seq(Conn) /\ Len(honoured) \in Nat
        /\ DOMAIN conns = 1..Len(conns) /\ Len(conns) \in Nat /\ refreshes \in Seq(Job)
        /\ DOMAIN refreshes = 1..Len(refreshes) /\ DOMAIN facts = 1..Len(facts)
    BY <1>1 DEF TokenInv, TokensTyped, FactInv, FactsTyped
  <2>2. conns \in Seq([tool : Providers, account : Accounts \cup {NoAccount},
                       grant : 1..Len(honoured), gen : Nat, fresh : BOOLEAN])
    <3>1. PICK T : T = [tool : Providers, account : Accounts \cup {NoAccount},
                        grant : 1..Len(honoured), gen : Nat, fresh : BOOLEAN]
      OBVIOUS
    <3>2. \A c \in 1..Len(conns) : conns[c] \in Conn /\ conns[c].grant \in 1..Len(honoured)
      BY <1>1, <2>1 DEF TokenInv, TokensTyped
    <3>3. \A c \in 1..Len(conns) : conns[c] \in T
      BY <3>1, <3>2 DEF Conn
    <3>4. conns \in Seq(T)
      BY <2>1, <3>3
    <3>5. QED
      BY <3>1, <3>4
  <2>3. refreshes \in Seq([conn : DOMAIN conns, tries : 0..MaxRetries])
    <3>1. PICK T : T = [conn : DOMAIN conns, tries : 0..MaxRetries]
      OBVIOUS
    <3>2. \A n \in 1..Len(refreshes) : /\ refreshes[n] \in Job /\ refreshes[n].conn \in 1..Len(conns)
                                       /\ refreshes[n].tries <= MaxRetries
      BY <1>1, <2>1 DEF TokenInv, TokensTyped, KindsApart
    <3>3. \A n \in 1..Len(refreshes) : refreshes[n] \in T
      BY <2>1, <3>1, <3>2, BoundsTyped DEF Job
    <3>4. refreshes \in Seq(T)
      BY <2>1, <3>3
    <3>5. QED
      BY <3>1, <3>4
  <2>4. \A c \in DOMAIN conns : /\ conns[c].gen = 0 <=> conns[c].tool = "aircall"
                                /\ conns[c].account = NoAccount => conns[c].tool = "gohighlevel"
    BY <1>1, <2>1 DEF KindsApart
  <2>5. ASSUME NEW u \in Users
        PROVE  connect[u].row \in 0..Len(conns) /\ connect[u].grant \in 0..Len(honoured)
    <3>1. CASE connect[u].at = "idle"
      <4>1. connect[u] = NoRequest
        BY <1>1, <3>1 DEF KindsApart, RequestKind
      <4>2. QED
        BY <2>1, <4>1 DEF NoRequest
    <3>2. CASE connect[u].at # "idle"
      BY <1>1, <2>1, <3>2 DEF TokenInv, TokensTyped
    <3>3. QED
      BY <3>1, <3>2
  <2>6. ASSUME NEW w \in Refreshers
        PROVE  run[w].conn \in 0..Len(conns) /\ run[w].grant \in 0..Len(honoured)
    <3>1. CASE run[w].at = "idle"
      <4>1. run[w] = NoRun
        BY <1>1, <3>1 DEF KindsApart, RunKind
      <4>2. QED
        BY <2>1, <4>1 DEF NoRun
    <3>2. CASE run[w].at = "begun"
      <4>1. run[w].conn \in 1..Len(conns) /\ run[w].grant = 0
        BY <1>1, <3>2 DEF TokenInv, TokensTyped, KindsApart, RunKind
      <4>2. QED
        BY <2>1, <4>1
    <3>3. CASE Holds(w)
      <4>1. run[w].conn \in 1..Len(conns) /\ run[w].grant \in 1..Len(honoured)
        BY <1>1, <3>3 DEF TokenInv, TokensTyped, Holds, Under
      <4>2. QED
        BY <2>1, <4>1
    <3>4. run[w] \in Run
      BY <1>1 DEF TokenInv, TokensTyped
    <3>5. QED
      BY <3>1, <3>2, <3>3, <3>4 DEF Run, Holds, Under
  <2>7. \A w \in Learners : learner[w].new \subseteq ToSet(ChunksOf[learner[w].rec])
    BY <1>1 DEF FactInv, Placed
  <2>8. \A f \in DOMAIN facts : /\ facts[f].customer \in customers
                                /\ Length(facts[f].text) \in MinChunk..MaxChunk
    BY <1>1, <2>1 DEF FactInv, FactsTyped
  <2>9. QED
    BY <2>1, <2>2, <2>3, <2>4, <2>5, <2>6, <2>7, <2>8 DEF TypeOK
<1>2. TokenInv /\ KindsApart /\ FactInv => TypeOK
  BY <1>1
<1>3. QED
  BY <1>2, Invariance, KindsInvariant, FactsInvariant, PTL

===============================================================================
