----------------------------- MODULE CostLedger -----------------------------
(***************************************************************************)
(* Which role a token was spent by: get_costs and the scan of the session  *)
(* logs that the CLI agents leave behind (crates/usta-daemon/src/costs.rs, *)
(* crates/usta-daemon/src/main.rs get_costs, create_terminal).             *)
(*                                                                         *)
(* Nothing ties a session to the terminal it runs in: the ledger is put    *)
(* together from the directories the sessions ran in and from the times    *)
(* in the terminals table.  The agents are modelled from what their logs   *)
(* hold; the scan is an operator of the state, so it is checked wherever   *)
(* in a history somebody asks. A history is that of one workspace row,     *)
(* until it is closed or the database is made anew; logs are readable, and *)
(* nobody but the role terminals starts sessions here.                     *)
(*                                                                         *)
(*   now      the clock                                                    *)
(*   launch   the role terminals: when the child was spawned, or NoTime    *)
(*   rows     the table terminals, in order of insertion                   *)
(*   session  the log of the session a launch has begun: when it starts,   *)
(*            when it was last written, and the tokens of each line        *)
(*   writes   the launch whose log a launch writes to: its own, or with    *)
(*            --continue the latest of its directory; before that, Nowhere *)
(*            or Latest                                                    *)
(***************************************************************************)
EXTENDS Integers, Sequences, FiniteSets, SequencesExt

CONSTANTS
  Role, Launch,
  PlanOf,      \* of a launch: its role, its vendor, does it get a worktree?
  Escape,      \* of a directory (a role's worktree, or Here): escape_cwd
  Earlier,     \* launches that are over when the history begins, some with no session
  Worktree,    \* roles that have a worktree by now
  PlainPath,   \* has the workspace's path only letters, digits, - and /?
  Cap,         \* codex logs a scan opens at most
  Elsewhere,   \* codex logs of other workspaces, at most
  Slack,       \* how long before its row, or after its end, a session may begin
  MaxLag,      \* how long a child takes to get its row, and to begin its session
  MaxTime, MaxLines,  \* bounds: of the clock, of each log
  Here, Nobody, NoTime, Nowhere, Latest

Vendor == {"claude", "codex"}
Dir == Role \cup {Here}
Time == 0..MaxTime
Past == 0 - (2 * MaxLag + 1)

ASSUME CostAssumption ==
  /\ PlanOf \in [Launch -> [role: Role, vendor: Vendor, dir: Dir]]
  /\ Worktree \subseteq Role /\ Earlier \subseteq Launch
  /\ IsFiniteSet(Launch) /\ IsFiniteSet(Role)
  /\ \A l \in Launch : PlanOf[l].dir \in {Here} \cup ({PlanOf[l].role} \cap Worktree)
  /\ MaxLines \in [Launch -> Nat]
  /\ DOMAIN Escape = Dir
  /\ Slack \in Nat /\ MaxLag \in Nat /\ MaxTime \in Nat
  /\ Here \notin Role /\ Nobody \notin Role
  /\ NoTime \notin Int /\ {Nowhere, Latest} \cap Launch = {} /\ Nowhere # Latest
  /\ PlainPath \in BOOLEAN /\ Cap \in Nat /\ Elsewhere \in Nat

VARIABLES now, launch, rows, session, writes

costVars == <<now, launch, rows, session, writes>>

NoSession == [start |-> NoTime, mtime |-> NoTime, lines |-> <<>>]
RowOf(l) == {i \in DOMAIN rows : rows[i].launch = l}

CostInit ==
  /\ now = 0
  /\ launch = [l \in Launch |-> IF l \in Earlier THEN Past ELSE NoTime]
  /\ rows = [i \in 1..Cardinality(Earlier) |->
               [launch |-> SetToSeq(Earlier)[i], created |-> Past, closed |-> Past]]
  /\ \E begun \in SUBSET Earlier :
       /\ session = [l \in Launch |->
            IF l \in begun THEN [start |-> Past, mtime |-> Past, lines |-> <<1>>] ELSE NoSession]
       /\ writes = [l \in Launch |-> IF l \in begun THEN l ELSE Nowhere]

-----------------------------------------------------------------------------
(* the terminals, and what runs in them *)

Closed(l) == \E i \in RowOf(l) : rows[i].closed # NoTime

\* The logs in the directory claude keeps for the sessions of a directory.
ProjectLogs(dir) ==
  {k \in Launch : /\ PlanOf[k].vendor = "claude" /\ session[k] # NoSession
                  /\ Escape[PlanOf[k].dir] = Escape[dir]}

\* claude gets --continue if the role had a terminal here, and there is a log for
\* the workspace's own directory - wherever the child will run. Only slashes are
\* replaced in its path, so that the logs of a path with other signs are not found.
Continues(l) ==
  /\ PlanOf[l].vendor = "claude"
  /\ \E i \in DOMAIN rows : PlanOf[rows[i].launch].role = PlanOf[l].role
  /\ PlainPath /\ ProjectLogs(Here) # {}

\* create_terminal: the worktree is made, the command put together and the child
\* spawned ...
CreateTerminal(l) ==
  /\ launch[l] = NoTime
  /\ launch' = [launch EXCEPT ![l] = now]
  /\ writes' = [writes EXCEPT ![l] = IF Continues(l) THEN Latest ELSE Nowhere]
  /\ UNCHANGED <<now, rows, session>>

\* ... and then its row is written.
InsertRow(l) ==
  /\ launch[l] # NoTime /\ RowOf(l) = {}
  /\ rows' = Append(rows, [launch |-> l, created |-> now, closed |-> NoTime])
  /\ UNCHANGED <<now, launch, session, writes>>

\* The child exits or close_terminal ends it.
CloseTerminal(l) ==
  /\ ~Closed(l)
  /\ \E i \in RowOf(l) : rows' = [rows EXCEPT ![i].closed = now]
  /\ UNCHANGED <<now, launch, session, writes>>

BeginSession(l) ==
  /\ launch[l] # NoTime /\ ~Closed(l) /\ writes[l] = Nowhere
  /\ session' = [session EXCEPT ![l] = [start |-> now, mtime |-> now, lines |-> <<>>]]
  /\ writes' = [writes EXCEPT ![l] = l]
  /\ UNCHANGED <<now, launch, rows>>

\* claude --continue goes on with the log of its directory that was written last,
\* whoever wrote it. Where there is none it dies: nothing follows.
ResumeSession(l) ==
  /\ ~Closed(l) /\ writes[l] = Latest /\ now <= launch[l] + MaxLag
  /\ \E k \in ProjectLogs(PlanOf[l].dir) :
       /\ \A other \in ProjectLogs(PlanOf[l].dir) : session[other].mtime <= session[k].mtime
       /\ writes' = [writes EXCEPT ![l] = k]
  /\ UNCHANGED <<now, launch, rows, session>>

\* One more answer, of one token: a line of claude's log holds what it cost, a
\* line of codex's log what the session has cost so far. A line that is being
\* written does not parse and is as good as absent.
LogLine(l) ==
  /\ writes[l] \in Launch /\ ~Closed(l)
  /\ LET k == writes[l]
         n == IF PlanOf[k].vendor = "claude" THEN 1 ELSE Len(session[k].lines) + 1
     IN  /\ Len(session[k].lines) < MaxLines[k]
         /\ session' = [session EXCEPT ![k].mtime = now, ![k].lines = Append(@, n)]
  /\ UNCHANGED <<now, launch, rows, writes>>

Overdue(l) ==
  /\ launch[l] # NoTime /\ launch[l] + MaxLag = now
  /\ \/ RowOf(l) = {}
     \/ ~Closed(l) /\ writes[l] = Nowhere
     \/ ~Closed(l) /\ writes[l] = Latest /\ ProjectLogs(PlanOf[l].dir) # {}

Tick ==
  /\ now < MaxTime /\ \A l \in Launch : ~Overdue(l)
  /\ now' = now + 1
  /\ UNCHANGED <<launch, rows, session, writes>>

-----------------------------------------------------------------------------
(* the ledger *)

Tokens(l) == LET s == session[l].lines IN IF s = <<>> THEN 0 ELSE
  IF PlanOf[l].vendor = "claude" THEN SumFunction(s) ELSE s[Len(s)]

\* The sessions of a vendor that cost anything (scan_claude_session and
\* scan_codex_session return None for the others).
Spent(vendor) == {l \in Launch : PlanOf[l].vendor = vendor /\ Tokens(l) > 0}

Apart(a, b) == IF a < b THEN b - a ELSE a - b

\* Mutant of Window: only terminals that are still open are asked.
WindowOfOpen(row, t) == row.closed = NoTime /\ t >= row.created - Slack

\* Was the terminal open at time t, or nearly so?
Window(row, t) ==
  /\ t >= row.created - Slack
  /\ row.closed = NoTime \/ t <= row.closed + Slack

\* Mutant of Nearer: the last terminal launched is preferred.
NearerLatest(terms, i, j, t) == terms[i].created >= terms[j].created

\* min_by_key over the rows, latest first: the first of those at the least distance.
Nearer(terms, i, j, t) ==
  LET di == Apart(t, terms[i].created)
      dj == Apart(t, terms[j].created)
  IN \/ di < dj
     \/ di = dj /\ terms[i].created > terms[j].created
     \/ di = dj /\ terms[i].created = terms[j].created /\ i <= j

\* attribute: the role of the nearest launch whose window contains t.
Attribute(terms, t) ==
  LET inside == {i \in DOMAIN terms : Window(terms[i], t)}
  IN IF inside = {} THEN Nobody
     ELSE PlanOf[terms[CHOOSE i \in inside : \A j \in inside : Nearer(terms, i, j, t)].launch].role

\* What stands for the start of a session: of claude's its first timestamp, of
\* codex's the time its file was last written.
StartOf(l) == IF PlanOf[l].vendor = "claude" THEN session[l].start ELSE session[l].mtime

\* A session with the role it is put down to: by directory, or else by time.
Entry(l, dir, terms) ==
  [vendor |-> PlanOf[l].vendor, tokens |-> Tokens(l),
   role |-> IF dir # Here THEN dir ELSE Attribute(terms, StartOf(l))]

\* claude: every log in the project directory of the workspace, and in those of
\* its worktrees (read_dir of .usta/worktrees).
ClaudeEntries(terms) ==
  LET found == {x \in (Worktree \cup {Here}) \X Spent("claude") :
                  Escape[x[1]] = Escape[PlanOf[x[2]].dir]}
  IN [i \in 1..Cardinality(found) |->
        LET x == SetToSeq(found)[i] IN Entry(x[2], x[1], terms)]

\* The logs of codex here, and which of them a scan gets to: it takes those of
\* all workspaces as they come, e of other ones among them, and stops at the cap.
CodexLogs == {l \in Launch : PlanOf[l].vendor = "codex" /\ session[l] # NoSession}
Visits(e) ==
  LET all == Cardinality(CodexLogs) + e
      opened == IF all <= Cap THEN all ELSE Cap
  IN {S \in SUBSET CodexLogs : Cardinality(S) \in (opened - e)..opened}

\* codex: one tree of logs for everybody, matched by working directory.
CodexEntries(terms, S) ==
  LET found == SetToSeq(Spent("codex") \cap S)
  IN [i \in DOMAIN found |-> Entry(found[i], PlanOf[found[i]].dir, terms)]

NoUsage == [vendor |-> "none", tokens |-> 0, sessions |-> 0]

\* Mutant of Add: a role with several sessions shows the last.
AddOverwrites(ledger, e) ==
  [ledger EXCEPT ![e.role] = [vendor |-> e.vendor, tokens |-> e.tokens, sessions |-> 1]]

\* add
Add(ledger, e) ==
  [ledger EXCEPT ![e.role] =
    [vendor |-> IF @.sessions > 0 /\ @.vendor # e.vendor THEN "mixed" ELSE e.vendor,
     tokens |-> @.tokens + e.tokens,
     sessions |-> @.sessions + 1]]

\* compute
Ledger(terms, S) ==
  FoldLeft(Add, [r \in Role \cup {Nobody} |-> NoUsage], ClaudeEntries(terms) \o CodexEntries(terms, S))

\* The terminals get_costs reads some time before it scans the logs.
AsOf(t) ==
  [i \in {j \in DOMAIN rows : rows[j].created <= t} |->
     IF rows[i].closed # NoTime /\ rows[i].closed > t
       THEN [rows[i] EXCEPT !.closed = NoTime] ELSE rows[i]]

CostNext ==
  \/ \E l \in Launch : \/ CreateTerminal(l) \/ InsertRow(l) \/ CloseTerminal(l)
                       \/ BeginSession(l) \/ ResumeSession(l) \/ LogLine(l)
  \/ Tick

CostSpec == CostInit /\ [][CostNext]_costVars

-----------------------------------------------------------------------------
\* How often a session is counted: once, unless it is claude's and the paths of
\* several worktrees escape alike (escape_cwd keeps neither _ nor anything else
\* but letters, digits and -).
Times(l) ==
  IF PlanOf[l].vendor = "codex" THEN 1
  ELSE Cardinality({d \in Worktree \cup {Here} : Escape[d] = Escape[PlanOf[l].dir]})

\* The ledger adds up to what the logs say that the scan has opened, however the
\* roles, the vendors and the directories are mixed, and nothing is counted twice:
\* all of claude's logs, and all of codex's too unless there are, with those of
\* other workspaces, more than the cap (costs.rs compute, add).
TokensConserved ==
  \A e \in 0..Elsewhere : \A S \in Visits(e) :
    LET ledger == Ledger(rows, S)
        counted == Spent("claude") \cup (Spent("codex") \cap S)
    IN  /\ SumFunction([r \in DOMAIN ledger |-> ledger[r].tokens])
             = SumFunction([l \in counted |-> Tokens(l) * Times(l)])
        /\ SumFunction([r \in DOMAIN ledger |-> ledger[r].sessions])
             = SumFunction([l \in counted |-> Times(l)])
        /\ Cardinality(CodexLogs) + e <= Cap => Spent("codex") \subseteq S

\* No other role was launched in the shared directory at nearly the same time.
Spaced(l) ==
  \A k \in Launch \ {l} :
    (PlanOf[k].role # PlanOf[l].role /\ launch[k] # NoTime) => Apart(launch[k], launch[l]) > 2 * MaxLag

\* What a launch spends in the workspace's own directory is put down to its role,
\* if a terminal of this role began the session it writes to - itself, or the one
\* it goes on from -, whose row was in the table when get_costs read it, and
\* terminals of other roles were launched at some distance - whatever else the
\* table lacked or has learnt since (costs.rs attribute). Codex's sessions only if
\* they ended soon: the time of the last write stands for their start.
SpacedSessionsRight ==
  \A k \in Launch, l \in Spent("claude") \cup Spent("codex"), t \in 0..now :
    ( /\ writes[k] = l /\ PlanOf[l].role = PlanOf[k].role
      /\ PlanOf[l].dir = Here /\ Spaced(l)
      /\ StartOf(l) <= launch[l] + MaxLag
      /\ \E i \in RowOf(l) : rows[i].created <= t ) =>
    Attribute(AsOf(t), StartOf(l)) = PlanOf[k].role

\* The past stays as it was reported: once a session's start is longer ago than
\* the slack, no launch and no end of a terminal moves its cost to another role.
PastStays ==
  [][ \A l \in Launch :
        (session[l] # NoSession /\ StartOf(l)' = StartOf(l) /\ StartOf(l) + Slack < now) =>
          Attribute(rows', StartOf(l)) = Attribute(rows, StartOf(l)) ]_costVars
=============================================================================
