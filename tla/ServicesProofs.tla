--------------------------- MODULE ServicesProofs ---------------------------
(***************************************************************************)
(* Proofs about the services round the task queue, for all values of the    *)
(* constants of MCServices.                                                 *)
(***************************************************************************)
EXTENDS AuditedCallsProofs, RealtimeProofs

-----------------------------------------------------------------------------
(* Ingestion                                                                *)

\* An extraction that got past its file has the row of it.  What is committed of
\* one is what it had added, when it was cancelled or had added everything; while
\* it is under way nothing is.
Extracted ==
    \A e \in Extractions :
        /\ stage[e] \in {"parsing", "embedding"} => file_id[e] \in files
        /\ added[e] <= length[e] /\ (stage[e] \in {"new", "parsing"} => added[e] = 0)
        /\ \/ \A i \in 0..MaxChunks - 1 : <<e, i>> \notin chunks
           \/ /\ file_id[e] \in files
              /\ \A i \in 0..MaxChunks - 1 : <<e, i>> \in chunks <=> i < added[e]
              /\ stage[e] = "cancelled" \/ (stage[e] \in {"done", "failed"} /\ added[e] = length[e])

IngestionInv == ING!TypeOK /\ Extracted

LEMMA IngestionStarts == MaxChunks \in Nat /\ ING!Init => IngestionInv
BY DEF ING!Init, IngestionInv, ING!TypeOK, Extracted

LEMMA IngestionKept ==
  ASSUME MaxChunks \in Nat, IngestionInv, [ING!Next]_ingestion
  PROVE  IngestionInv'
<1> USE DEF IngestionInv, ING!TypeOK, Extracted
<1>1. CASE UNCHANGED ingestion
  BY <1>1 DEF ingestion
<1>2. ASSUME NEW u \in Uploads, ING!Truncate(u) \/ ING!Copy(u) \/ ING!CommitFile(u) \/ ING!LoseUpload(u)
      PROVE  IngestionInv'
  BY <1>2 DEF ING!Truncate, ING!Copy, ING!CommitFile, ING!LoseUpload
<1>3. ASSUME NEW e \in Extractions, NEW u \in Uploads, ING!StartExtract(e, u)
      PROVE  IngestionInv'
  BY <1>3 DEF ING!StartExtract, ING!Goto, ING!uploading
<1>4. ASSUME NEW e \in Extractions, ING!ParseFails(e) \/ ING!Parse(e)
      PROVE  IngestionInv'
  BY <1>4 DEF ING!ParseFails, ING!Parse, ING!Goto, ING!GetOcrEngine, ING!uploading
<1>5. ASSUME NEW e \in Extractions, ING!Embed(e) \/ ING!EmbedFails(e) \/ ING!RecordFails(e)
      PROVE  IngestionInv'
  BY <1>5 DEF ING!Embed, ING!EmbedFails, ING!RecordFails, ING!Goto, ING!uploading
\* What has been added is committed, and nothing of the call was committed before.
<1>6. ASSUME NEW e \in Extractions, ING!CommitChunks(e) \/ ING!CommitBreaks(e) \/ ING!Interrupt(e)
      PROVE  IngestionInv'
  <2>1. /\ stage[e] = "embedding" /\ file_id[e] \in files
        /\ chunks' = chunks \/ chunks' = chunks \cup ING!Added(e)
        /\ UNCHANGED <<disk, upload, files, ocr, file_id, mime, length, added>>
    BY <1>6 DEF ING!CommitChunks, ING!CommitBreaks, ING!Interrupt, ING!uploading
  <2>2. /\ stage' \in [Extractions -> {"new", "parsing", "embedding", "recording", "done", "failed", "cancelled"}]
        /\ \A x \in Extractions : x # e => stage'[x] = stage[x]
        /\ stage'[e] = "cancelled" \/ (stage'[e] \in {"done", "failed"} /\ added[e] = length[e])
    BY <1>6 DEF ING!CommitChunks, ING!CommitBreaks, ING!Interrupt, ING!Goto
  <2>3. \A i \in 0..MaxChunks - 1 : <<e, i>> \notin chunks
    BY <2>1
  <2>4. chunks' \subseteq Extractions \X (0..MaxChunks - 1)
    BY <2>1 DEF ING!Added
  <2>5. ASSUME NEW x \in Extractions, NEW i \in 0..MaxChunks - 1
        PROVE  /\ x # e => (<<x, i>> \in chunks' <=> <<x, i>> \in chunks)
               /\ chunks' = chunks \/ (<<e, i>> \in chunks' <=> i < added[e])
    BY <2>1, <2>3 DEF ING!Added
  <2>6. ING!TypeOK'
    BY <2>1, <2>2, <2>4
  <2>7. Extracted'
    BY <2>1, <2>2, <2>3, <2>5
  <2> QED BY <2>6, <2>7
<1>7. CASE ING!RestartWorker
  BY <1>7 DEF ING!RestartWorker, ING!uploading
<1> QED
  BY <1>1, <1>2, <1>3, <1>4, <1>5, <1>6, <1>7 DEF ING!Next

LEMMA IngestionWhole == IngestionInv => ING!WholeExtractions
<1> SUFFICES ASSUME IngestionInv, NEW e \in Extractions,
                    {i \in 0..MaxChunks - 1 : <<e, i>> \in chunks} # {}
             PROVE  LET mine == {i \in 0..MaxChunks - 1 : <<e, i>> \in chunks} IN
                    /\ file_id[e] \in files
                    /\ \/ stage[e] \in {"done", "failed"} /\ mine = 0..length[e] - 1
                       \/ stage[e] = "cancelled" /\ mine = 0..added[e] - 1
  BY DEF ING!WholeExtractions
<1>1. /\ file_id[e] \in files
      /\ \A i \in 0..MaxChunks - 1 : <<e, i>> \in chunks <=> i < added[e]
      /\ stage[e] = "cancelled" \/ (stage[e] \in {"done", "failed"} /\ added[e] = length[e])
  BY DEF IngestionInv, Extracted
<1>2. added[e] \in 0..MaxChunks /\ MaxChunks \in Nat
  BY ServicesAssumption DEF IngestionInv, ING!TypeOK
<1>3. {i \in 0..MaxChunks - 1 : <<e, i>> \in chunks} = 0..added[e] - 1
  BY <1>1, <1>2
<1> QED BY <1>1, <1>3

-----------------------------------------------------------------------------
(* Sandbox                                                                  *)

Gone == container = "absent" /\ create # "running"

\* What has been removed by when; only a call cancelled while it creates ends
\* with a docker create under way, which nobody starts.
Removed ==
    /\ pc \notin {"killed", "cleaning", "cleaned", "done"} => removals = 0
    /\ pc \in {"killed", "cleaning"} => removals <= 1
    /\ pc = "called" => create = "none"
    /\ pc = "creating" => start = "none"
    /\ pc \in {"feeding", "waiting", "killing", "killed"} => create = "done"
    /\ create # "done" => start = "none" /\ container = "absent"
    /\ start = "none" => container \in {"absent", "created"}
    /\ pc \in {"cleaning", "cleaned", "done"} /\ create = "running" => outcome = "cancelled"
    /\ pc = "cleaned" => removals > 0 \/ Gone \/ (outcome = "cancelled" /\ start = "none")

SandboxInv == SB!TypeOK /\ Removed /\ SB!RemovalFollows

LEMMA SandboxStarts == ServicesAssumption /\ SB!Init => SandboxInv
<1> SUFFICES ASSUME ServicesAssumption, SB!Init PROVE SandboxInv
  OBVIOUS
<1>1. SB!TypeOK
  <2>1. cancels \in 0..MaxCancels /\ removals \in 0..2
    BY DEF ServicesAssumption, SB!Init
  <2>2. cut \in BOOLEAN
    BY DEF SB!Init
  <2> QED BY <2>1, <2>2 DEF SB!Init, SB!TypeOK
<1>2. Removed /\ SB!RemovalFollows
  BY DEF SB!Init, Removed, SB!RemovalFollows
<1> QED
  BY <1>1, <1>2 DEF SandboxInv

LEMMA SandboxTypesKept ==
  ASSUME ServicesAssumption, SB!TypeOK, Removed, SB!Next
  PROVE  SB!TypeOK' /\ Removed'
<1> USE DEF SB!TypeOK, Removed, Gone
<1>0. MaxCancels \in Nat
  BY DEF ServicesAssumption
<1>2. CASE SB!Refuse \/ SB!Create \/ SB!CreateFailed \/ SB!Start
  BY <1>2 DEF SB!Refuse, SB!Create, SB!CreateFailed, SB!Start, SB!Goto, SB!daemonVars
<1>3. CASE SB!Feed \/ SB!Finished \/ SB!TimeOut
  BY <1>3 DEF SB!Feed, SB!Finished, SB!TimeOut, SB!Goto, SB!daemonVars
<1>4. CASE SB!Kill \/ SB!Clean
  BY <1>4 DEF SB!Kill, SB!Clean, SB!Remove, SB!Goto
<1>5. CASE SB!Killed \/ SB!Return
  BY <1>5 DEF SB!Killed, SB!Return, SB!Goto, SB!daemonVars
<1>6. CASE SB!Cancel
  <2>1. cancels' \in 0..MaxCancels
    BY <1>0, <1>6 DEF SB!Cancel
  <2>2. cut' \in BOOLEAN
    BY <1>6 DEF SB!Cancel
  <2> QED BY <1>6, <2>1, <2>2 DEF SB!Cancel, SB!Goto, SB!daemonVars
<1>7. CASE SB!DaemonCreates
  BY <1>7 DEF SB!DaemonCreates, SB!callVars
<1>8. CASE SB!DaemonStarts \/ SB!Exits
  BY <1>8 DEF SB!DaemonStarts, SB!Exits, SB!callVars
<1>9. CASE SB!DaemonRemoves
  BY <1>9 DEF SB!DaemonRemoves, SB!callVars
<1> QED
  BY <1>2, <1>3, <1>4, <1>5, <1>6, <1>7, <1>8, <1>9 DEF SB!Next, SB!Call, SB!Daemon

LEMMA RemovalStillFollows ==
  ASSUME SB!TypeOK, Removed, SB!RemovalFollows, SB!Next
  PROVE  SB!RemovalFollows'
<1> USE DEF SB!RemovalFollows
<1>1. CASE pc = "done"
  <2>1. ASSUME UNCHANGED <<pc, outcome, cut>> PROVE SB!RemovalFollows'
    <3>1. CASE SB!DaemonCreates
      BY <1>1, <2>1, <3>1 DEF SB!DaemonCreates, Removed
    <3>2. CASE SB!DaemonStarts \/ SB!Exits
      BY <1>1, <2>1, <3>2 DEF SB!DaemonStarts, SB!Exits, Removed
    <3>3. CASE SB!DaemonRemoves
      BY <1>1, <2>1, <3>3 DEF SB!DaemonRemoves, Removed, SB!TypeOK
    <3>4. SB!Daemon
      BY <1>1, <2>1 DEF SB!Next, SB!Call, SB!Cancel, SB!Goto, SB!Refuse, SB!Create, SB!CreateFailed, SB!Start, SB!Feed,
                        SB!Finished, SB!TimeOut, SB!Kill, SB!Killed, SB!Clean, SB!Return, SB!Remove
    <3> QED BY <3>1, <3>2, <3>3, <3>4 DEF SB!Daemon
  <2>2. UNCHANGED <<pc, outcome, cut>>
    BY <1>1 DEF SB!Next, SB!Call, SB!Cancel, SB!Goto, SB!Refuse, SB!Create, SB!CreateFailed, SB!Start, SB!Feed,
                SB!Finished, SB!TimeOut, SB!Kill, SB!Killed, SB!Clean, SB!Return, SB!Remove,
                SB!Daemon, SB!DaemonCreates, SB!DaemonStarts, SB!Exits, SB!DaemonRemoves, SB!callVars
  <2> QED BY <2>1, <2>2
<1>2. CASE pc # "done" /\ pc' = "done"
  <2>1. \/ SB!Refuse
        \/ SB!Return
        \/ SB!Cancel /\ pc = "cleaning"
        \/ SB!Cancel /\ pc = "cleaned"
    BY <1>2 DEF SB!Next, SB!Call, SB!Cancel, SB!Goto, SB!Create, SB!CreateFailed, SB!Start, SB!Feed,
                SB!Finished, SB!TimeOut, SB!Kill, SB!Killed, SB!Clean, SB!Remove,
                SB!Daemon, SB!DaemonCreates, SB!DaemonStarts, SB!Exits, SB!DaemonRemoves, SB!callVars
  <2>2. CASE SB!Refuse
    BY <2>2 DEF SB!Refuse, SB!Goto, SB!daemonVars, Removed
  <2>3. CASE SB!Return
    BY <2>3 DEF SB!Return, SB!Goto, SB!daemonVars, Removed, Gone
  <2>4. CASE SB!Cancel /\ pc = "cleaning"
    BY <2>4 DEF SB!Cancel, SB!Goto
  <2>5. CASE SB!Cancel /\ pc = "cleaned"
    BY <2>5 DEF SB!Cancel, SB!Goto, SB!daemonVars, Removed, Gone
  <2> QED BY <2>1, <2>2, <2>3, <2>4, <2>5
<1> QED
  BY <1>1, <1>2

LEMMA SandboxKept ==
  ASSUME ServicesAssumption, SandboxInv, [SB!Next]_sandbox
  PROVE  SandboxInv'
<1>1. CASE UNCHANGED sandbox
  BY <1>1 DEF sandbox, SandboxInv, SB!TypeOK, Removed, Gone, SB!RemovalFollows
<1>2. CASE SB!Next
  BY <1>2, SandboxTypesKept, RemovalStillFollows DEF SandboxInv
<1> QED
  BY <1>1, <1>2

-----------------------------------------------------------------------------
(* SchemaMigration                                                          *)

\* One migration of a path, as Run applies it to what the ones before it left.
Step(m, before) ==
    LET after == SM!Apply(m, before.schema) IN
    IF before.ok /\ SM!Applicable(m, before.schema) /\ SM!FitsRows(m, before.rows)
    THEN [ok |-> TRUE, schema |-> after, rows |-> (before.rows \ m.drops) \cap DOMAIN after]
    ELSE [before EXCEPT !.ok = FALSE]

\* The states a path leads through, as the definition of Run chooses them.
States(path, s, held) ==
    CHOOSE state : state = [i \in 0..Len(path) |->
        IF i = 0 THEN [ok |-> TRUE, schema |-> s, rows |-> held] ELSE Step(path[i], state[i - 1])]

LEMMA RunIsLast ==
  ASSUME NEW path, NEW s, NEW held
  PROVE  SM!Run(path, s, held) = States(path, s, held)[Len(path)]
BY DEF SM!Run, States, Step

Leads(state, path, s, held, n) ==
    /\ state[0] = [ok |-> TRUE, schema |-> s, rows |-> held]
    /\ \A i \in 1..n : state[i] = Step(path[i], state[i - 1])

LEMMA StatesExist ==
  ASSUME NEW path, NEW s, NEW held, NEW n \in Nat
  PROVE  \E state : state = [i \in 0..n |-> state[i]] /\ Leads(state, path, s, held, n)
<1> DEFINE P == {k \in Nat : \E state : state = [i \in 0..k |-> state[i]] /\ Leads(state, path, s, held, k)}
<1>1. 0 \in P
  <2>1. PICK state : state = [i \in 0..0 |-> [ok |-> TRUE, schema |-> s, rows |-> held]]
    OBVIOUS
  <2>2. state = [i \in 0..0 |-> state[i]] /\ Leads(state, path, s, held, 0)
    BY <2>1 DEF Leads
  <2> QED BY <2>2
<1>2. ASSUME NEW k \in Nat, k \in P PROVE k + 1 \in P
  <2>1. PICK state : Leads(state, path, s, held, k)
    BY <1>2
  <2>2. PICK next : next = Step(path[k + 1], state[k])
    OBVIOUS
  <2>3. PICK longer : longer = [i \in 0..(k + 1) |-> IF i = k + 1 THEN next ELSE state[i]]
    OBVIOUS
  <2>4. /\ longer = [i \in 0..(k + 1) |-> longer[i]]
        /\ longer[k + 1] = next /\ \A i \in 0..k : longer[i] = state[i]
    BY <2>3
  <2>5. ASSUME NEW i \in 1..(k + 1)
        PROVE  longer[i] = Step(path[i], longer[i - 1])
    <3>1. CASE i = k + 1
      <4>1. i - 1 = k /\ longer[k] = state[k]
        BY <2>4, <3>1
      <4> QED BY <2>2, <2>4, <3>1, <4>1
    <3>2. CASE i # k + 1
      <4>1. i \in 1..k /\ i \in 0..k /\ i - 1 \in 0..k
        BY <3>2
      <4>2. longer[i] = state[i] /\ longer[i - 1] = state[i - 1]
        BY <2>4, <4>1
      <4>3. state[i] = Step(path[i], state[i - 1])
        BY <2>1, <4>1 DEF Leads
      <4> QED BY <4>2, <4>3
    <3> QED BY <3>1, <3>2
  <2>6. longer[0] = [ok |-> TRUE, schema |-> s, rows |-> held]
    BY <2>1, <2>4 DEF Leads
  <2>7. Leads(longer, path, s, held, k + 1)
    BY <2>5, <2>6 DEF Leads
  <2> QED BY <2>4, <2>7
<1> HIDE DEF P
<1>3. Nat \subseteq P
  BY <1>1, <1>2, Induction
<1> QED
  BY <1>3 DEF P

LEMMA StatesLead ==
  ASSUME NEW path, Len(path) \in Nat, NEW s, NEW held
  PROVE  Leads(States(path, s, held), path, s, held, Len(path))
<1> DEFINE n == Len(path)
           Is(g) == g = [i \in 0..n |->
               IF i = 0 THEN [ok |-> TRUE, schema |-> s, rows |-> held] ELSE Step(path[i], g[i - 1])]
<1>1. PICK state : state = [i \in 0..n |-> state[i]] /\ Leads(state, path, s, held, n)
  BY StatesExist
<1>2. Is(state)
  <2>1. \A i \in 0..n : state[i] =
           IF i = 0 THEN [ok |-> TRUE, schema |-> s, rows |-> held] ELSE Step(path[i], state[i - 1])
    <3> SUFFICES ASSUME NEW i \in 0..n
        PROVE state[i] = IF i = 0 THEN [ok |-> TRUE, schema |-> s, rows |-> held] ELSE Step(path[i], state[i - 1])
      OBVIOUS
    <3>1. CASE i = 0
      BY <1>1, <3>1 DEF Leads
    <3>2. CASE i # 0
      <4>1. i \in 1..n
        BY <3>2
      <4> QED BY <1>1, <3>2, <4>1 DEF Leads
    <3> QED BY <3>1, <3>2
  <2> QED BY <1>1, <2>1
<1>3. States(path, s, held) = CHOOSE g : Is(g)
  BY DEF States
<1> HIDE DEF Is
<1>4. Is(States(path, s, held))
  BY <1>2, <1>3
<1>5. PICK chosen : chosen = States(path, s, held)
  OBVIOUS
<1>6. \A i \in 0..n : chosen[i] =
         IF i = 0 THEN [ok |-> TRUE, schema |-> s, rows |-> held] ELSE Step(path[i], chosen[i - 1])
  BY <1>4, <1>5 DEF Is
<1>7. chosen[0] = [ok |-> TRUE, schema |-> s, rows |-> held]
  <2>1. 0 \in 0..n
    OBVIOUS
  <2> QED BY <1>6, <2>1
<1>8. ASSUME NEW i \in 1..n
      PROVE  chosen[i] = Step(path[i], chosen[i - 1])
  <2>1. i \in 0..n /\ i # 0
    OBVIOUS
  <2> QED BY <1>6, <2>1
<1> QED
  BY <1>5, <1>7, <1>8 DEF Leads

\* A path never puts rows into a table, and leaves them only in tables there are.
LEMMA RunKeepsRows ==
  ASSUME NEW path, Len(path) \in Nat, NEW s, NEW held, held \subseteq DOMAIN s
  PROVE  SM!Run(path, s, held).rows \subseteq held \cap DOMAIN SM!Run(path, s, held).schema
<1>1. PICK state : state = States(path, s, held)
  OBVIOUS
<1>2. Leads(state, path, s, held, Len(path)) /\ SM!Run(path, s, held) = state[Len(path)]
  BY <1>1, StatesLead, RunIsLast
<1> DEFINE Good(i) == \E ok, tables, kept :
               /\ state[i] = [ok |-> ok, schema |-> tables, rows |-> kept]
               /\ kept \subseteq held \cap DOMAIN tables
           P == {i \in Nat : i <= Len(path) => Good(i)}
<1>3. 0 \in P
  BY <1>2 DEF Leads
<1>4. ASSUME NEW i \in Nat, i \in P PROVE i + 1 \in P
  <2> SUFFICES ASSUME i + 1 <= Len(path) PROVE Good(i + 1)
    <3> HIDE DEF Good
    <3> QED OBVIOUS
  <2>1. i <= Len(path) /\ i + 1 \in 1..Len(path) /\ (i + 1) - 1 = i
    OBVIOUS
  <2>2. PICK ok, tables, kept : /\ state[i] = [ok |-> ok, schema |-> tables, rows |-> kept]
                                /\ kept \subseteq held \cap DOMAIN tables
    BY <1>4, <2>1
  <2>3. PICK m : m = path[i + 1]
    OBVIOUS
  <2>31. PICK after : after = SM!Apply(m, tables)
    OBVIOUS
  <2>4. state[i + 1] = Step(m, [ok |-> ok, schema |-> tables, rows |-> kept])
    BY <1>2, <2>1, <2>2, <2>3 DEF Leads
  <2>5. \/ state[i + 1] = [ok |-> TRUE, schema |-> after, rows |-> (kept \ m.drops) \cap DOMAIN after]
        \/ state[i + 1] = [ok |-> FALSE, schema |-> tables, rows |-> kept]
    BY <2>31, <2>4 DEF Step
  <2> QED BY <2>2, <2>5
<1>5. Nat \subseteq P
  <2> HIDE DEF P
  <2> QED BY <1>3, <1>4, Induction
<1>6. Good(Len(path))
  <2>1. Len(path) \in P
    <3> HIDE DEF P
    <3> QED BY <1>5
  <2> HIDE DEF Good
  <2> QED BY <2>1
<1> QED
  BY <1>2, <1>6

LEMMA MigrationStarts == SM!Init => SM!TypeOK
BY DEF SM!Init, SM!TypeOK, SM!Upgrades

LEMMA MigrationKept ==
  ASSUME SM!TypeOK, [SM!Next]_migration
  PROVE  SM!TypeOK'
<1>1. CASE UNCHANGED migration
  BY <1>1 DEF migration, SM!TypeOK
<1>2. ASSUME NEW n \in 0..Len(SM!Upgrades), NEW path, Len(path) \in Nat,
             NEW name \in {"upgraded", "downgraded"}, SM!Succeeds(path, n, name)
      PROVE  SM!TypeOK'
  <2>1. PICK end : end = SM!Run(path, schema, rows)
    OBVIOUS
  <2>2. end.rows \subseteq rows \cap DOMAIN end.schema
    BY <1>2, <2>1, RunKeepsRows DEF SM!TypeOK
  <2>3. revision' = n /\ schema' = end.schema /\ rows' = end.rows /\ call' = name
    BY <1>2, <2>1 DEF SM!Succeeds
  <2> QED BY <1>2, <2>2, <2>3 DEF SM!TypeOK
<1>3. revision \in 0..8 /\ Len(SM!Upgrades) = 8
  BY DEF SM!TypeOK, SM!Upgrades
<1>4. ASSUME NEW n \in 0..Len(SM!Upgrades), SM!Upgrade(n)
      PROVE  SM!TypeOK'
  <2>1. Len(SM!UpPath(n)) \in Nat
    BY <1>3 DEF SM!UpPath
  <2> QED BY <1>2, <1>4, <2>1 DEF SM!Upgrade
<1>5. ASSUME NEW n \in 0..Len(SM!Upgrades), SM!Downgrade(n)
      PROVE  SM!TypeOK'
  <2>1. n < revision /\ revision - n \in Nat
    BY <1>3, <1>5 DEF SM!Downgrade
  <2>2. Len(SM!DownPath(n)) \in Nat
    BY <2>1 DEF SM!DownPath
  <2> QED BY <1>2, <1>5, <2>2 DEF SM!Downgrade
<1>6. ASSUME NEW n \in 0..Len(SM!Upgrades), SM!UpgradeRaises(n) \/ SM!DowngradeRaises(n)
      PROVE  SM!TypeOK'
  BY <1>6 DEF SM!UpgradeRaises, SM!DowngradeRaises, SM!TypeOK
<1>7. ASSUME NEW t \in Filled, SM!Insert(t) \/ SM!Clear(t)
      PROVE  SM!TypeOK'
  BY <1>7 DEF SM!Insert, SM!Clear, SM!TypeOK
<1> QED
  BY <1>1, <1>4, <1>5, <1>6, <1>7 DEF SM!Next

-----------------------------------------------------------------------------
(* The services together                                                    *)

\* A behaviour is one of a single service, which keeps that service's invariant.
ServicesInv ==
    /\ component \in {"realtime", "sandbox", "ingestion", "auditor", "schema"}
    /\ component = "realtime" => RealtimeInv
    /\ component = "sandbox" => SandboxInv
    /\ component = "ingestion" => IngestionInv
    /\ component = "auditor" => AuditorInv
    /\ component = "schema" => SM!TypeOK

LEMMA ServicesStart == Init => ServicesInv
<1> SUFFICES ASSUME Init PROVE ServicesInv
  OBVIOUS
<1>1. MaxChunks \in Nat
  BY ServicesAssumption DEF ServicesAssumption
<1>2. CASE component = "realtime" /\ RT!Init
  BY <1>2, ServicesAssumption, RealtimeStarts DEF ServicesInv
<1>3. CASE component = "sandbox" /\ SB!Init
  BY <1>3, ServicesAssumption, SandboxStarts DEF ServicesInv
<1>4. CASE component = "ingestion" /\ ING!Init
  BY <1>1, <1>4, IngestionStarts DEF ServicesInv
<1>5. CASE component = "auditor" /\ AC!Init
  BY <1>5, ServicesAssumption, AuditorStarts DEF ServicesInv
<1>6. CASE component = "schema" /\ SM!Init
  BY <1>6, MigrationStarts DEF ServicesInv
<1> QED
  BY <1>2, <1>3, <1>4, <1>5, <1>6 DEF Init

LEMMA ServicesKept == ServicesInv /\ [Next]_vars => ServicesInv'
<1> SUFFICES ASSUME ServicesInv, [Next]_vars PROVE ServicesInv'
  OBVIOUS
<1>1. MaxChunks \in Nat
  BY ServicesAssumption DEF ServicesAssumption
<1>2. component' = component
  BY DEF Next, vars
<1>3. CASE component = "realtime"
  <2>1. [RT!Next]_realtime
    BY <1>3 DEF Next, vars
  <2>2. RealtimeInv'
    BY <1>3, <2>1, ServicesAssumption, RealtimeKept DEF ServicesInv
  <2> QED BY <1>2, <1>3, <2>2 DEF ServicesInv
<1>4. CASE component = "sandbox"
  <2>1. [SB!Next]_sandbox
    BY <1>4 DEF Next, vars
  <2>2. SandboxInv'
    BY <1>4, <2>1, ServicesAssumption, SandboxKept DEF ServicesInv
  <2> QED BY <1>2, <1>4, <2>2 DEF ServicesInv
<1>5. CASE component = "ingestion"
  <2>1. [ING!Next]_ingestion
    BY <1>5 DEF Next, vars
  <2>2. IngestionInv'
    BY <1>1, <1>5, <2>1, IngestionKept DEF ServicesInv
  <2> QED BY <1>2, <1>5, <2>2 DEF ServicesInv
<1>6. CASE component = "auditor"
  <2>1. [AC!Next]_auditor
    BY <1>6 DEF Next, vars
  <2>2. AuditorInv'
    BY <1>6, <2>1, ServicesAssumption, AuditorKept DEF ServicesInv
  <2> QED BY <1>2, <1>6, <2>2 DEF ServicesInv
<1>7. CASE component = "schema"
  <2>1. [SM!Next]_migration
    BY <1>7 DEF Next, vars
  <2>2. SM!TypeOK'
    BY <1>7, <2>1, MigrationKept DEF ServicesInv
  <2> QED BY <1>2, <1>7, <2>2 DEF ServicesInv
<1> QED
  BY <1>3, <1>4, <1>5, <1>6, <1>7 DEF ServicesInv

(* The invariants of the services are kept by every step of each of them.     *)
THEOREM ServicesInvariant == Spec => []ServicesInv
<1> QED
  BY ServicesStart, ServicesKept, PTL DEF Spec

(* The types of every service, for all sets of clients, uploads, providers,   *)
(* streams and tables and all bounds: a broadcast's cursor stays within the    *)
(* connections there are, and rows are only in tables the schema has.          *)
THEOREM ServicesTyped == Spec => []TypeOK
<1>1. ServicesInv => TypeOK
  BY DEF ServicesInv, TypeOK, RealtimeInv, SandboxInv, IngestionInv, AuditorInv
<1> QED
  BY <1>1, ServicesInvariant, PTL

(* Extractions commit all the chunks of their document or none of them, but   *)
(* for the first chunks of one that is cancelled, which the wrapper commits.   *)
THEOREM ExtractionsWhole == Spec => []WholeExtractions
<1>1. ServicesInv => WholeExtractions
  BY IngestionWhole DEF ServicesInv, WholeExtractions
<1> QED
  BY <1>1, ServicesInvariant, PTL

(* No provider posts a request that the auditor has not recorded, and the       *)
(* facade counts each call from its admission to its end, on every way out.     *)
THEOREM CallsStayAccounted == Spec => []CallsAccounted
<1>1. ServicesInv => CallsAccounted
  BY DEF ServicesInv, CallsAccounted, AuditorInv
<1> QED
  BY <1>1, ServicesInvariant, PTL

(* The auditor's report says what was recorded, at every length of its history. *)
THEOREM ReportStaysTrue == Spec => []ReportTrue
<1>1. ServicesInv => ReportTrue
  BY DEF ServicesInv, ReportTrue, AuditorInv
<1> QED
  BY <1>1, ServicesInvariant, PTL

(* What waits for a subscriber is the newest of what was recorded, without a   *)
(* gap, whatever the capacity of its queue.                                    *)
THEOREM StreamsHoldNewest == Spec => []StreamsKeepNewest
<1>1. ServicesInv => StreamsKeepNewest
  BY AuditorStreams DEF ServicesInv, StreamsKeepNewest
<1> QED
  BY <1>1, ServicesInvariant, PTL

(* A sandbox call ends with its container gone or its removal under way, for   *)
(* any number of cancellations, but for the two exceptions the property names. *)
THEOREM RemovalsFollow == Spec => []RemovalFollows
<1>1. ServicesInv => RemovalFollows
  BY DEF ServicesInv, RemovalFollows, SandboxInv
<1> QED
  BY <1>1, ServicesInvariant, PTL

\* A step of another service leaves the feed alone.
LEMMA FeedSteps ==
  ASSUME ServicesInv, [Next]_vars
  PROVE  UNCHANGED RT!vars \/ (RealtimeInv /\ [RT!Next]_realtime)
<1>1. CASE component = "realtime"
  BY <1>1 DEF Next, vars, ServicesInv
<1>2. CASE component # "realtime"
  <2>1. UNCHANGED realtime
    BY <1>2 DEF Next, vars
  <2> QED BY <2>1 DEF realtime, RT!vars, RT!tailVars, RT!loop
<1> QED
  BY <1>1, <1>2

(* From the first message on, the tail takes the entries of a stream of any    *)
(* length one after the other, over reads that end empty or fail.              *)
THEOREM TailReadsOn == Spec => TailHasNoGap
<1>1. ServicesInv /\ [Next]_vars => [pointer' # pointer /\ pointer # 0 => pointer' = pointer + 1]_RT!vars
  BY FeedSteps, RealtimeTakes
<1> QED
  BY <1>1, ServicesInvariant, PTL DEF Spec, TailHasNoGap, RT!TailHasNoGap

(* A broadcast that nobody leaves reaches every connection that is open at its *)
(* end, for any number of clients that come, go and die in any order.          *)
THEOREM BroadcastsReachAll == Spec => ReachesAll
<1>1. ServicesInv /\ [Next]_vars =>
        [RT!Sending /\ tail' = "working" /\ ~departed =>
           \A c \in Clients : socket[c] = "open" => pointer \in RT!ToSet(delivered'[c])]_RT!vars
  BY FeedSteps, ServicesAssumption, RealtimeReaches
<1> QED
  BY <1>1, ServicesInvariant, PTL DEF Spec, ReachesAll, RT!ReachesAll

=============================================================================
