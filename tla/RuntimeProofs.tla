------------------------------ MODULE RuntimeProofs ------------------------------
(* What the tool calls, the memories, the selection and the conversations of    *)
(* the runtime guarantee, for any runs, facts, layers, goals, histories, bot,   *)
(* chats, members and bounds.                                                   *)
EXTENDS ToolCalls, RuntimeMemory, Selection, Conversations, WellFoundedInduction, FiniteSetTheorems, TLAPS

-----------------------------------------------------------------------------
(* Tool calls and replays, for any runs and bounds.                          *)

LEMMA ToolsTypedInit == ToolsInit => ToolsTypeOK
<1> SUFFICES ASSUME ToolsInit PROVE ToolsTypeOK
  OBVIOUS
<1>1. 0 \in Configs /\ 0 \in Contracts
  BY ToolAssumption DEF Configs, Contracts
<1>2. calls \in [ToolRuns -> Seq(CallRow)]
  BY DEF ToolsInit
<1>3. /\ snapshot \in [ToolRuns -> {NoSnapshot} \cup [taken : {TRUE}, of : [BuiltinTools -> Contracts]]]
      /\ cache \in [CacheKeys -> {NoEntry} \cup [stored : {TRUE}, madeWith : Configs, expired : BOOLEAN]]
  BY DEF ToolsInit
<1>4. /\ enabled \in [BuiltinTools -> BOOLEAN]
      /\ contract \in [BuiltinTools -> Contracts]
  BY <1>1 DEF ToolsInit
<1>5. mode \in [ToolRuns -> RunModes] /\ config \in Configs /\ changes \in 0..MaxChanges
  BY <1>1, ToolAssumption DEF ToolsInit
<1>6. ongoing = NoCall /\ report = NoReport /\ written = {} /\ drifted = {} /\ slipped = FALSE
  BY DEF ToolsInit
<1> QED
  BY <1>2, <1>3, <1>4, <1>5, <1>6 DEF ToolsTypeOK

LEMMA RecordTyped ==
    ASSUME ToolsTypeOK, NEW run \in ToolRuns, NEW request \in Requests, NEW status \in {"completed", "failed"},
           NEW madeWith \in Configs, NEW under \in Configs, RecordCall(run, request, status, madeWith, under)
    PROVE  LET row == [request |-> request, status |-> status, contract |-> contract[request.tool],
                       madeWith |-> madeWith, under |-> under]
           IN /\ calls' \in [ToolRuns -> Seq(CallRow)]
              /\ calls'[run] = Append(calls[run], row) /\ Len(calls'[run]) = Len(calls[run]) + 1
              /\ \A i \in 1..Len(calls[run]) : calls'[run][i] = calls[run][i]
              /\ calls'[run][Len(calls[run]) + 1] = row
              /\ \A r \in ToolRuns : r # run => calls'[r] = calls[r]
              /\ Len(calls[run]) \in Nat
              /\ drifted' \subseteq ToolRuns /\ drifted \subseteq drifted'
              /\ run \notin drifted' => snapshot'[run].of[request.tool] = contract[request.tool]
<1> DEFINE row == [request |-> request, status |-> status, contract |-> contract[request.tool],
                   madeWith |-> madeWith, under |-> under]
<1>1. request.tool \in BuiltinTools
  BY DEF Requests, BuiltinTools
<1>2. contract[request.tool] \in Contracts
  BY <1>1 DEF ToolsTypeOK
<1>3. row \in CallRow
  BY <1>2 DEF CallRow
<1>4. calls' = [calls EXCEPT ![run] = Append(calls[run], row)]
  BY DEF RecordCall
<1>5. calls \in [ToolRuns -> Seq(CallRow)] /\ calls[run] \in Seq(CallRow)
  BY DEF ToolsTypeOK
<1> HIDE DEF row
<1>6. Append(calls[run], row) \in Seq(CallRow)
  BY <1>3, <1>5
<1>7. calls' \in [ToolRuns -> Seq(CallRow)] /\ calls'[run] = Append(calls[run], row)
      /\ \A r \in ToolRuns : r # run => calls'[r] = calls[r]
  BY <1>4, <1>5, <1>6
<1>8. /\ Len(calls'[run]) = Len(calls[run]) + 1 /\ Len(calls[run]) \in Nat
      /\ \A i \in 1..Len(calls[run]) : calls'[run][i] = calls[run][i]
      /\ calls'[run][Len(calls[run]) + 1] = row
  BY <1>3, <1>5, <1>7
<1>9. /\ drifted' \subseteq ToolRuns /\ drifted \subseteq drifted'
      /\ run \notin drifted' => snapshot'[run].of[request.tool] = contract[request.tool]
  BY DEF RecordCall, ToolsTypeOK
<1> QED
  BY <1>7, <1>8, <1>9 DEF row

LEMMA SnapshotTyped ==
    ASSUME ToolsTypeOK, NEW run \in ToolRuns, SnapshotTaken(run)
    PROVE  /\ snapshot' \in [ToolRuns -> {NoSnapshot} \cup [taken : {TRUE}, of : [BuiltinTools -> Contracts]]]
           /\ snapshot'[run] # NoSnapshot
           /\ snapshot[run] # NoSnapshot => snapshot'[run] = snapshot[run]
           /\ snapshot[run] = NoSnapshot => snapshot'[run].of = contract
           /\ \A r \in ToolRuns : r # run => snapshot'[r] = snapshot[r]
<1>1. [taken |-> TRUE, of |-> contract] \in [taken : {TRUE}, of : [BuiltinTools -> Contracts]]
      /\ [taken |-> TRUE, of |-> contract] # NoSnapshot
  BY DEF ToolsTypeOK, NoSnapshot
<1>2. snapshot \in [ToolRuns -> {NoSnapshot} \cup [taken : {TRUE}, of : [BuiltinTools -> Contracts]]]
  BY DEF ToolsTypeOK
<1>3. CASE snapshot[run] # NoSnapshot
  BY <1>2, <1>3 DEF SnapshotTaken
<1>4. CASE snapshot[run] = NoSnapshot
  BY <1>1, <1>2, <1>4 DEF SnapshotTaken
<1> QED
  BY <1>3, <1>4

LEMMA CacheTyped ==
    ASSUME ToolsTypeOK, NEW request \in Requests
    PROVE  /\ Cacheable(request) => CacheKey(request) \in CacheKeys
           /\ CacheHit(request) => cache[CacheKey(request)].madeWith \in Configs
           /\ \A madeWith \in Configs :
                Stored(request, madeWith) \in [CacheKeys -> {NoEntry} \cup [stored : {TRUE}, madeWith : Configs, expired : BOOLEAN]]
<1>1. ASSUME Cacheable(request) PROVE CacheKey(request) \in CacheKeys
  BY <1>1 DEF Cacheable, CacheKey, CacheKeys, ToolsTypeOK
<1>2. ASSUME CacheHit(request) PROVE cache[CacheKey(request)].madeWith \in Configs
  BY <1>1, <1>2 DEF CacheHit, ToolsTypeOK
<1>3. ASSUME NEW madeWith \in Configs
      PROVE  Stored(request, madeWith) \in [CacheKeys -> {NoEntry} \cup [stored : {TRUE}, madeWith : Configs, expired : BOOLEAN]]
  <2>1. [stored |-> TRUE, madeWith |-> madeWith, expired |-> FALSE] \in [stored : {TRUE}, madeWith : Configs, expired : BOOLEAN]
    OBVIOUS
  <2> QED
    BY <1>1, <2>1 DEF Stored, ToolsTypeOK
<1> QED
  BY <1>1, <1>2, <1>3

-----------------------------------------------------------------------------
(* What holds between the calls of a run and its replay.                     *)

\* A result is stored under the configuration it was made with;
StoredIsCurrent == slipped \/ \A k \in CacheKeys : cache[k] # NoEntry => cache[k].madeWith = k[2]

\* the call that executes was allowed and has a snapshot;
OngoingIsAllowed ==
    ongoing # NoCall => Allowed(ongoing.run, ongoing.request) /\ snapshot[ongoing.run] # NoSnapshot

\* who wrote has a call that writes;
WritesAreRecorded ==
    \A w \in written : \E i \in 1..Len(calls[w[1]]) : calls[w[1]][i].request.writes

\* and a run that did not drift has called under the contracts of its snapshot.
SnapshotsAreCurrent ==
    \A r \in ToolRuns :
      /\ calls[r] # <<>> => snapshot[r] # NoSnapshot
      /\ r \notin drifted =>
           \A i \in 1..Len(calls[r]) : calls[r][i].contract = snapshot[r].of[calls[r][i].request.tool]

CallsInv ==
    StoredIsCurrent /\ OngoingIsAllowed /\ WritesAreRecorded /\ SnapshotsAreCurrent

ToolsInv == ToolsTypeOK /\ CallsInv /\ CallsAreGoverned

LEMMA AllowedWrites ==
    ASSUME NEW run \in ToolRuns, NEW request \in Requests, Allowed(run, request), request.writes
    PROVE  /\ request.tool # "im.telegram.send_message"
           /\ mode[run] = "scheduler" => request.tool = "fs.write_text"
  BY DEF Requests, Allowed, Decide, EffectiveSideEffect, BuiltinSideEffects, BlockedReplaySideEffects

LEMMA WritesAreBlocked ==
    ASSUME NEW request \in Requests, request.writes
    PROVE  EffectiveSideEffect(request) \in BlockedReplaySideEffects
  BY DEF Requests, EffectiveSideEffect, BuiltinSideEffects, BlockedReplaySideEffects

\* What a call adds to a run without changing anything it had.
LEMMA CallRecorded ==
    ASSUME ToolsInv, NEW run \in ToolRuns, NEW request \in Requests, NEW status \in {"completed", "failed"},
           NEW madeWith \in Configs, NEW under \in Configs, RecordCall(run, request, status, madeWith, under),
           snapshot' \in [ToolRuns -> {NoSnapshot} \cup [taken : {TRUE}, of : [BuiltinTools -> Contracts]]],
           snapshot'[run] # NoSnapshot, snapshot[run] # NoSnapshot => snapshot'[run] = snapshot[run],
           \A r \in ToolRuns : r # run => snapshot'[r] = snapshot[r],
           slipped => slipped', slipped' \/ status = "failed" \/ madeWith = under,
           \A w \in written' : w \in written \/ (w[1] = run /\ request.writes)
    PROVE  WritesAreRecorded' /\ SnapshotsAreCurrent' /\ CachedResultsAreCurrent'
<1> DEFINE n == Len(calls[run])
<1>0. /\ ToolsTypeOK /\ WritesAreRecorded /\ SnapshotsAreCurrent /\ CachedResultsAreCurrent
      /\ n \in Nat
  BY RecordTyped DEF ToolsInv, CallsInv, CallsAreGoverned
<1>1. /\ Len(calls'[run]) = n + 1
      /\ \A i \in 1..n : calls'[run][i] = calls[run][i]
      /\ calls'[run][n + 1].request = request /\ calls'[run][n + 1].status = status
      /\ calls'[run][n + 1].contract = contract[request.tool]
      /\ calls'[run][n + 1].madeWith = madeWith /\ calls'[run][n + 1].under = under
      /\ \A r \in ToolRuns : r # run => calls'[r] = calls[r]
      /\ drifted \subseteq drifted'
      /\ run \notin drifted' => snapshot'[run].of[request.tool] = contract[request.tool]
  <2> DEFINE row == [request |-> request, status |-> status, contract |-> contract[request.tool],
                     madeWith |-> madeWith, under |-> under]
  <2>1. /\ Len(calls'[run]) = Len(calls[run]) + 1
        /\ \A i \in 1..Len(calls[run]) : calls'[run][i] = calls[run][i]
        /\ calls'[run][Len(calls[run]) + 1] = row
        /\ \A r \in ToolRuns : r # run => calls'[r] = calls[r]
        /\ drifted \subseteq drifted'
        /\ run \notin drifted' => snapshot'[run].of[request.tool] = contract[request.tool]
    <3> HIDE DEF n
    <3> QED
      BY <1>0, RecordTyped
  <2>2. /\ row.request = request /\ row.status = status /\ row.contract = contract[request.tool]
        /\ row.madeWith = madeWith /\ row.under = under
    OBVIOUS
  <2> HIDE DEF row
  <2> QED
    BY <2>1, <2>2
<1>2. \A i \in 1..Len(calls'[run]) : i \in 1..n \/ i = n + 1
  BY <1>0, <1>1
<1>3. \A i \in 1..n : i \in 1..Len(calls'[run])
  BY <1>0, <1>1
<1>4. n + 1 \in 1..Len(calls'[run])
  BY <1>0, <1>1
<1> HIDE DEF n
<1>5. WritesAreRecorded'
  <2> SUFFICES ASSUME NEW w \in written'
               PROVE  \E i \in 1..Len(calls'[w[1]]) : calls'[w[1]][i].request.writes
    BY DEF WritesAreRecorded
  <2>1. CASE w[1] = run /\ request.writes
    BY <2>1, <1>1, <1>4
  <2>2. CASE w \in written
    <3>1. w[1] \in ToolRuns
      BY <1>0, <2>2 DEF ToolsTypeOK
    <3>2. PICK i \in 1..Len(calls[w[1]]) : calls[w[1]][i].request.writes
      BY <1>0, <2>2 DEF WritesAreRecorded
    <3> QED
      BY <3>1, <3>2, <1>1, <1>3 DEF n
  <2> QED
    BY <2>1, <2>2
<1>6. SnapshotsAreCurrent'
  <2> SUFFICES ASSUME NEW r \in ToolRuns
               PROVE  /\ calls'[r] # <<>> => snapshot'[r] # NoSnapshot
                      /\ r \notin drifted' =>
                           \A i \in 1..Len(calls'[r]) :
                             calls'[r][i].contract = snapshot'[r].of[calls'[r][i].request.tool]
    BY DEF SnapshotsAreCurrent
  <2>1. CASE r # run
    BY <2>1, <1>0, <1>1 DEF SnapshotsAreCurrent
  <2>2. CASE r = run
    <3> SUFFICES ASSUME run \notin drifted', NEW i \in 1..Len(calls'[run])
                 PROVE  calls'[run][i].contract = snapshot'[run].of[calls'[run][i].request.tool]
      BY <2>2
    <3>1. CASE i = n + 1
      BY <3>1, <1>1
    <3>2. CASE i \in 1..n
      <4>1. calls[run] # <<>>
        BY <3>2, <1>0 DEF n
      <4>2. calls[run][i].contract = snapshot[run].of[calls[run][i].request.tool]
        BY <3>2, <1>0, <1>1 DEF SnapshotsAreCurrent, n
      <4> QED
        BY <4>1, <4>2, <3>2, <1>0, <1>1 DEF SnapshotsAreCurrent
    <3> QED
      BY <3>1, <3>2, <1>2
  <2> QED
    BY <2>1, <2>2
<1>7. CachedResultsAreCurrent'
  <2> SUFFICES ASSUME ~slipped', NEW r \in ToolRuns, NEW i \in 1..Len(calls'[r]), calls'[r][i].status = "completed"
               PROVE  calls'[r][i].madeWith = calls'[r][i].under
    BY DEF CachedResultsAreCurrent
  <2>1. CASE r # run
    BY <2>1, <1>0, <1>1 DEF CachedResultsAreCurrent
  <2>2. CASE r = run /\ i = n + 1
    BY <2>2, <1>1
  <2>3. CASE r = run /\ i \in 1..n
    BY <2>3, <1>0, <1>1 DEF CachedResultsAreCurrent, n
  <2> QED
    BY <2>1, <2>2, <2>3, <1>2
<1> QED
  BY <1>5, <1>6, <1>7

\* What does not touch the calls, what was written, the policy or the reports.
LEMMA CallsStay ==
    ASSUME ToolsInv, ToolsTypeOK', UNCHANGED <<mode, calls, report, written, drifted, slipped>>,
           \A r \in ToolRuns : snapshot[r] # NoSnapshot => snapshot'[r] = snapshot[r],
           StoredIsCurrent', OngoingIsAllowed'
    PROVE  ToolsInv'
<1>1. WritesAreRecorded'
  BY DEF ToolsInv, CallsInv, WritesAreRecorded
<1>2. SnapshotsAreCurrent'
  <2> SUFFICES ASSUME NEW r \in ToolRuns
               PROVE  /\ calls[r] # <<>> => snapshot'[r] # NoSnapshot
                      /\ r \notin drifted =>
                           \A i \in 1..Len(calls[r]) :
                             calls[r][i].contract = snapshot'[r].of[calls[r][i].request.tool]
    BY DEF SnapshotsAreCurrent
  <2>1. CASE calls[r] = <<>>
    <3>1. Len(calls[r]) = 0
      BY <2>1
    <3> QED
      BY <2>1, <3>1
  <2>2. CASE calls[r] # <<>>
    BY <2>2 DEF ToolsInv, CallsInv, SnapshotsAreCurrent
  <2> QED
    BY <2>1, <2>2
<1>3. CallsAreGoverned'
  BY DEF ToolsInv, CallsAreGoverned, CachedResultsAreCurrent, ReplaysReuseReads, UnattendedRunsWriteLocally
<1> QED
  BY <1>1, <1>2, <1>3 DEF ToolsInv, CallsInv

LEMMA DisabledKeeps ==
    ASSUME ToolsInv, NEW run \in ToolRuns, NEW request \in Requests, CallDisabled(run, request)
    PROVE  ToolsInv'
<1>1. ToolsTypeOK /\ SnapshotTaken(run)
  BY DEF ToolsInv, CallDisabled
<1>2. /\ snapshot' \in [ToolRuns -> {NoSnapshot} \cup [taken : {TRUE}, of : [BuiltinTools -> Contracts]]]
      /\ \A r \in ToolRuns : snapshot[r] # NoSnapshot => snapshot'[r] = snapshot[r]
  BY <1>1, SnapshotTyped
<1>3. UNCHANGED <<mode, enabled, contract, config, calls, cache, ongoing, report, written, drifted, slipped, changes>>
  BY DEF CallDisabled
<1>4. ToolsTypeOK'
  BY <1>1, <1>2, <1>3 DEF ToolsTypeOK
<1>5. StoredIsCurrent'
  BY <1>3 DEF ToolsInv, CallsInv, StoredIsCurrent
<1>6. OngoingIsAllowed'
  <2>1. ongoing = NoCall
    BY DEF CallDisabled
  <2> QED
    BY <2>1, <1>3 DEF OngoingIsAllowed
<1> QED
  BY <1>2, <1>3, <1>4, <1>5, <1>6, CallsStay

LEMMA StartKeeps ==
    ASSUME ToolsInv, NEW run \in ToolRuns, NEW request \in Requests, StartCall(run, request)
    PROVE  ToolsInv'
<1>1. ToolsTypeOK /\ SnapshotTaken(run)
  BY DEF ToolsInv, StartCall
<1>2. /\ snapshot' \in [ToolRuns -> {NoSnapshot} \cup [taken : {TRUE}, of : [BuiltinTools -> Contracts]]]
      /\ \A r \in ToolRuns : snapshot[r] # NoSnapshot => snapshot'[r] = snapshot[r]
      /\ snapshot'[run] # NoSnapshot
  BY <1>1, SnapshotTyped
<1>3. UNCHANGED <<mode, enabled, contract, config, calls, cache, report, written, drifted, slipped, changes>>
  BY DEF StartCall
<1>4. /\ ongoing' \in [executing : {TRUE}, run : ToolRuns, request : Requests, config : Configs]
      /\ ongoing'.run = run /\ ongoing'.request = request
  BY <1>1 DEF StartCall, ToolsTypeOK
<1>5. ToolsTypeOK'
  BY <1>1, <1>2, <1>3, <1>4 DEF ToolsTypeOK
<1>6. StoredIsCurrent'
  BY <1>3 DEF ToolsInv, CallsInv, StoredIsCurrent
<1>7. OngoingIsAllowed'
  BY <1>2, <1>3, <1>4 DEF OngoingIsAllowed, StartCall, Allowed
<1> QED
  BY <1>2, <1>3, <1>5, <1>6, <1>7, CallsStay

\* A call that is refused or answered from the cache.
LEMMA RecordedKeeps ==
    ASSUME ToolsInv, NEW run \in ToolRuns, NEW request \in Requests, NEW status \in {"completed", "failed"},
           NEW madeWith \in Configs, RecordCall(run, request, status, madeWith, config), SnapshotTaken(run),
           slipped \/ madeWith = config, ongoing = NoCall,
           UNCHANGED <<mode, enabled, contract, config, cache, ongoing, report, written, slipped, changes>>
    PROVE  ToolsInv'
<1>1. ToolsTypeOK /\ config \in Configs
  BY DEF ToolsInv, ToolsTypeOK
<1>2. /\ snapshot' \in [ToolRuns -> {NoSnapshot} \cup [taken : {TRUE}, of : [BuiltinTools -> Contracts]]]
      /\ snapshot'[run] # NoSnapshot
      /\ snapshot[run] # NoSnapshot => snapshot'[run] = snapshot[run]
      /\ \A r \in ToolRuns : r # run => snapshot'[r] = snapshot[r]
  BY <1>1, SnapshotTyped
<1>3. calls' \in [ToolRuns -> Seq(CallRow)] /\ drifted' \subseteq ToolRuns
  BY <1>1, RecordTyped
<1>4. ToolsTypeOK'
  BY <1>1, <1>2, <1>3 DEF ToolsTypeOK
<1>5. WritesAreRecorded' /\ SnapshotsAreCurrent' /\ CachedResultsAreCurrent'
  BY <1>1, <1>2, CallRecorded
<1>6. StoredIsCurrent' /\ OngoingIsAllowed'
  BY DEF ToolsInv, CallsInv, StoredIsCurrent, OngoingIsAllowed
<1>7. ReplaysReuseReads' /\ UnattendedRunsWriteLocally'
  BY DEF ToolsInv, CallsAreGoverned, ReplaysReuseReads, UnattendedRunsWriteLocally
<1> QED
  BY <1>4, <1>5, <1>6, <1>7 DEF ToolsInv, CallsInv, CallsAreGoverned

LEMMA RefusedKeeps ==
    ASSUME ToolsInv, NEW run \in ToolRuns, NEW request \in Requests, CallRefused(run, request)
    PROVE  ToolsInv'
<1>1. config \in Configs
  BY DEF ToolsInv, ToolsTypeOK
<1>2. /\ RecordCall(run, request, "failed", config, config) /\ SnapshotTaken(run) /\ ongoing = NoCall
      /\ UNCHANGED <<mode, enabled, contract, config, cache, ongoing, report, written, slipped, changes>>
  BY DEF CallRefused
<1> QED
  BY <1>1, <1>2, RecordedKeeps

LEMMA CachedKeeps ==
    ASSUME ToolsInv, NEW run \in ToolRuns, NEW request \in Requests, CallCached(run, request)
    PROVE  ToolsInv'
<1> DEFINE madeWith == cache[CacheKey(request)].madeWith
<1>1. ToolsTypeOK /\ CacheHit(request) /\ Cacheable(request)
  BY DEF ToolsInv, CallCached, CacheHit
<1>2. madeWith \in Configs /\ CacheKey(request) \in CacheKeys
  BY <1>1, CacheTyped
<1>3. slipped \/ madeWith = config
  BY <1>1, <1>2 DEF ToolsInv, CallsInv, StoredIsCurrent, CacheHit, CacheKey
<1>4. /\ RecordCall(run, request, "completed", madeWith, config) /\ SnapshotTaken(run) /\ ongoing = NoCall
      /\ UNCHANGED <<mode, enabled, contract, config, cache, ongoing, report, written, slipped, changes>>
  BY DEF CallCached
<1> HIDE DEF madeWith
<1> QED
  BY <1>2, <1>3, <1>4, RecordedKeeps

LEMMA EndKeeps ==
    ASSUME ToolsInv, NEW status \in {"completed", "failed"}, EndCall(status)
    PROVE  ToolsInv'
<1> DEFINE run == ongoing.run
           request == ongoing.request
           under == ongoing.config
<1>1. ToolsTypeOK /\ run \in ToolRuns /\ request \in Requests /\ under \in Configs
  BY DEF ToolsInv, EndCall, ToolsTypeOK
<1>2. /\ RecordCall(run, request, status, under, under)
      /\ cache' = IF status = "completed" THEN Stored(request, under) ELSE cache
      /\ slipped' = (slipped \/ (cache' # cache /\ under # config))
      /\ written' = IF request.writes THEN written \cup {<<run, request.tool>>} ELSE written
      /\ ongoing' = NoCall
      /\ UNCHANGED <<mode, enabled, contract, config, snapshot, report, changes>>
  BY DEF EndCall
<1>3. Allowed(run, request) /\ snapshot[run] # NoSnapshot
  BY DEF ToolsInv, CallsInv, OngoingIsAllowed, EndCall
<1>4. request.tool \in BuiltinTools
  BY <1>1 DEF Requests, BuiltinTools
<1> HIDE DEF run, request, under
<1>5. cache' \in [CacheKeys -> {NoEntry} \cup [stored : {TRUE}, madeWith : Configs, expired : BOOLEAN]]
  BY <1>1, <1>2, CacheTyped DEF ToolsTypeOK
<1>6. calls' \in [ToolRuns -> Seq(CallRow)] /\ drifted' \subseteq ToolRuns
  BY <1>1, <1>2, RecordTyped
<1>7. snapshot' \in [ToolRuns -> {NoSnapshot} \cup [taken : {TRUE}, of : [BuiltinTools -> Contracts]]]
  BY <1>1, <1>2 DEF ToolsTypeOK
<1>8. ToolsTypeOK'
  <2>1. written' \subseteq ToolRuns \X BuiltinTools
    BY <1>1, <1>2, <1>4 DEF ToolsTypeOK
  <2>2. slipped' \in BOOLEAN
    <3>1. slipped \in BOOLEAN
      BY <1>1 DEF ToolsTypeOK
    <3> QED
      BY <3>1, <1>2
  <2> QED
    BY <1>1, <1>2, <1>5, <1>6, <2>1, <2>2 DEF ToolsTypeOK
<1>9. WritesAreRecorded' /\ SnapshotsAreCurrent' /\ CachedResultsAreCurrent'
  <2>1. slipped => slipped'
    BY <1>2
  <2>2. \A w \in written' : w \in written \/ (w[1] = run /\ request.writes)
    BY <1>2
  <2>3. /\ snapshot'[run] # NoSnapshot
        /\ snapshot[run] # NoSnapshot => snapshot'[run] = snapshot[run]
        /\ \A r \in ToolRuns : r # run => snapshot'[r] = snapshot[r]
    BY <1>2, <1>3
  <2>4. slipped' \/ status = "failed" \/ under = under
    OBVIOUS
  <2>5. RecordCall(run, request, status, under, under)
    BY <1>2
  <2> QED
    BY <1>1, <1>7, <2>1, <2>2, <2>3, <2>4, <2>5, CallRecorded
<1>10. StoredIsCurrent'
  <2> SUFFICES ASSUME ~slipped', NEW k \in CacheKeys, cache'[k] # NoEntry PROVE cache'[k].madeWith = k[2]
    BY DEF StoredIsCurrent
  <2>1. CASE cache' = cache
    BY <2>1, <1>2 DEF ToolsInv, CallsInv, StoredIsCurrent
  <2>2. CASE cache' # cache
    <3>1. under = config /\ ~slipped /\ cache' = Stored(request, under) /\ Cacheable(request)
      BY <2>2, <1>2 DEF Stored
    <3>2. CASE k = CacheKey(request)
      BY <3>1, <3>2, <1>1 DEF Stored, CacheKey, ToolsTypeOK
    <3>3. CASE k # CacheKey(request)
      <4>1. cache'[k] = cache[k]
        BY <3>1, <3>3, <1>1 DEF Stored, ToolsTypeOK
      <4> QED
        BY <4>1, <3>1 DEF ToolsInv, CallsInv, StoredIsCurrent
    <3> QED
      BY <3>2, <3>3
  <2> QED
    BY <2>1, <2>2
<1>11. OngoingIsAllowed'
  BY <1>2 DEF OngoingIsAllowed
<1>12. ReplaysReuseReads'
  BY <1>2 DEF ToolsInv, CallsAreGoverned, ReplaysReuseReads
<1>13. UnattendedRunsWriteLocally'
  <2> SUFFICES ASSUME NEW w \in written'
               PROVE  /\ w[2] # "im.telegram.send_message"
                      /\ mode[w[1]] = "scheduler" => w[2] = "fs.write_text"
    BY <1>2 DEF UnattendedRunsWriteLocally
  <2>1. CASE w \in written
    BY <2>1 DEF ToolsInv, CallsAreGoverned, UnattendedRunsWriteLocally
  <2>2. CASE w = <<run, request.tool>> /\ request.writes
    BY <2>2, <1>1, <1>3, AllowedWrites
  <2> QED
    BY <2>1, <2>2, <1>2
<1> QED
  BY <1>8, <1>9, <1>10, <1>11, <1>12, <1>13 DEF ToolsInv, CallsInv, CallsAreGoverned

LEMMA ExpireKeeps ==
    ASSUME ToolsInv, NEW key \in CacheKeys, Expire(key)
    PROVE  ToolsInv'
<1>1. ToolsTypeOK
  BY DEF ToolsInv
<1>2. /\ cache[key] # NoEntry /\ cache' = [cache EXCEPT ![key] = [@ EXCEPT !.expired = TRUE]]
      /\ UNCHANGED <<mode, enabled, contract, config, snapshot, calls, ongoing, report, written,
                     drifted, slipped, changes>>
  BY DEF Expire
<1>3. cache[key] \in [stored : {TRUE}, madeWith : Configs, expired : BOOLEAN]
  BY <1>1, <1>2 DEF ToolsTypeOK
<1> DEFINE entry == [cache[key] EXCEPT !.expired = TRUE]
<1>4. entry \in [stored : {TRUE}, madeWith : Configs, expired : BOOLEAN] /\ entry.madeWith = cache[key].madeWith
  BY <1>3
<1> HIDE DEF entry
<1>5. cache' = [cache EXCEPT ![key] = entry]
  BY <1>2 DEF entry
<1>6. ToolsTypeOK'
  <2>1. cache' \in [CacheKeys -> {NoEntry} \cup [stored : {TRUE}, madeWith : Configs, expired : BOOLEAN]]
    BY <1>1, <1>4, <1>5 DEF ToolsTypeOK
  <2> QED
    BY <1>1, <1>2, <2>1 DEF ToolsTypeOK
<1>7. StoredIsCurrent'
  <2> SUFFICES ASSUME ~slipped, NEW k \in CacheKeys, cache'[k] # NoEntry PROVE cache'[k].madeWith = k[2]
    BY <1>2 DEF StoredIsCurrent
  <2>1. cache'[k].madeWith = cache[k].madeWith /\ cache[k] # NoEntry
    BY <1>1, <1>2, <1>4, <1>5 DEF ToolsTypeOK
  <2> QED
    BY <2>1 DEF ToolsInv, CallsInv, StoredIsCurrent
<1>8. OngoingIsAllowed'
  BY <1>2 DEF ToolsInv, CallsInv, OngoingIsAllowed, Allowed
<1> QED
  BY <1>2, <1>6, <1>7, <1>8, CallsStay

\* The configuration, the contracts and the manifests change outside.
LEMMA OutsideKeeps ==
    ASSUME ToolsInv,
           \/ \E v \in Configs : EditConfig(v) \/ \E t \in BuiltinTools : ChangeContract(t, v)
           \/ \E t \in BuiltinTools, on \in BOOLEAN : SetToolEnabled(t, on)
    PROVE  ToolsInv'
<1>1. ToolsTypeOK
  BY DEF ToolsInv
<1>2. UNCHANGED <<mode, snapshot, calls, cache, ongoing, report, written, drifted, slipped>>
  BY DEF EditConfig, ChangeContract, SetToolEnabled
<1>3. changes' \in 0..MaxChanges
  BY <1>1, ToolAssumption DEF EditConfig, ChangeContract, SetToolEnabled, Bounded, ToolsTypeOK
<1>4. config' \in Configs /\ contract' \in [BuiltinTools -> Contracts] /\ enabled' \in [BuiltinTools -> BOOLEAN]
  <2>1. ASSUME NEW v \in Configs, EditConfig(v)
        PROVE  config' \in Configs /\ contract' = contract /\ enabled' = enabled
    BY <2>1 DEF EditConfig
  <2>2. ASSUME NEW v \in Configs, NEW t \in BuiltinTools, ChangeContract(t, v)
        PROVE  config' = config /\ contract' \in [BuiltinTools -> Contracts] /\ enabled' = enabled
    <3>1. v \in Contracts
      BY DEF Configs, Contracts
    <3> QED
      BY <2>2, <3>1, <1>1 DEF ChangeContract, ToolsTypeOK
  <2>3. ASSUME NEW t \in BuiltinTools, NEW on \in BOOLEAN, SetToolEnabled(t, on)
        PROVE  config' = config /\ contract' = contract /\ enabled' \in [BuiltinTools -> BOOLEAN]
    BY <2>3, <1>1 DEF SetToolEnabled, ToolsTypeOK
  <2> QED
    BY <2>1, <2>2, <2>3, <1>1 DEF ToolsTypeOK
<1>5. ToolsTypeOK'
  BY <1>1, <1>2, <1>3, <1>4 DEF ToolsTypeOK
<1>6. StoredIsCurrent' /\ OngoingIsAllowed'
  BY <1>2 DEF ToolsInv, CallsInv, StoredIsCurrent, OngoingIsAllowed, Allowed
<1> QED
  BY <1>2, <1>5, <1>6, CallsStay

LEMMA ReplayKeeps ==
    ASSUME ToolsInv, NEW run \in ToolRuns, Replay(run)
    PROVE  ToolsInv'
<1>1. ToolsTypeOK
  BY DEF ToolsInv
<1>2. UNCHANGED <<mode, enabled, contract, config, snapshot, calls, cache, ongoing, written, drifted, slipped, changes>>
  BY DEF Replay
<1> DEFINE wrote == \E t \in BuiltinTools : <<run, t>> \in written
           stale == /\ run \notin drifted
                    /\ \E i \in 1..Len(calls[run]) :
                         calls[run][i].contract # contract[calls[run][i].request.tool]
<1>3. report' = [ready |-> ReplayReady(run), wrote |-> wrote, stale |-> stale]
  BY DEF Replay
<1>4. ReplayReady(run) \in BOOLEAN /\ wrote \in BOOLEAN /\ stale \in BOOLEAN
  BY DEF ReplayReady
<1>5. ReplayReady(run) => ~wrote
  <2> SUFFICES ASSUME ReplayReady(run), NEW t \in BuiltinTools, <<run, t>> \in written PROVE FALSE
    OBVIOUS
  <2>1. PICK i \in 1..Len(calls[run]) : calls[run][i].request.writes
    BY DEF ToolsInv, CallsInv, WritesAreRecorded
  <2>2. calls[run][i].request \in Requests
    <3>1. calls[run] \in Seq(CallRow)
      BY <1>1 DEF ToolsTypeOK
    <3>2. calls[run][i] \in CallRow
      BY <3>1
    <3> QED
      BY <3>2 DEF CallRow
  <2>3. EffectiveSideEffect(calls[run][i].request) \in BlockedReplaySideEffects
    BY <2>1, <2>2, WritesAreBlocked
  <2>4. PlanToolStep(run, calls[run][i]) \in {"skip", "block"}
    BY <2>3 DEF PlanToolStep
  <2> QED
    BY <2>4 DEF ReplayReady
<1>6. ReplayReady(run) => ~stale
  <2> SUFFICES ASSUME ReplayReady(run), run \notin drifted, NEW i \in 1..Len(calls[run])
               PROVE  calls[run][i].contract = contract[calls[run][i].request.tool]
    OBVIOUS
  <2>1. PlanToolStep(run, calls[run][i]) = "reuse_output"
    BY DEF ReplayReady
  <2>2. ~ContractDrift(run, calls[run][i].request.tool)
    BY <2>1 DEF PlanToolStep
  <2> QED
    BY <2>2 DEF ContractDrift, ToolsInv, CallsInv, SnapshotsAreCurrent
<1> HIDE DEF wrote, stale
<1>7. /\ report' \in [ready : BOOLEAN, wrote : BOOLEAN, stale : BOOLEAN]
      /\ report'.ready => ~report'.wrote /\ ~report'.stale
  BY <1>3, <1>4, <1>5, <1>6
<1>8. ToolsTypeOK'
  BY <1>1, <1>2, <1>7 DEF ToolsTypeOK
<1>9. CallsInv'
  BY <1>2 DEF ToolsInv, CallsInv, StoredIsCurrent, OngoingIsAllowed, WritesAreRecorded, SnapshotsAreCurrent, Allowed
<1>10. CallsAreGoverned'
  BY <1>2, <1>7 DEF ToolsInv, CallsAreGoverned, CachedResultsAreCurrent, ReplaysReuseReads, UnattendedRunsWriteLocally
<1> QED
  BY <1>8, <1>9, <1>10 DEF ToolsInv

LEMMA ToolsInvInvariant == ToolsSpec => []ToolsInv
<1>1. ToolsInit => ToolsInv
  <2> SUFFICES ASSUME ToolsInit PROVE ToolsInv
    OBVIOUS
  <2>1. /\ \A r \in ToolRuns : calls[r] = <<>> /\ 1..Len(calls[r]) = {}
        /\ \A k \in CacheKeys : cache[k] = NoEntry
        /\ ongoing = NoCall /\ report = NoReport /\ ~report.ready /\ written = {}
    BY DEF ToolsInit, NoReport
  <2>2. CallsInv
    BY <2>1 DEF CallsInv, StoredIsCurrent, OngoingIsAllowed, WritesAreRecorded, SnapshotsAreCurrent
  <2>3. CallsAreGoverned
    BY <2>1 DEF CallsAreGoverned, CachedResultsAreCurrent, ReplaysReuseReads, UnattendedRunsWriteLocally
  <2> QED
    BY <2>2, <2>3, ToolsTypedInit DEF ToolsInv
<1>2. ToolsInv /\ [ToolsNext]_toolVars => ToolsInv'
  <2> SUFFICES ASSUME ToolsInv, [ToolsNext]_toolVars PROVE ToolsInv'
    OBVIOUS
  <2>1. CASE UNCHANGED toolVars
    <3>1. UNCHANGED <<mode, enabled, contract, config, snapshot, calls, cache, ongoing, report, written,
                      drifted, slipped, changes>>
      BY <2>1 DEF toolVars
    <3>2. ToolsTypeOK'
      BY <3>1 DEF ToolsInv, ToolsTypeOK
    <3>3. StoredIsCurrent' /\ OngoingIsAllowed'
      BY <3>1 DEF ToolsInv, CallsInv, StoredIsCurrent, OngoingIsAllowed, Allowed
    <3> QED
      BY <3>1, <3>2, <3>3, CallsStay
  <2>2. ASSUME NEW run \in ToolRuns, Replay(run) PROVE ToolsInv'
    BY <2>2, ReplayKeeps
  <2>3. ASSUME NEW run \in ToolRuns, NEW q \in Requests,
               CallDisabled(run, q) \/ CallRefused(run, q) \/ CallCached(run, q) \/ StartCall(run, q)
        PROVE  ToolsInv'
    BY <2>3, DisabledKeeps, RefusedKeeps, CachedKeeps, StartKeeps
  <2>4. ASSUME NEW status \in {"completed", "failed"}, EndCall(status) PROVE ToolsInv'
    BY <2>4, EndKeeps
  <2>5. ASSUME NEW key \in CacheKeys, Expire(key) PROVE ToolsInv'
    BY <2>5, ExpireKeeps
  <2>6. CASE \/ \E v \in Configs : EditConfig(v) \/ \E t \in BuiltinTools : ChangeContract(t, v)
             \/ \E t \in BuiltinTools, on \in BOOLEAN : SetToolEnabled(t, on)
    BY <2>6, OutsideKeeps
  <2> QED
    BY <2>1, <2>2, <2>3, <2>4, <2>5, <2>6 DEF ToolsNext
<1> QED
  BY <1>1, <1>2, PTL DEF ToolsSpec

\* Every reachable state of the tool calls is typed.
THEOREM ToolsTypeCorrect == ToolsSpec => []ToolsTypeOK
<1>1. ToolsInv => ToolsTypeOK
  BY DEF ToolsInv
<1> QED
  BY <1>1, ToolsInvInvariant, PTL

\* Whatever configurations, contracts and manifests change in between, a stored
\* result is used under the configuration it was made with, a replay reuses
\* reads of today's contracts only, and nothing is written unattended but
\* local files.
THEOREM CallsAreAlwaysGoverned == ToolsSpec => []CallsAreGoverned
<1>1. ToolsInv => CallsAreGoverned
  BY DEF ToolsInv
<1> QED
  BY <1>1, ToolsInvInvariant, PTL

-----------------------------------------------------------------------------
(* Messages and their answers, for any bot, chats, members and bounds.       *)

LEMMA GreatestIsThere ==
    ASSUME NEW n \in Nat, NEW T \in SUBSET (1..n), T # {}
    PROVE  Greatest(T) \in T
<1> DEFINE Less == {pair \in Nat \X Nat : pair[1] < pair[2]}
           Left == {n - t : t \in T}
<1>1. IsWellFoundedOn(Less, Nat)
  BY NatLessThanWellFounded DEF OpToRel
<1>2. Left \subseteq Nat /\ Left # {}
  <2>1. \A t \in T : n - t \in Nat
    OBVIOUS
  <2>2. PICK t \in T : TRUE
    OBVIOUS
  <2> QED
    BY <2>1, <2>2
<1>3. PICK x \in Left : \A y \in Left : ~(<<y, x>> \in Less)
  <2> HIDE DEF Less, Left
  <2> QED
    BY <1>1, <1>2, WFMin
<1>4. PICK m \in T : x = n - m
  BY <1>3
<1>5. ASSUME NEW t \in T PROVE m >= t
  <2>1. t \in 1..n /\ m \in 1..n
    OBVIOUS
  <2>2. ~(<<n - t, n - m>> \in Less)
    BY <1>3, <1>4
  <2>3. ~(n - t < n - m)
    BY <2>1, <2>2
  <2> QED
    BY <2>1, <2>3
<1> QED
  BY <1>5 DEF Greatest

MessageRows == [conv : Nat, of : Nat, run : Nat]
RunRows == [conv : Nat, kind : {"workflow", "intent", "tool"}, status : Statuses \cup {"blocked", "cancelled"},
            asked : BOOLEAN, answered : Users \cup {None}]
Working == {"chat", "agent", "gate", "answering"}
Hands == [at : Working \cup {"idle", "finding", "ambiguous", "receiving", "resuming"}, user : Users \cup {None},
          conv : Nat, message : Nat, run : Nat, actions : Nat]

ConversationsTyped ==
    /\ conversations \in Seq(Users)
    /\ messages \in Seq(MessageRows)
    /\ runs \in Seq(RunRows)
    /\ hands \in [Handlers -> Hands]
    /\ used \in 0..MaxMessages /\ crashes \in 0..MaxCrashes

\* A run is in a conversation, and waits for its user or the operator;
RunsFit ==
    \A i \in 1..Len(runs) :
      /\ runs[i].conv \in 1..Len(conversations)
      /\ runs[i].asked => runs[i].status = "waiting_input"
      /\ runs[i].answered \in {None, Local, conversations[runs[i].conv]}

\* an answer has its message, its conversation and its run, and is the only one;
MessagesFit ==
    \A i \in 1..Len(messages) :
      /\ messages[i].conv \in 1..Len(conversations)
      /\ messages[i].of \in 0..(i - 1)
      /\ messages[i].run \in 0..Len(runs)
      /\ messages[i].of # None =>
           /\ messages[i].run \in 1..Len(runs)
           /\ messages[messages[i].of].conv = messages[i].conv
           /\ conversations[runs[messages[i].run].conv] = conversations[messages[i].conv]
           /\ \A k \in 1..Len(messages) : messages[k].of = messages[i].of => k = i

\* a handler at work has a message that nobody answered, in its user's
\* conversation, and the run it answers with is of the same user;
HandFits(hand) ==
    /\ hand.at \notin Working => hand.message = None
    /\ hand.at \in Working =>
         /\ hand.message \in 1..Len(messages) /\ messages[hand.message].of = None
         /\ \A j \in 1..Len(messages) : messages[j].of # hand.message
         /\ messages[hand.message].conv = hand.conv
         /\ hand.conv \in 1..Len(conversations) /\ conversations[hand.conv] = hand.user
    /\ hand.at = "finding" => hand.conv = None
    /\ hand.at = "receiving" =>
         hand.conv = None \/ (hand.conv \in 1..Len(conversations) /\ conversations[hand.conv] = hand.user)
    /\ hand.at = "answering" => hand.run \in 1..Len(runs) /\ conversations[runs[hand.run].conv] = hand.user
    /\ hand.at = "resuming" => hand.run \in 1..Len(runs)

HandsFit ==
    \A h \in Handlers :
      /\ HandFits(hands[h])
      /\ hands[h].at = "idle" => hands[h] = Idle
      /\ hands[h].at # "idle" => hands[h].user \in Serves(h)

\* and no other has it.
HandsDiffer ==
    \A g, h \in Handlers : hands[g].message = hands[h].message /\ hands[g].message # None => g = h

ConvInv ==
    ConversationsTyped /\ RunsFit /\ MessagesFit /\ HandsFit /\ HandsDiffer /\ SilenceNeedsAFailure

-----------------------------------------------------------------------------
(* Rows are added, and what is there of conversations and messages stays.    *)

ConversationsGrow ==
    /\ conversations' \in Seq(Users) /\ Len(conversations) <= Len(conversations')
    /\ \A i \in 1..Len(conversations) : i \in 1..Len(conversations') /\ conversations'[i] = conversations[i]

MessagesGrow ==
    /\ messages' \in Seq(MessageRows) /\ Len(messages) <= Len(messages')
    /\ \A i \in 1..Len(messages) : i \in 1..Len(messages') /\ messages'[i] = messages[i]

RunsGrow ==
    /\ runs' \in Seq(RunRows) /\ Len(runs) <= Len(runs')
    /\ \A i \in 1..Len(runs) :
         /\ i \in 1..Len(runs') /\ runs'[i].conv = runs[i].conv
         /\ runs[i].status = "failed" => runs'[i].status = "failed"

LEMMA SameGrow ==
    ASSUME ConversationsTyped
    PROVE  /\ UNCHANGED conversations => ConversationsGrow
           /\ UNCHANGED messages => MessagesGrow
           /\ UNCHANGED runs => RunsGrow
BY DEF ConversationsTyped, ConversationsGrow, MessagesGrow, RunsGrow

LEMMA ConversationAdded ==
    ASSUME ConversationsTyped, NEW user \in Users, conversations' = Append(conversations, user)
    PROVE  /\ ConversationsGrow
           /\ Len(conversations') = Len(conversations) + 1
           /\ conversations'[Len(conversations) + 1] = user
           /\ Len(conversations) + 1 \in 1..Len(conversations') /\ Len(conversations) \in Nat
<1>1. conversations \in Seq(Users)
  BY DEF ConversationsTyped
<1> QED
  BY <1>1 DEF ConversationsGrow

LEMMA MessageAdded ==
    ASSUME ConversationsTyped, NEW row \in MessageRows, messages' = Append(messages, row)
    PROVE  /\ MessagesGrow
           /\ Len(messages') = Len(messages) + 1
           /\ messages'[Len(messages) + 1] = row
           /\ Len(messages) + 1 \in 1..Len(messages') /\ Len(messages) \in Nat
           /\ \A i \in 1..Len(messages') : i \in 1..Len(messages) \/ i = Len(messages) + 1
<1>1. messages \in Seq(MessageRows)
  BY DEF ConversationsTyped
<1>2. MessagesGrow /\ Len(messages') = Len(messages) + 1 /\ Len(messages) \in Nat
  BY <1>1 DEF MessagesGrow
<1> QED
  BY <1>1, <1>2

LEMMA RunAdded ==
    ASSUME ConversationsTyped, RunsFit, ConversationsGrow, NEW conv \in 1..Len(conversations'),
           NEW kind \in {"workflow", "intent", "tool"}, NEW status \in Statuses \cup {"blocked"},
           AddRun(conv, kind, status)
    PROVE  /\ RunsGrow /\ RunsFit'
           /\ Len(runs') = Len(runs) + 1 /\ Len(runs) \in Nat
           /\ Len(runs) + 1 \in 1..Len(runs')
           /\ runs'[Len(runs) + 1].conv = conv /\ runs'[Len(runs) + 1].status = status
<1> DEFINE row == NewRun(conv, kind, status)
<1>1. /\ runs \in Seq(RunRows) /\ conversations \in Seq(Users) /\ conversations' \in Seq(Users)
      /\ Len(conversations') \in Nat
  BY DEF ConversationsTyped, ConversationsGrow
<1>2. /\ row \in RunRows /\ row.conv = conv /\ row.status = status /\ row.answered = None
      /\ row.asked => row.status = "waiting_input"
  <2>1. conv \in Nat
    BY <1>1
  <2> QED
    BY <2>1 DEF NewRun, RunRows, Statuses
<1>3. runs' = Append(runs, row)
  BY DEF AddRun
<1> HIDE DEF row
<1>4. /\ runs' \in Seq(RunRows) /\ Len(runs') = Len(runs) + 1 /\ Len(runs) \in Nat
      /\ \A i \in 1..Len(runs) : i \in 1..Len(runs') /\ runs'[i] = runs[i]
      /\ runs'[Len(runs) + 1] = row
      /\ \A i \in 1..Len(runs') : i \in 1..Len(runs) \/ i = Len(runs) + 1
  BY <1>1, <1>2, <1>3
<1>5. RunsGrow
  BY <1>4 DEF RunsGrow
<1>6. RunsFit'
  <2> SUFFICES ASSUME NEW i \in 1..Len(runs')
               PROVE  /\ runs'[i].conv \in 1..Len(conversations')
                      /\ runs'[i].asked => runs'[i].status = "waiting_input"
                      /\ runs'[i].answered \in {None, Local, conversations'[runs'[i].conv]}
    BY DEF RunsFit
  <2>1. CASE i \in 1..Len(runs)
    BY <2>1, <1>4 DEF RunsFit, ConversationsGrow
  <2>2. CASE i = Len(runs) + 1
    BY <2>2, <1>2, <1>4
  <2> QED
    BY <2>1, <2>2, <1>4
<1> QED
  BY <1>2, <1>4, <1>5, <1>6

\* A waiting run is answered, goes on or is cancelled.
LEMMA RunChanged ==
    ASSUME ConversationsTyped, RunsFit, UNCHANGED conversations, NEW i \in 1..Len(runs), runs[i].status # "failed",
           NEW row \in RunRows, runs' = [runs EXCEPT ![i] = row], row.conv = runs[i].conv,
           row.asked => row.status = "waiting_input",
           row.answered \in {runs[i].answered, None, Local, conversations[runs[i].conv]}
    PROVE  RunsGrow /\ RunsFit'
<1>1. runs \in Seq(RunRows)
  BY DEF ConversationsTyped
<1>2. /\ runs' \in Seq(RunRows) /\ Len(runs') = Len(runs) /\ Len(runs) \in Nat
      /\ runs'[i] = row /\ \A j \in 1..Len(runs) : j # i => runs'[j] = runs[j]
  BY <1>1
<1>3. RunsGrow
  BY <1>2 DEF RunsGrow
<1>4. RunsFit'
  BY <1>2 DEF RunsFit
<1> QED
  BY <1>3, <1>4

-----------------------------------------------------------------------------
(* What a step that neither receives nor answers keeps.                      *)

LEMMA MessagesStay ==
    ASSUME ConversationsTyped, RunsFit, MessagesFit, ConversationsGrow, RunsGrow, UNCHANGED messages
    PROVE  MessagesFit'
<1>0. /\ Len(runs) \in Nat /\ Len(runs') \in Nat /\ Len(messages) \in Nat
      /\ Len(conversations) \in Nat /\ Len(conversations') \in Nat
  BY DEF ConversationsTyped, ConversationsGrow, RunsGrow
<1> SUFFICES ASSUME NEW i \in 1..Len(messages)
             PROVE  /\ messages[i].conv \in 1..Len(conversations')
                    /\ messages[i].of \in 0..(i - 1)
                    /\ messages[i].run \in 0..Len(runs')
                    /\ messages[i].of # None =>
                         /\ messages[i].run \in 1..Len(runs')
                         /\ messages[messages[i].of].conv = messages[i].conv
                         /\ conversations'[runs'[messages[i].run].conv] = conversations'[messages[i].conv]
                         /\ \A k \in 1..Len(messages) : messages[k].of = messages[i].of => k = i
  BY DEF MessagesFit
<1>1. /\ messages[i].conv \in 1..Len(conversations)
      /\ messages[i].of \in 0..(i - 1)
      /\ messages[i].run \in 0..Len(runs)
  BY DEF MessagesFit
<1>2. /\ messages[i].conv \in 1..Len(conversations')
      /\ messages[i].run \in 0..Len(runs')
  BY <1>0, <1>1 DEF ConversationsGrow, RunsGrow
<1>3. ASSUME messages[i].of # None
      PROVE  /\ messages[i].run \in 1..Len(runs')
             /\ conversations'[runs'[messages[i].run].conv] = conversations'[messages[i].conv]
  <2>1. messages[i].run \in 1..Len(runs)
        /\ conversations[runs[messages[i].run].conv] = conversations[messages[i].conv]
    BY <1>3 DEF MessagesFit
  <2>2. runs[messages[i].run].conv \in 1..Len(conversations)
    BY <2>1 DEF RunsFit
  <2> QED
    BY <1>1, <2>1, <2>2 DEF ConversationsGrow, RunsGrow
<1> QED
  BY <1>1, <1>2, <1>3 DEF MessagesFit

LEMMA HandStays ==
    ASSUME ConversationsTyped, RunsFit, ConversationsGrow, RunsGrow, MessagesGrow,
           NEW hand \in Hands, HandFits(hand),
           \A i \in 1..Len(messages') : i \in 1..Len(messages) \/ messages'[i].of # hand.message
                                        \/ hand.message = None
    PROVE  HandFits(hand)'
<1>0. /\ Len(runs) \in Nat /\ Len(runs') \in Nat /\ Len(messages) \in Nat /\ Len(messages') \in Nat
      /\ Len(conversations) \in Nat /\ Len(conversations') \in Nat
  BY DEF ConversationsTyped, ConversationsGrow, RunsGrow, MessagesGrow
<1>1. ASSUME hand.at \in Working
      PROVE  /\ hand.message \in 1..Len(messages') /\ messages'[hand.message].of = None
             /\ \A j \in 1..Len(messages') : messages'[j].of # hand.message
             /\ messages'[hand.message].conv = hand.conv
             /\ hand.conv \in 1..Len(conversations') /\ conversations'[hand.conv] = hand.user
  <2>1. /\ hand.message \in 1..Len(messages) /\ messages[hand.message].of = None
        /\ \A j \in 1..Len(messages) : messages[j].of # hand.message
        /\ messages[hand.message].conv = hand.conv
        /\ hand.conv \in 1..Len(conversations) /\ conversations[hand.conv] = hand.user
    BY <1>1 DEF HandFits
  <2>2. hand.message # None
    BY <2>1, <1>0 DEF None
  <2> QED
    BY <2>1, <2>2 DEF ConversationsGrow, MessagesGrow
<1>2. ASSUME hand.at = "answering"
      PROVE  hand.run \in 1..Len(runs') /\ conversations'[runs'[hand.run].conv] = hand.user
  <2>1. hand.run \in 1..Len(runs) /\ conversations[runs[hand.run].conv] = hand.user
    BY <1>2 DEF HandFits
  <2>2. runs[hand.run].conv \in 1..Len(conversations)
    BY <2>1 DEF RunsFit
  <2> QED
    BY <2>1, <2>2 DEF ConversationsGrow, RunsGrow
<1>3. hand.at = "resuming" => hand.run \in 1..Len(runs')
  BY DEF HandFits, RunsGrow
<1>4. hand.at = "receiving" =>
        hand.conv = None \/ (hand.conv \in 1..Len(conversations') /\ conversations'[hand.conv] = hand.user)
  BY DEF HandFits, ConversationsGrow
<1>5. (hand.at \notin Working => hand.message = None) /\ (hand.at = "finding" => hand.conv = None)
  BY DEF HandFits
<1> QED
  BY <1>1, <1>2, <1>3, <1>4, <1>5 DEF HandFits

-----------------------------------------------------------------------------
(* Messages without an answer.                                               *)

Silent == {i \in 1..Len(messages) : messages[i].of = None /\ Answers(i) = {}
             /\ \A h \in Handlers : hands[h].message # i}
FailedRuns == {i \in 1..Len(runs) : runs[i].status = "failed"}

LEMMA PartOfInterval ==
    ASSUME NEW n \in Nat, NEW T \in SUBSET (1..n)
    PROVE  IsFiniteSet(T) /\ Cardinality(T) \in Nat
<1>1. IsFiniteSet(T)
  <2>1. 1 \in Int /\ n \in Int
    OBVIOUS
  <2>2. IsFiniteSet(1..n)
    BY <2>1, FS_Interval
  <2> QED
    BY <2>2, FS_Subset
<1> QED
  BY <1>1, FS_CardinalityType

LEMMA OneMore ==
    ASSUME NEW T, IsFiniteSet(T), NEW x
    PROVE  IsFiniteSet(T \cup {x}) /\ Cardinality(T \cup {x}) <= Cardinality(T) + 1
           /\ Cardinality(T \cup {x}) \in Nat
<1>1. Cardinality(T) \in Nat
  BY FS_CardinalityType
<1>2. /\ IsFiniteSet(T \cup {x})
      /\ Cardinality(T \cup {x}) = IF x \in T THEN Cardinality(T) ELSE Cardinality(T) + 1
  BY FS_AddElement
<1> QED
  BY <1>1, <1>2

LEMMA SilenceCounted ==
    ASSUME ConversationsTyped, ConversationsTyped'
    PROVE  /\ IsFiniteSet(Silent) /\ IsFiniteSet(FailedRuns) /\ IsFiniteSet(Silent') /\ IsFiniteSet(FailedRuns')
           /\ Cardinality(Silent) \in Nat /\ Cardinality(FailedRuns) \in Nat
           /\ Cardinality(Silent') \in Nat /\ Cardinality(FailedRuns') \in Nat
<1>1. /\ Len(messages) \in Nat /\ Len(runs) \in Nat
      /\ Len(messages') \in Nat /\ Len(runs') \in Nat
  BY DEF ConversationsTyped
<1>2. /\ Silent \in SUBSET (1..Len(messages)) /\ FailedRuns \in SUBSET (1..Len(runs))
      /\ Silent' \in SUBSET (1..Len(messages')) /\ FailedRuns' \in SUBSET (1..Len(runs'))
  BY DEF Silent, FailedRuns
<1> HIDE DEF Silent, FailedRuns
<1> QED
  BY <1>1, <1>2, PartOfInterval

LEMMA SilenceSame ==
    ASSUME ConversationsTyped, ConversationsTyped', RunsGrow, UNCHANGED crashes, Silent' \subseteq Silent,
           SilenceNeedsAFailure
    PROVE  SilenceNeedsAFailure'
<1>1. /\ IsFiniteSet(Silent) /\ IsFiniteSet(FailedRuns) /\ IsFiniteSet(Silent') /\ IsFiniteSet(FailedRuns')
      /\ Cardinality(Silent) \in Nat /\ Cardinality(FailedRuns) \in Nat
      /\ Cardinality(Silent') \in Nat /\ Cardinality(FailedRuns') \in Nat
  BY SilenceCounted
<1>2. FailedRuns \subseteq FailedRuns'
  BY DEF FailedRuns, RunsGrow
<1>3. Cardinality(Silent') <= Cardinality(Silent) /\ Cardinality(FailedRuns) <= Cardinality(FailedRuns')
  BY <1>1, <1>2, FS_Subset
<1>4. Cardinality(Silent) <= crashes + Cardinality(FailedRuns)
  BY DEF SilenceNeedsAFailure, Silent, FailedRuns
<1>5. crashes \in Nat
  BY ConversationsAssumption DEF ConversationsTyped
<1>6. Cardinality(Silent') <= crashes' + Cardinality(FailedRuns')
  <2> HIDE DEF Silent, FailedRuns
  <2> QED
    BY <1>1, <1>3, <1>4, <1>5
<1> QED
  BY <1>6 DEF SilenceNeedsAFailure, Silent, FailedRuns

\* One more message without an answer, and one more cause.
LEMMA SilenceCaused ==
    ASSUME ConversationsTyped, ConversationsTyped', RunsGrow, SilenceNeedsAFailure,
           NEW m, Silent' \subseteq Silent \cup {m},
           \/ crashes' = crashes + 1
           \/ UNCHANGED crashes /\ Len(runs') = Len(runs) + 1 /\ runs'[Len(runs) + 1].status = "failed"
    PROVE  SilenceNeedsAFailure'
<1>1. /\ IsFiniteSet(Silent) /\ IsFiniteSet(FailedRuns) /\ IsFiniteSet(Silent') /\ IsFiniteSet(FailedRuns')
      /\ Cardinality(Silent) \in Nat /\ Cardinality(FailedRuns) \in Nat
      /\ Cardinality(Silent') \in Nat /\ Cardinality(FailedRuns') \in Nat
  BY SilenceCounted
<1>2. IsFiniteSet(Silent \cup {m}) /\ Cardinality(Silent \cup {m}) <= Cardinality(Silent) + 1
      /\ Cardinality(Silent \cup {m}) \in Nat
  BY <1>1, OneMore
<1>3. Cardinality(Silent') <= Cardinality(Silent) + 1
  <2>1. Cardinality(Silent') <= Cardinality(Silent \cup {m})
    <3> HIDE DEF Silent
    <3> QED
      BY <1>2, FS_Subset
  <2> HIDE DEF Silent
  <2> QED
    BY <1>1, <1>2, <2>1
<1>4. Cardinality(Silent) <= crashes + Cardinality(FailedRuns)
  BY DEF SilenceNeedsAFailure, Silent, FailedRuns
<1>5. crashes \in Nat /\ Len(runs) \in Nat
  BY ConversationsAssumption DEF ConversationsTyped
<1>6. FailedRuns \subseteq FailedRuns'
  BY DEF FailedRuns, RunsGrow
<1>7. Cardinality(FailedRuns) <= Cardinality(FailedRuns')
  BY <1>1, <1>6, FS_Subset
<1>8. CASE crashes' = crashes + 1
  <2>1. Cardinality(Silent') <= crashes' + Cardinality(FailedRuns')
    <3> HIDE DEF Silent, FailedRuns
    <3> QED
      BY <1>1, <1>3, <1>4, <1>5, <1>7, <1>8
  <2> QED
    BY <2>1 DEF SilenceNeedsAFailure, Silent, FailedRuns
<1>9. CASE UNCHANGED crashes /\ Len(runs') = Len(runs) + 1 /\ runs'[Len(runs) + 1].status = "failed"
  <2> DEFINE new == Len(runs) + 1
  <2>1. new \notin FailedRuns /\ new \in FailedRuns'
    BY <1>5, <1>9 DEF FailedRuns
  <2>2. Cardinality(FailedRuns \cup {new}) = Cardinality(FailedRuns) + 1
    <3> HIDE DEF FailedRuns, new
    <3> QED
      BY <1>1, <2>1, FS_AddElement
  <2>3. Cardinality(FailedRuns \cup {new}) <= Cardinality(FailedRuns')
    <3>1. FailedRuns \cup {new} \subseteq FailedRuns'
      BY <1>6, <2>1
    <3> HIDE DEF FailedRuns, new
    <3> QED
      BY <1>1, <3>1, FS_Subset
  <2>4. Cardinality(Silent') <= crashes' + Cardinality(FailedRuns')
    <3> HIDE DEF Silent, FailedRuns, new
    <3> QED
      BY <1>1, <1>3, <1>4, <1>5, <1>9, <2>2, <2>3
  <2> QED
    BY <2>4 DEF SilenceNeedsAFailure, Silent, FailedRuns
<1> QED
  BY <1>8, <1>9

-----------------------------------------------------------------------------
(* The steps of handlers and commands.                                       *)

\* Others stay as they are, and the one that moves keeps its message.
LEMMA QuietStep ==
    ASSUME ConvInv, NEW h \in Handlers, UNCHANGED <<messages, crashes>>, used' \in 0..MaxMessages,
           ConversationsGrow, RunsGrow, RunsFit', hands' \in [Handlers -> Hands],
           \A g \in Handlers : g # h => hands'[g] = hands[g],
           hands'[h].message = hands[h].message, HandFits(hands[h])',
           hands'[h].at = "idle" => hands'[h] = Idle,
           hands'[h].at # "idle" => hands'[h].user \in Serves(h)
    PROVE  ConvInv'
<1>0. /\ ConversationsTyped /\ RunsFit /\ MessagesFit /\ HandsFit /\ HandsDiffer /\ SilenceNeedsAFailure
      /\ MessagesGrow
  BY SameGrow DEF ConvInv
<1>1. ConversationsTyped'
  BY <1>0 DEF ConversationsTyped, ConversationsGrow, RunsGrow
<1>2. MessagesFit'
  BY <1>0, MessagesStay
<1>3. HandsFit'
  <2>1. ASSUME NEW g \in Handlers, g # h PROVE HandFits(hands[g])'
    <3>1. hands[g] \in Hands /\ HandFits(hands[g])
      BY <1>0 DEF ConversationsTyped, HandsFit
    <3>2. \A i \in 1..Len(messages') : i \in 1..Len(messages)
      OBVIOUS
    <3>3. hands'[g] = hands[g]
      BY <2>1
    <3>4. PICK hand \in Hands : hand = hands[g]
      BY <3>1
    <3>5. HandFits(hand)
      BY <3>1, <3>4
    <3>6. HandFits(hand)'
      BY <1>0, <3>2, <3>5, HandStays
    <3> QED
      BY <3>3, <3>4, <3>6 DEF HandFits
  <2>2. ASSUME NEW g \in Handlers, g # h
        PROVE  /\ hands'[g].at = "idle" => hands'[g] = Idle
               /\ hands'[g].at # "idle" => hands'[g].user \in Serves(g)
    BY <1>0, <2>2 DEF HandsFit
  <2> QED
    BY <2>1, <2>2 DEF HandsFit
<1>4. \A g \in Handlers : hands'[g].message = hands[g].message
  OBVIOUS
<1>5. HandsDiffer'
  BY <1>0, <1>4 DEF HandsDiffer
<1>6. SilenceNeedsAFailure'
  <2>1. Silent' \subseteq Silent
    BY <1>4 DEF Silent, Answers
  <2> QED
    BY <1>0, <1>1, <2>1, SilenceSame
<1> QED
  BY <1>1, <1>2, <1>3, <1>5, <1>6 DEF ConvInv

LEMMA InvFacts ==
    ASSUME ConvInv
    PROVE  /\ ConversationsTyped /\ RunsFit /\ MessagesFit /\ HandsFit /\ HandsDiffer /\ SilenceNeedsAFailure
           /\ hands \in [Handlers -> Hands] /\ Bot \in Handlers
           /\ Len(conversations) \in Nat /\ Len(messages) \in Nat /\ Len(runs) \in Nat
           /\ used \in 0..MaxMessages /\ crashes \in 0..MaxCrashes /\ MaxMessages \in Nat /\ MaxCrashes \in Nat
           /\ UNCHANGED runs /\ ConversationsGrow => RunsGrow /\ RunsFit'
<1>1. /\ ConversationsTyped /\ RunsFit /\ MessagesFit /\ HandsFit /\ HandsDiffer /\ SilenceNeedsAFailure
  BY DEF ConvInv
<1>2. /\ hands \in [Handlers -> Hands] /\ Bot \in Handlers
      /\ Len(conversations) \in Nat /\ Len(messages) \in Nat /\ Len(runs) \in Nat
      /\ used \in 0..MaxMessages /\ crashes \in 0..MaxCrashes /\ MaxMessages \in Nat /\ MaxCrashes \in Nat
  BY <1>1, ConversationsAssumption DEF ConversationsTyped, Handlers
<1>3. ASSUME UNCHANGED runs, ConversationsGrow PROVE RunsGrow /\ RunsFit'
  <2>1. RunsGrow
    BY <1>1, <1>3, SameGrow
  <2>2. RunsFit'
    BY <1>1, <1>3 DEF RunsFit, ConversationsGrow
  <2> QED
    BY <2>1, <2>2
<1> QED
  BY <1>1, <1>2, <1>3

LEMMA PendingAreThere ==
    ASSUME ConvInv, NEW user, PendingRuns(user) # {}
    PROVE  /\ Greatest(PendingRuns(user)) \in 1..Len(runs)
           /\ BelongsTo(runs[Greatest(PendingRuns(user))], user)
           /\ runs[Greatest(PendingRuns(user))].status = "waiting_input"
<1>1. Len(runs) \in Nat /\ PendingRuns(user) \in SUBSET (1..Len(runs))
  BY InvFacts DEF PendingRuns
<1>2. Greatest(PendingRuns(user)) \in PendingRuns(user)
  BY <1>1, GreatestIsThere
<1> QED
  BY <1>2 DEF PendingRuns

LEMMA ConversationIsThere ==
    ASSUME ConvInv, NEW user, ConversationsOf(user) # {}
    PROVE  /\ Greatest(ConversationsOf(user)) \in 1..Len(conversations)
           /\ conversations[Greatest(ConversationsOf(user))] = user
<1>1. Len(conversations) \in Nat /\ ConversationsOf(user) \in SUBSET (1..Len(conversations))
  BY InvFacts DEF ConversationsOf
<1>2. Greatest(ConversationsOf(user)) \in ConversationsOf(user)
  BY <1>1, GreatestIsThere
<1> QED
  BY <1>2 DEF ConversationsOf

LEMMA HandMoves ==
    ASSUME ConvInv, NEW h \in Handlers, NEW hand \in Hands, hands' = [hands EXCEPT ![h] = hand]
    PROVE  /\ hands' \in [Handlers -> Hands] /\ hands'[h] = hand
           /\ \A g \in Handlers : g # h => hands'[g] = hands[g]
BY InvFacts

LEMMA TakeBotKeeps ==
    ASSUME ConvInv, NEW user \in Members, TakeBotMessage(user)
    PROVE  ConvInv'
<1>1. /\ ConversationsTyped /\ hands \in [Handlers -> Hands] /\ Bot \in Handlers /\ hands[Bot] = Idle
      /\ used' \in 0..MaxMessages /\ UNCHANGED <<conversations, messages, runs, crashes>>
      /\ user \in Users /\ user \in Serves(Bot)
  BY InvFacts DEF TakeBotMessage, HandsFit, Users, Serves
<1>2. ConversationsGrow /\ RunsGrow /\ RunsFit'
  BY <1>1, SameGrow, InvFacts
<1>3. /\ hands' \in [Handlers -> Hands]
      /\ \A g \in Handlers : g # Bot => hands'[g] = hands[g]
      /\ hands'[Bot].message = None /\ hands'[Bot].user = user /\ hands'[Bot].conv = None
      /\ \/ hands'[Bot].at = "finding"
         \/ hands'[Bot].at = "resuming" /\ hands'[Bot].run \in 1..Len(runs)
  <2>1. CASE PendingRuns(user) = {}
    <3> DEFINE hand == [Idle EXCEPT !.at = "finding", !.user = user]
    <3>1. hands' = [hands EXCEPT ![Bot].at = "finding", ![Bot].user = user]
      BY <2>1 DEF TakeBotMessage
    <3>2. hands' = [hands EXCEPT ![Bot] = hand]
      BY <1>1, <3>1
    <3>3. hand \in Hands /\ hand.message = None /\ hand.user = user /\ hand.conv = None /\ hand.at = "finding"
      BY <1>1 DEF Hands, Idle, None
    <3> HIDE DEF hand
    <3> QED
      BY <1>1, <3>2, <3>3, HandMoves
  <2>2. CASE PendingRuns(user) # {}
    <3> DEFINE i == Greatest(PendingRuns(user))
               hand == [Idle EXCEPT !.at = "resuming", !.user = user, !.run = i]
    <3>1. hands' = [hands EXCEPT ![Bot].at = "resuming", ![Bot].user = user, ![Bot].run = i]
      BY <2>2 DEF TakeBotMessage
    <3>2. hands' = [hands EXCEPT ![Bot] = hand]
      BY <1>1, <3>1
    <3>3. i \in 1..Len(runs) /\ i \in Nat
      BY <2>2, PendingAreThere, InvFacts
    <3> HIDE DEF i
    <3>4. hand \in Hands /\ hand.message = None /\ hand.user = user /\ hand.conv = None /\ hand.at = "resuming"
          /\ hand.run = i
      BY <1>1, <3>3 DEF Hands, Idle, None
    <3> HIDE DEF hand
    <3> QED
      BY <1>1, <3>2, <3>3, <3>4, HandMoves
  <2> QED
    BY <2>1, <2>2
<1>4. HandFits(hands[Bot])'
  BY <1>1, <1>3 DEF HandFits, Working
<1>5. hands[Bot].message = None
  BY <1>1 DEF Idle
<1> QED
  BY <1>1, <1>2, <1>3, <1>4, <1>5, QuietStep

LEMMA TakeChatKeeps ==
    ASSUME ConvInv, NEW h \in Chats, TakeChatMessage(h)
    PROVE  ConvInv'
<1>1. /\ ConversationsTyped /\ hands \in [Handlers -> Hands] /\ h \in Handlers /\ hands[h] = Idle
      /\ used' \in 0..MaxMessages /\ UNCHANGED <<conversations, messages, runs, crashes>>
      /\ Local \in Users /\ Local \in Serves(h)
  BY InvFacts, ConversationsAssumption DEF TakeChatMessage, HandsFit, Users, Serves, Handlers
<1>2. ConversationsGrow /\ RunsGrow /\ RunsFit'
  BY <1>1, SameGrow, InvFacts
<1>3. /\ hands' \in [Handlers -> Hands]
      /\ \A g \in Handlers : g # h => hands'[g] = hands[g]
      /\ hands'[h].message = None /\ hands'[h].user = Local /\ hands'[h].conv = None
      /\ hands'[h].at = "finding"
  <2> DEFINE hand == [Idle EXCEPT !.at = "finding", !.user = Local]
  <2>1. hands' = [hands EXCEPT ![h].at = "finding", ![h].user = Local]
    BY DEF TakeChatMessage
  <2>2. hands' = [hands EXCEPT ![h] = hand]
    BY <1>1, <2>1
  <2>3. hand \in Hands /\ hand.message = None /\ hand.user = Local /\ hand.conv = None /\ hand.at = "finding"
    BY <1>1 DEF Hands, Idle, None
  <2> HIDE DEF hand
  <2> QED
    BY <1>1, <2>2, <2>3, HandMoves
<1>4. HandFits(hands[h])'
  BY <1>1, <1>3 DEF HandFits, Working
<1>5. hands[h].message = None
  BY <1>1 DEF Idle
<1> QED
  BY <1>1, <1>2, <1>3, <1>4, <1>5, QuietStep

\* Commands that touch no handler.
LEMMA CommandStep ==
    ASSUME ConvInv, UNCHANGED <<messages, hands, crashes>>, used' \in 0..MaxMessages,
           ConversationsGrow, RunsGrow, RunsFit'
    PROVE  ConvInv'
<1>1. /\ ConversationsTyped /\ RunsFit /\ hands \in [Handlers -> Hands] /\ Bot \in Handlers /\ MessagesGrow
      /\ HandsFit
  BY InvFacts, SameGrow
<1>2. HandFits(hands[Bot])'
  <2>1. PICK hand \in Hands : hand = hands[Bot]
    BY <1>1
  <2>2. HandFits(hand)
    BY <1>1, <2>1 DEF HandsFit
  <2>3. \A i \in 1..Len(messages') : i \in 1..Len(messages)
    OBVIOUS
  <2>4. HandFits(hand)'
    BY <1>1, <2>2, <2>3, HandStays
  <2> QED
    BY <2>1, <2>4 DEF HandFits
<1>3. /\ hands'[Bot].at = "idle" => hands'[Bot] = Idle
      /\ hands'[Bot].at # "idle" => hands'[Bot].user \in Serves(Bot)
  BY <1>1 DEF HandsFit
<1>4. /\ hands' \in [Handlers -> Hands] /\ hands'[Bot].message = hands[Bot].message
      /\ \A g \in Handlers : g # Bot => hands'[g] = hands[g]
  BY <1>1
<1> QED
  BY <1>1, <1>2, <1>3, <1>4, QuietStep

LEMMA RunCommandKeeps ==
    ASSUME ConvInv, NEW user \in Members, RunCommand(user)
    PROVE  ConvInv'
<1>1. ConversationsTyped /\ RunsFit /\ user \in Users /\ conversations' = Append(conversations, user)
  BY InvFacts DEF RunCommand, Users
<1>2. ConversationsGrow /\ Len(conversations) + 1 \in 1..Len(conversations')
  BY <1>1, ConversationAdded
<1>3. PICK status \in Statuses : AddRun(Len(conversations) + 1, "workflow", status)
  BY DEF RunCommand
<1>4. RunsGrow /\ RunsFit'
  BY <1>1, <1>2, <1>3, RunAdded
<1>5. UNCHANGED <<messages, hands, crashes>> /\ used' \in 0..MaxMessages
  BY InvFacts DEF RunCommand
<1> QED
  BY <1>2, <1>4, <1>5, CommandStep

LEMMA AgentCommandKeeps ==
    ASSUME ConvInv, AgentCommand
    PROVE  ConvInv'
<1>1. ConversationsTyped /\ Local \in Users /\ conversations' = Append(conversations, Local)
      /\ UNCHANGED <<messages, runs, hands, crashes>> /\ used' \in 0..MaxMessages
  BY InvFacts DEF AgentCommand, Users
<1>2. ConversationsGrow
  BY <1>1, ConversationAdded
<1> QED
  BY <1>1, <1>2, InvFacts, CommandStep

LEMMA CancelKeeps ==
    ASSUME ConvInv, NEW user \in Members, CancelCommand(user)
    PROVE  ConvInv'
<1> DEFINE i == Greatest(PendingRuns(user))
           row == [runs[i] EXCEPT !.status = "cancelled", !.asked = FALSE]
<1>1. ConversationsTyped /\ RunsFit /\ runs \in Seq(RunRows)
  BY InvFacts DEF ConversationsTyped
<1>2. i \in 1..Len(runs) /\ runs[i].status = "waiting_input"
  BY PendingAreThere DEF CancelCommand
<1>3. runs' = [runs EXCEPT ![i] = row] /\ UNCHANGED <<conversations, messages, hands, used, crashes>>
  BY DEF CancelCommand
<1> HIDE DEF i
<1>4. runs[i] \in RunRows
  BY <1>1, <1>2
<1>5. row \in RunRows /\ row.conv = runs[i].conv /\ ~row.asked /\ row.answered = runs[i].answered
  BY <1>4 DEF RunRows
<1> HIDE DEF row
<1>6. RunsGrow /\ RunsFit'
  BY <1>1, <1>2, <1>3, <1>5, RunChanged
<1> QED
  BY <1>1, <1>3, <1>6, SameGrow, InvFacts, CommandStep

\* An answer by the run's user or by the operator.
LEMMA ResumedKeeps ==
    ASSUME ConvInv, UNCHANGED conversations, NEW i \in 1..Len(runs), NEW by \in Users,
           by = Local \/ BelongsTo(runs[i], by), runs[i].asked, Resumed(i, by)
    PROVE  RunsGrow /\ RunsFit'
<1>1. ConversationsTyped /\ RunsFit /\ runs \in Seq(RunRows)
  BY InvFacts DEF ConversationsTyped
<1>2. runs[i] \in RunRows /\ runs[i].status # "failed"
  BY <1>1 DEF RunsFit
<1>3. PICK status \in Statuses, asked \in BOOLEAN :
        /\ runs' = [runs EXCEPT ![i] = [@ EXCEPT !.status = status, !.asked = asked, !.answered = by]]
        /\ asked => status = "waiting_input"
  BY DEF Resumed, Statuses
<1> DEFINE row == [runs[i] EXCEPT !.status = status, !.asked = asked, !.answered = by]
<1>4. row \in RunRows /\ row.conv = runs[i].conv /\ row.answered = by /\ (row.asked => row.status = "waiting_input")
  BY <1>2, <1>3 DEF RunRows
<1>5. runs' = [runs EXCEPT ![i] = row]
  BY <1>3
<1> HIDE DEF row
<1> QED
  BY <1>1, <1>2, <1>4, <1>5, RunChanged DEF BelongsTo

LEMMA ResumeCommandKeeps ==
    ASSUME ConvInv, NEW i \in 1..Len(runs), ResumeCommand(i)
    PROVE  ConvInv'
<1>1. Local \in Users /\ runs[i].asked /\ Resumed(i, Local)
      /\ UNCHANGED <<conversations, messages, hands, used, crashes>>
  BY DEF ResumeCommand, Users
<1>2. RunsGrow /\ RunsFit'
  BY <1>1, ResumedKeeps
<1> QED
  BY <1>1, <1>2, SameGrow, InvFacts, CommandStep

\* A handler that ends without a message in hand.
LEMMA EndsQuietly ==
    ASSUME ConvInv, NEW h \in Handlers, Ends(h), hands[h].message = None, UNCHANGED <<conversations, messages, used, crashes>>,
           RunsGrow, RunsFit'
    PROVE  ConvInv'
<1>1. ConversationsTyped /\ hands \in [Handlers -> Hands] /\ used' \in 0..MaxMessages
  BY InvFacts
<1>2. ConversationsGrow
  BY <1>1, SameGrow
<1>3. /\ hands' \in [Handlers -> Hands] /\ hands'[h] = Idle
      /\ \A g \in Handlers : g # h => hands'[g] = hands[g]
  <2>1. Idle \in Hands
    BY DEF Idle, Hands, None
  <2> QED
    BY <1>1, <2>1 DEF Ends
<1>4. HandFits(hands[h])' /\ hands'[h].message = None /\ hands'[h].at = "idle"
  BY <1>3 DEF HandFits, Idle, Working
<1> QED
  BY <1>1, <1>2, <1>3, <1>4, QuietStep

LEMMA ResumePendingKeeps ==
    ASSUME ConvInv, ResumePending
    PROVE  ConvInv'
<1> DEFINE i == hands[Bot].run
<1>1. /\ Bot \in Handlers /\ hands[Bot].message = None /\ i \in 1..Len(runs) /\ hands[Bot].user \in Users
      /\ Ends(Bot) /\ UNCHANGED <<conversations, messages, used, crashes>>
  BY InvFacts DEF ResumePending, HandsFit, HandFits, Working, Serves, Users
<1>2. RunsGrow /\ RunsFit'
  <2>1. CASE runs' = runs
    BY <1>1, <2>1, InvFacts, SameGrow
  <2>2. CASE runs[i].asked /\ BelongsTo(runs[i], hands[Bot].user) /\ Resumed(i, hands[Bot].user)
    BY <1>1, <2>2, ResumedKeeps
  <2> QED
    BY <2>1, <2>2 DEF ResumePending
<1> QED
  BY <1>1, <1>2, EndsQuietly

LEMMA RaiseKeeps ==
    ASSUME ConvInv, NEW h \in Handlers, RaiseAmbiguous(h)
    PROVE  ConvInv'
<1>1. /\ hands[h].message = None /\ Ends(h) /\ UNCHANGED <<conversations, messages, runs, used, crashes>>
  BY InvFacts DEF RaiseAmbiguous, HandsFit, HandFits, Working
<1> QED
  BY <1>1, InvFacts, SameGrow, EndsQuietly

LEMMA FindKeeps ==
    ASSUME ConvInv, NEW h \in Handlers, FindConversation(h)
    PROVE  ConvInv'
<1> DEFINE user == hands[h].user
<1>1. /\ ConversationsTyped /\ hands \in [Handlers -> Hands] /\ hands[h] \in Hands /\ used' \in 0..MaxMessages
      /\ hands[h].message = None /\ user \in Serves(h) /\ hands[h].at = "finding"
      /\ UNCHANGED <<conversations, messages, runs, crashes>> /\ Len(conversations) \in Nat
  BY InvFacts DEF FindConversation, HandsFit, HandFits, Working
<1>2. ConversationsGrow /\ RunsGrow /\ RunsFit'
  BY <1>1, SameGrow, InvFacts
<1>3. PICK conv \in Nat :
        /\ conv = None \/ (conv \in 1..Len(conversations) /\ conversations[conv] = user)
        /\ \/ hands' = [hands EXCEPT ![h].at = "ambiguous"]
           \/ hands' = [hands EXCEPT ![h].at = "receiving", ![h].conv = conv]
  <2>1. CASE ConversationsOf(user) = {}
    BY <2>1 DEF FindConversation, None
  <2>2. CASE ConversationsOf(user) # {}
    <3>1. /\ Greatest(ConversationsOf(user)) \in 1..Len(conversations)
          /\ conversations[Greatest(ConversationsOf(user))] = user
          /\ Greatest(ConversationsOf(user)) \in Nat
      BY <1>1, <2>2, ConversationIsThere
    <3> QED
      BY <2>2, <3>1 DEF FindConversation
  <2> QED
    BY <2>1, <2>2
<1>4. /\ hands' \in [Handlers -> Hands]
      /\ \A g \in Handlers : g # h => hands'[g] = hands[g]
      /\ hands'[h].message = None /\ hands'[h].user = user
      /\ \/ hands'[h].at = "ambiguous"
         \/ hands'[h].at = "receiving" /\ hands'[h].conv = conv
  <2>1. CASE hands' = [hands EXCEPT ![h].at = "ambiguous"]
    <3> DEFINE hand == [hands[h] EXCEPT !.at = "ambiguous"]
    <3>1. hand \in Hands /\ hand.message = None /\ hand.user = user /\ hand.at = "ambiguous"
      BY <1>1 DEF Hands
    <3>2. hands' = [hands EXCEPT ![h] = hand]
      BY <2>1
    <3> HIDE DEF hand
    <3> QED
      BY <3>1, <3>2, HandMoves
  <2>2. CASE hands' = [hands EXCEPT ![h].at = "receiving", ![h].conv = conv]
    <3> DEFINE hand == [hands[h] EXCEPT !.at = "receiving", !.conv = conv]
    <3>1. hand \in Hands /\ hand.message = None /\ hand.user = user /\ hand.at = "receiving" /\ hand.conv = conv
      BY <1>1 DEF Hands
    <3>2. hands' = [hands EXCEPT ![h] = hand]
      BY <2>2, <1>1
    <3> HIDE DEF hand
    <3> QED
      BY <3>1, <3>2, HandMoves
  <2> QED
    BY <1>3, <2>1, <2>2
<1>5. HandFits(hands[h])'
  BY <1>1, <1>3, <1>4 DEF HandFits, Working
<1> QED
  BY <1>1, <1>2, <1>4, <1>5, QuietStep

\* A handler at work makes a run, and goes on or answers with it.
LEMMA WorkKeeps ==
    ASSUME ConvInv, NEW h \in Handlers, hands[h].at \in Working, UNCHANGED <<messages, used, crashes>>,
           ConversationsGrow, NEW conv \in 1..Len(conversations'), conversations'[conv] = hands[h].user,
           NEW kind \in {"workflow", "intent", "tool"}, NEW status \in Statuses \cup {"blocked"},
           AddRun(conv, kind, status), NEW hand \in Hands, hands' = [hands EXCEPT ![h] = hand],
           hand.at \in {"agent", "answering"}, hand.user = hands[h].user, hand.conv = hands[h].conv,
           hand.message = hands[h].message, hand.run = Len(runs) + 1
    PROVE  ConvInv'
<1>1. /\ ConversationsTyped /\ RunsFit /\ hands[h] \in Hands /\ HandFits(hands[h]) /\ used' \in 0..MaxMessages
      /\ hands[h].user \in Serves(h) /\ MessagesGrow
  BY InvFacts, SameGrow DEF HandsFit, Working
<1>2. /\ RunsGrow /\ RunsFit' /\ Len(runs) + 1 \in 1..Len(runs') /\ runs'[Len(runs) + 1].conv = conv
  BY <1>1, RunAdded
<1>3. /\ hands' \in [Handlers -> Hands] /\ hands'[h] = hand
      /\ \A g \in Handlers : g # h => hands'[g] = hands[g]
  BY HandMoves
<1>4. HandFits(hands[h])'
  <2>1. /\ hand.message \in 1..Len(messages) /\ messages[hand.message].of = None
        /\ \A j \in 1..Len(messages) : messages[j].of # hand.message
        /\ messages[hand.message].conv = hand.conv
        /\ hand.conv \in 1..Len(conversations) /\ conversations[hand.conv] = hand.user
    BY <1>1 DEF HandFits
  <2>2. hand.conv \in 1..Len(conversations') /\ conversations'[hand.conv] = hand.user
    BY <2>1 DEF ConversationsGrow
  <2> QED
    BY <1>2, <1>3, <2>1, <2>2 DEF HandFits, Working
<1> QED
  BY <1>1, <1>2, <1>3, <1>4, QuietStep

\* A handler gives its message up, killed or with a run that failed.
LEMMA GivingUpKeeps ==
    ASSUME ConvInv, NEW h \in Handlers, Ends(h), UNCHANGED <<conversations, messages, used>>,
           RunsGrow, RunsFit', crashes' \in 0..MaxCrashes,
           \/ crashes' = crashes + 1
           \/ UNCHANGED crashes /\ Len(runs') = Len(runs) + 1 /\ runs'[Len(runs) + 1].status = "failed"
    PROVE  ConvInv'
<1>0. /\ ConversationsTyped /\ RunsFit /\ MessagesFit /\ HandsFit /\ HandsDiffer /\ SilenceNeedsAFailure
  BY InvFacts
<1>1. ConversationsGrow /\ MessagesGrow
  BY <1>0, SameGrow
<1>2. Idle \in Hands /\ Idle.message = None /\ Idle.at = "idle" /\ Idle.conv = None
  BY DEF Idle, Hands, None
<1>3. /\ hands' \in [Handlers -> Hands] /\ hands'[h] = Idle
      /\ \A g \in Handlers : g # h => hands'[g] = hands[g]
  BY <1>2, HandMoves DEF Ends
<1>4. ConversationsTyped'
  BY <1>0, <1>1, <1>3 DEF ConversationsTyped, ConversationsGrow, RunsGrow
<1>5. MessagesFit'
  BY <1>0, <1>1, MessagesStay
<1>6. HandsFit'
  <2>1. ASSUME NEW g \in Handlers, g # h PROVE HandFits(hands[g])'
    <3>1. PICK hand \in Hands : hand = hands[g]
      BY <1>0 DEF ConversationsTyped
    <3>2. HandFits(hand)
      BY <1>0, <3>1 DEF HandsFit
    <3>3. \A i \in 1..Len(messages') : i \in 1..Len(messages)
      OBVIOUS
    <3>4. HandFits(hand)'
      BY <1>0, <1>1, <3>2, <3>3, HandStays
    <3> QED
      BY <1>3, <2>1, <3>1, <3>4 DEF HandFits
  <2>2. HandFits(hands[h])'
    BY <1>2, <1>3 DEF HandFits, Working
  <2>3. ASSUME NEW g \in Handlers
        PROVE  /\ hands'[g].at = "idle" => hands'[g] = Idle
               /\ hands'[g].at # "idle" => hands'[g].user \in Serves(g)
    BY <1>0, <1>2, <1>3 DEF HandsFit
  <2> QED
    BY <2>1, <2>2, <2>3 DEF HandsFit
<1>7. HandsDiffer'
  BY <1>0, <1>2, <1>3 DEF HandsDiffer
<1>8. SilenceNeedsAFailure'
  <2>1. Silent' \subseteq Silent \cup {hands[h].message}
    BY <1>3 DEF Silent, Answers
  <2> QED
    BY <1>0, <1>4, <2>1, SilenceCaused
<1> QED
  BY <1>4, <1>5, <1>6, <1>7, <1>8 DEF ConvInv

LEMMA CrashKeeps ==
    ASSUME ConvInv, NEW h \in Handlers, CrashHandler(h)
    PROVE  ConvInv'
<1>1. /\ Ends(h) /\ UNCHANGED <<conversations, messages, runs, used>> /\ crashes' = crashes + 1
      /\ crashes' \in 0..MaxCrashes
  BY InvFacts DEF CrashHandler
<1>2. RunsGrow /\ RunsFit'
  BY <1>1, InvFacts, SameGrow
<1> QED
  BY <1>1, <1>2, GivingUpKeeps

LEMMA ChatKeeps ==
    ASSUME ConvInv, NEW h \in Handlers, NEW status \in {"completed", "failed"}, RunChat(h, status)
    PROVE  ConvInv'
<1>1. /\ ConversationsTyped /\ RunsFit /\ hands[h] \in Hands /\ hands[h].at \in Working
      /\ hands[h].conv \in 1..Len(conversations) /\ conversations[hands[h].conv] = hands[h].user
      /\ Len(runs) \in Nat /\ status \in Statuses \cup {"blocked"}
  BY InvFacts DEF RunChat, HandsFit, HandFits, Working, Statuses
<1>2. AddRun(hands[h].conv, "workflow", status) /\ UNCHANGED <<conversations, messages, used, crashes>>
  BY DEF RunChat
<1>3. ConversationsGrow
  BY <1>1, <1>2, SameGrow
<1>4. CASE status = "failed"
  <2>1. RunsGrow /\ RunsFit' /\ Len(runs') = Len(runs) + 1 /\ runs'[Len(runs) + 1].status = "failed"
    BY <1>1, <1>2, <1>3, <1>4, RunAdded
  <2>2. Ends(h) /\ crashes' \in 0..MaxCrashes
    BY <1>4, InvFacts DEF RunChat
  <2> QED
    BY <1>2, <2>1, <2>2, GivingUpKeeps
<1>5. CASE status # "failed"
  <2> DEFINE hand == [hands[h] EXCEPT !.at = "answering", !.run = Len(runs) + 1]
  <2>1. Answering(h)
    BY <1>5 DEF RunChat
  <2>2. hands' = [hands EXCEPT ![h] = hand]
    BY <2>1 DEF Answering
  <2>3. /\ hand \in Hands /\ hand.at = "answering" /\ hand.user = hands[h].user /\ hand.conv = hands[h].conv
        /\ hand.message = hands[h].message /\ hand.run = Len(runs) + 1
    <3>1. PICK old \in Hands : old = hands[h]
      BY <1>1
    <3>2. PICK n \in Nat : n = Len(runs) + 1
      BY <1>1
    <3> DEFINE next == [old EXCEPT !.at = "answering", !.run = n]
    <3>3. /\ next \in Hands /\ next.at = "answering" /\ next.user = old.user /\ next.conv = old.conv
          /\ next.message = old.message /\ next.run = n
      BY DEF Hands, Working
    <3>4. hand = next
      BY <3>1, <3>2
    <3> HIDE DEF next, hand
    <3> QED
      BY <3>1, <3>2, <3>3, <3>4
  <2> HIDE DEF hand
  <2> QED
    BY <1>1, <1>2, <1>3, <2>2, <2>3, WorkKeeps
<1> QED
  BY <1>4, <1>5

LEMMA GateKeeps ==
    ASSUME ConvInv, NEW h \in Handlers, NEW status \in {"waiting_input", "blocked"}, GateAgentRun(h, status)
    PROVE  ConvInv'
<1> DEFINE hand == [hands[h] EXCEPT !.at = "answering", !.run = Len(runs) + 1]
<1>1. /\ ConversationsTyped /\ RunsFit /\ hands[h] \in Hands /\ hands[h].at \in Working
      /\ hands[h].conv \in 1..Len(conversations) /\ conversations[hands[h].conv] = hands[h].user
      /\ Len(runs) \in Nat /\ status \in Statuses \cup {"blocked"}
  BY InvFacts DEF GateAgentRun, HandsFit, HandFits, Working, Statuses
<1>2. AddRun(hands[h].conv, "intent", status) /\ UNCHANGED <<conversations, messages, used, crashes>>
  BY DEF GateAgentRun
<1>3. ConversationsGrow
  BY <1>1, <1>2, SameGrow
<1>4. hands' = [hands EXCEPT ![h] = hand]
  BY DEF GateAgentRun, Answering
<1>5. /\ hand \in Hands /\ hand.at = "answering" /\ hand.user = hands[h].user /\ hand.conv = hands[h].conv
      /\ hand.message = hands[h].message /\ hand.run = Len(runs) + 1
  <2>1. PICK old \in Hands : old = hands[h]
    BY <1>1
  <2>2. PICK n \in Nat : n = Len(runs) + 1
    BY <1>1
  <2> DEFINE next == [old EXCEPT !.at = "answering", !.run = n]
  <2>3. /\ next \in Hands /\ next.at = "answering" /\ next.user = old.user /\ next.conv = old.conv
        /\ next.message = old.message /\ next.run = n
    BY DEF Hands, Working
  <2>4. hand = next
    BY <2>1, <2>2
  <2> HIDE DEF next, hand
  <2> QED
    BY <2>1, <2>2, <2>3, <2>4
<1> HIDE DEF hand
<1> QED
  BY <1>1, <1>2, <1>3, <1>4, <1>5, WorkKeeps

LEMMA ActionKeeps ==
    ASSUME ConvInv, NEW h \in Handlers, NEW tool \in BOOLEAN, NEW status \in {"completed", "failed"},
           AgentAction(h, tool, status)
    PROVE  ConvInv'
<1> DEFINE conv == IF tool THEN Len(conversations) + 1 ELSE hands[h].conv
           more == status = "failed" /\ hands[h].actions < MaxActions
           goes == IF more THEN "agent" ELSE "answering"
           kind == IF tool THEN "tool" ELSE "workflow"
           hand == [hands[h] EXCEPT !.at = goes, !.run = Len(runs) + 1, !.actions = hands[h].actions + 1]
<1>1. /\ ConversationsTyped /\ RunsFit /\ hands[h] \in Hands /\ hands[h].at \in Working
      /\ hands[h].conv \in 1..Len(conversations) /\ conversations[hands[h].conv] = hands[h].user
      /\ hands[h].user \in Users
      /\ Len(runs) \in Nat /\ status \in Statuses \cup {"blocked"}
  BY InvFacts DEF AgentAction, HandsFit, HandFits, Working, Statuses, Serves, Users
<1>2. /\ conversations' = IF tool THEN Append(conversations, hands[h].user) ELSE conversations
      /\ AddRun(conv, kind, status) /\ UNCHANGED <<messages, used, crashes>>
      /\ hands' = [hands EXCEPT ![h].at = goes, ![h].run = Len(runs) + 1, ![h].actions = @ + 1]
  BY DEF AgentAction
<1>3. ConversationsGrow /\ conv \in 1..Len(conversations') /\ conversations'[conv] = hands[h].user
  <2>1. CASE tool
    BY <1>1, <1>2, <2>1, ConversationAdded
  <2>2. CASE ~tool
    BY <1>1, <1>2, <2>2, SameGrow
  <2> QED
    BY <2>1, <2>2
<1>4. hands' = [hands EXCEPT ![h] = hand]
  BY <1>2
<1>5. /\ hand \in Hands /\ hand.at \in {"agent", "answering"} /\ hand.user = hands[h].user
      /\ hand.conv = hands[h].conv /\ hand.message = hands[h].message /\ hand.run = Len(runs) + 1
  <2>1. goes \in {"agent", "answering"}
    OBVIOUS
  <2>2. PICK old \in Hands : old = hands[h]
    BY <1>1
  <2>3. PICK n \in Nat : n = Len(runs) + 1
    BY <1>1
  <2>4. PICK at \in {"agent", "answering"} : at = goes
    BY <2>1
  <2>5. PICK actions \in Nat : actions = hands[h].actions + 1
    BY <2>2 DEF Hands
  <2> DEFINE next == [old EXCEPT !.at = at, !.run = n, !.actions = actions]
  <2>6. /\ next \in Hands /\ next.at = at /\ next.user = old.user /\ next.conv = old.conv
        /\ next.message = old.message /\ next.run = n
    BY DEF Hands, Working
  <2> HIDE DEF goes
  <2>7. hand = next
    BY <2>2, <2>3, <2>4, <2>5
  <2> HIDE DEF next, hand
  <2> QED
    BY <2>2, <2>3, <2>4, <2>6, <2>7
<1>6. kind \in {"workflow", "intent", "tool"}
  OBVIOUS
<1>7. AddRun(conv, kind, status) /\ UNCHANGED <<messages, used, crashes>>
  BY <1>2
<1> HIDE DEF hand, conv, kind, goes, more
<1> QED
  BY <1>1, <1>3, <1>4, <1>5, <1>6, <1>7, WorkKeeps

LEMMA ReceiveKeeps ==
    ASSUME ConvInv, NEW h \in Handlers, NEW route \in {"chat", "agent", "gate"}, ReceiveMessage(h, route)
    PROVE  ConvInv'
<1> DEFINE new == hands[h].conv = None
           conv == IF new THEN Len(conversations) + 1 ELSE hands[h].conv
           m == Len(messages) + 1
           row == Message(conv, None, None)
           hand == [hands[h] EXCEPT !.at = route, !.conv = conv, !.message = m]
<1>0. /\ ConversationsTyped /\ RunsFit /\ MessagesFit /\ HandsFit /\ HandsDiffer /\ SilenceNeedsAFailure
      /\ hands[h] \in Hands /\ hands[h].user \in Users /\ hands[h].user \in Serves(h)
      /\ hands[h].message = None /\ hands \in [Handlers -> Hands]
      /\ Len(conversations) \in Nat /\ Len(messages) \in Nat /\ Len(runs) \in Nat
      /\ used \in 0..MaxMessages /\ crashes \in 0..MaxCrashes
  BY InvFacts DEF ReceiveMessage, HandsFit, HandFits, Working, Serves, Users
<1>1. /\ conversations' = IF new THEN Append(conversations, hands[h].user) ELSE conversations
      /\ messages' = Append(messages, row)
      /\ hands' = [hands EXCEPT ![h].at = route, ![h].conv = conv, ![h].message = m]
      /\ UNCHANGED <<runs, used, crashes>>
      /\ hands[h].at = "receiving"
  BY DEF ReceiveMessage
<1>2. ConversationsGrow /\ conv \in 1..Len(conversations') /\ conversations'[conv] = hands[h].user /\ conv \in Nat
  <2>1. CASE new
    BY <1>0, <1>1, <2>1, ConversationAdded
  <2>2. CASE ~new
    <3>1. conv \in 1..Len(conversations) /\ conversations[conv] = hands[h].user
      BY <1>0, <1>1, <2>2 DEF HandsFit, HandFits
    <3> QED
      BY <1>0, <1>1, <2>2, <3>1, SameGrow
  <2> QED
    BY <2>1, <2>2
<1> HIDE DEF conv
<1>3. row \in MessageRows /\ row.conv = conv /\ row.of = None /\ row.run = None
  BY <1>2 DEF Message, MessageRows, None
<1>4. hand \in Hands /\ hand.at = route /\ hand.conv = conv /\ hand.message = m /\ hand.user = hands[h].user
  <2>1. PICK old \in Hands : old = hands[h]
    BY <1>0
  <2>2. PICK n \in Nat : n = m
    BY <1>0
  <2>3. PICK c \in Nat : c = conv
    BY <1>2
  <2> DEFINE next == [old EXCEPT !.at = route, !.conv = c, !.message = n]
  <2>4. next \in Hands /\ next.at = route /\ next.conv = c /\ next.message = n /\ next.user = old.user
    BY DEF Hands, Working
  <2> HIDE DEF m
  <2>5. hand = next
    BY <2>1, <2>2, <2>3
  <2> HIDE DEF next, hand
  <2> QED
    BY <2>1, <2>2, <2>3, <2>4, <2>5
<1>5. hands' = [hands EXCEPT ![h] = hand]
  BY <1>1
<1> HIDE DEF hand, row
<1>6. /\ hands' \in [Handlers -> Hands] /\ hands'[h] = hand
      /\ \A g \in Handlers : g # h => hands'[g] = hands[g]
  BY <1>4, <1>5, HandMoves
<1>7. /\ MessagesGrow /\ Len(messages') = m /\ messages'[m] = row /\ m \in 1..Len(messages')
      /\ \A i \in 1..Len(messages') : i \in 1..Len(messages) \/ i = m
  BY <1>0, <1>1, <1>3, MessageAdded
<1>8. RunsGrow /\ RunsFit'
  BY <1>1, <1>2, InvFacts
<1>9. ConversationsTyped'
  BY <1>0, <1>1, <1>2, <1>6, <1>7, <1>8 DEF ConversationsTyped, ConversationsGrow, MessagesGrow, RunsGrow
<1>10. \A i \in 1..Len(messages') : messages'[i].of \in 0..(i - 1) /\ messages'[i].of # m
  BY <1>0, <1>3, <1>7 DEF MessagesFit, MessagesGrow, None
<1>11. MessagesFit'
  <2> SUFFICES ASSUME NEW i \in 1..Len(messages')
               PROVE  /\ messages'[i].conv \in 1..Len(conversations')
                      /\ messages'[i].of \in 0..(i - 1)
                      /\ messages'[i].run \in 0..Len(runs')
                      /\ messages'[i].of # None =>
                           /\ messages'[i].run \in 1..Len(runs')
                           /\ messages'[messages'[i].of].conv = messages'[i].conv
                           /\ conversations'[runs'[messages'[i].run].conv] = conversations'[messages'[i].conv]
                           /\ \A k \in 1..Len(messages') : messages'[k].of = messages'[i].of => k = i
    BY DEF MessagesFit
  <2>1. CASE i = m
    BY <1>0, <1>1, <1>2, <1>3, <1>7, <2>1 DEF None
  <2>2. CASE i \in 1..Len(messages)
    <3>1. messages'[i] = messages[i]
      BY <1>7, <2>2 DEF MessagesGrow
    <3>2. /\ messages[i].conv \in 1..Len(conversations) /\ messages[i].of \in 0..(i - 1)
          /\ messages[i].run \in 0..Len(runs)
      BY <1>0, <2>2 DEF MessagesFit
    <3>3. messages[i].conv \in 1..Len(conversations') /\ messages[i].run \in 0..Len(runs')
      BY <1>1, <1>2, <3>2 DEF ConversationsGrow
    <3>4. ASSUME messages[i].of # None
          PROVE  /\ messages[i].run \in 1..Len(runs')
                 /\ messages'[messages[i].of].conv = messages[i].conv
                 /\ conversations'[runs'[messages[i].run].conv] = conversations'[messages[i].conv]
                 /\ \A k \in 1..Len(messages') : messages'[k].of = messages[i].of => k = i
      <4>1. /\ messages[i].run \in 1..Len(runs)
            /\ messages[messages[i].of].conv = messages[i].conv
            /\ conversations[runs[messages[i].run].conv] = conversations[messages[i].conv]
            /\ \A k \in 1..Len(messages) : messages[k].of = messages[i].of => k = i
        BY <1>0, <2>2, <3>4 DEF MessagesFit
      <4>2. messages[i].of \in 1..Len(messages)
        BY <1>0, <2>2, <3>2, <3>4 DEF None
      <4>3. messages'[messages[i].of].conv = messages[i].conv
        BY <1>7, <4>1, <4>2 DEF MessagesGrow
      <4>4. runs[messages[i].run].conv \in 1..Len(conversations)
        BY <1>0, <4>1 DEF RunsFit
      <4>5. conversations'[runs'[messages[i].run].conv] = conversations'[messages[i].conv]
        BY <1>1, <1>2, <3>2, <4>1, <4>4 DEF ConversationsGrow
      <4>6. \A k \in 1..Len(messages') : messages'[k].of = messages[i].of => k = i
        BY <1>3, <1>7, <3>4, <4>1 DEF MessagesGrow
      <4> QED
        BY <1>1, <4>1, <4>3, <4>5, <4>6
    <3> QED
      BY <3>1, <3>2, <3>3, <3>4
  <2> QED
    BY <1>7, <2>1, <2>2
<1>12. HandFits(hands[h])'
  BY <1>2, <1>3, <1>4, <1>6, <1>7, <1>10 DEF HandFits, Working
<1>13. HandsFit'
  <2>1. ASSUME NEW g \in Handlers, g # h PROVE HandFits(hands[g])'
    <3>1. PICK hand1 \in Hands : hand1 = hands[g]
      BY <1>0
    <3>2. HandFits(hand1)
      BY <1>0, <3>1 DEF HandsFit
    <3>3. \A i \in 1..Len(messages') : i \in 1..Len(messages) \/ messages'[i].of # hand1.message
                                        \/ hand1.message = None
      BY <1>3, <1>7
    <3>4. HandFits(hand1)'
      BY <1>0, <1>2, <1>7, <1>8, <3>2, <3>3, HandStays
    <3> QED
      BY <1>6, <2>1, <3>1, <3>4 DEF HandFits
  <2>2. ASSUME NEW g \in Handlers
        PROVE  /\ hands'[g].at = "idle" => hands'[g] = Idle
               /\ hands'[g].at # "idle" => hands'[g].user \in Serves(g)
    BY <1>0, <1>4, <1>6 DEF HandsFit
  <2> QED
    BY <1>12, <2>1, <2>2 DEF HandsFit
<1>14. HandsDiffer'
  <2>1. \A g \in Handlers : hands[g].message # m
    BY <1>0 DEF HandsFit, HandFits, None
  <2> QED
    BY <1>0, <1>4, <1>6, <2>1 DEF HandsDiffer
<1>15. SilenceNeedsAFailure'
  <2>1. Silent' \subseteq Silent
    <3> SUFFICES ASSUME NEW i \in Silent' PROVE i \in Silent
      OBVIOUS
    <3>1. /\ i \in 1..Len(messages') /\ messages'[i].of = None /\ \A g \in Handlers : hands'[g].message # i
          /\ \A j \in 1..Len(messages') : messages'[j].of # i
      BY DEF Silent, Answers
    <3>2. i \in 1..Len(messages)
      BY <1>4, <1>6, <1>7, <3>1
    <3>3. /\ messages[i].of = None /\ \A j \in 1..Len(messages) : messages[j].of # i
      BY <1>7, <3>1, <3>2 DEF MessagesGrow
    <3>4. \A g \in Handlers : hands[g].message # i
      BY <1>0, <1>6, <3>1, <3>2 DEF None
    <3> QED
      BY <3>2, <3>3, <3>4 DEF Silent, Answers
  <2> QED
    BY <1>0, <1>1, <1>8, <1>9, <2>1, SilenceSame
<1> QED
  BY <1>8, <1>9, <1>11, <1>13, <1>14, <1>15 DEF ConvInv

LEMMA AnswerKeeps ==
    ASSUME ConvInv, NEW h \in Handlers, AnswerMessage(h)
    PROVE  ConvInv'
<1> DEFINE q == hands[h].message
           m == Len(messages) + 1
           row == Message(hands[h].conv, q, hands[h].run)
<1>0. /\ ConversationsTyped /\ RunsFit /\ MessagesFit /\ HandsFit /\ HandsDiffer /\ SilenceNeedsAFailure
      /\ hands[h] \in Hands /\ hands \in [Handlers -> Hands]
      /\ Len(conversations) \in Nat /\ Len(messages) \in Nat /\ Len(runs) \in Nat
      /\ used \in 0..MaxMessages /\ crashes \in 0..MaxCrashes
  BY InvFacts
<1>1. /\ messages' = Append(messages, row) /\ Ends(h)
      /\ UNCHANGED <<conversations, runs, used, crashes>> /\ hands[h].at = "answering"
  BY DEF AnswerMessage
<1>2. /\ q \in 1..Len(messages) /\ messages[q].of = None /\ q # None
      /\ \A j \in 1..Len(messages) : messages[j].of # q
      /\ messages[q].conv = hands[h].conv
      /\ hands[h].conv \in 1..Len(conversations) /\ conversations[hands[h].conv] = hands[h].user
      /\ hands[h].run \in 1..Len(runs) /\ conversations[runs[hands[h].run].conv] = hands[h].user
  BY <1>0, <1>1 DEF HandsFit, HandFits, Working, None
<1>3. row \in MessageRows /\ row.conv = hands[h].conv /\ row.of = q /\ row.run = hands[h].run
  BY <1>0, <1>2 DEF Message, MessageRows, None
<1> HIDE DEF row
<1>4. /\ hands' \in [Handlers -> Hands] /\ hands'[h] = Idle
      /\ \A g \in Handlers : g # h => hands'[g] = hands[g]
      /\ Idle.message = None /\ Idle.at = "idle"
  <2>1. Idle \in Hands /\ Idle.message = None /\ Idle.at = "idle"
    BY DEF Idle, Hands, None
  <2> QED
    BY <1>1, <2>1, HandMoves DEF Ends
<1>5. /\ MessagesGrow /\ Len(messages') = m /\ messages'[m] = row /\ m \in 1..Len(messages')
      /\ \A i \in 1..Len(messages') : i \in 1..Len(messages) \/ i = m
  BY <1>0, <1>1, <1>3, MessageAdded
<1>6. ConversationsGrow /\ RunsGrow /\ RunsFit'
  BY <1>0, <1>1, SameGrow, InvFacts
<1>7. ConversationsTyped'
  BY <1>0, <1>1, <1>4, <1>5, <1>6 DEF ConversationsTyped, ConversationsGrow, MessagesGrow, RunsGrow
<1>8. MessagesFit'
  <2> SUFFICES ASSUME NEW i \in 1..Len(messages')
               PROVE  /\ messages'[i].conv \in 1..Len(conversations)
                      /\ messages'[i].of \in 0..(i - 1)
                      /\ messages'[i].run \in 0..Len(runs)
                      /\ messages'[i].of # None =>
                           /\ messages'[i].run \in 1..Len(runs)
                           /\ messages'[messages'[i].of].conv = messages'[i].conv
                           /\ conversations[runs[messages'[i].run].conv] = conversations[messages'[i].conv]
                           /\ \A k \in 1..Len(messages') : messages'[k].of = messages'[i].of => k = i
    BY <1>1 DEF MessagesFit
  <2>1. CASE i = m
    <3>1. messages'[i] = row /\ q \in 0..(i - 1) /\ hands[h].run \in 0..Len(runs)
      BY <1>0, <1>2, <1>5, <2>1
    <3>2. messages'[q].conv = hands[h].conv
      BY <1>2, <1>5 DEF MessagesGrow
    <3>3. \A k \in 1..Len(messages') : messages'[k].of = q => k = i
      BY <1>2, <1>5, <2>1 DEF MessagesGrow
    <3> QED
      BY <1>2, <1>3, <3>1, <3>2, <3>3
  <2>2. CASE i \in 1..Len(messages)
    <3>1. messages'[i] = messages[i]
      BY <1>5, <2>2 DEF MessagesGrow
    <3>2. /\ messages[i].conv \in 1..Len(conversations) /\ messages[i].of \in 0..(i - 1)
          /\ messages[i].run \in 0..Len(runs)
      BY <1>0, <2>2 DEF MessagesFit
    <3>3. ASSUME messages[i].of # None
          PROVE  /\ messages[i].run \in 1..Len(runs)
                 /\ messages'[messages[i].of].conv = messages[i].conv
                 /\ conversations[runs[messages[i].run].conv] = conversations[messages[i].conv]
                 /\ \A k \in 1..Len(messages') : messages'[k].of = messages[i].of => k = i
      <4>1. /\ messages[i].run \in 1..Len(runs)
            /\ messages[messages[i].of].conv = messages[i].conv
            /\ conversations[runs[messages[i].run].conv] = conversations[messages[i].conv]
            /\ \A k \in 1..Len(messages) : messages[k].of = messages[i].of => k = i
        BY <1>0, <2>2, <3>3 DEF MessagesFit
      <4>2. messages[i].of \in 1..Len(messages)
        BY <1>0, <2>2, <3>2, <3>3 DEF None
      <4>3. messages'[messages[i].of].conv = messages[i].conv
        BY <1>5, <4>1, <4>2 DEF MessagesGrow
      <4>4. messages[i].of # q
        BY <1>2, <2>2
      <4>5. \A k \in 1..Len(messages') : messages'[k].of = messages[i].of => k = i
        BY <1>3, <1>5, <4>1, <4>4 DEF MessagesGrow
      <4> QED
        BY <4>1, <4>3, <4>5
    <3> QED
      BY <3>1, <3>2, <3>3
  <2> QED
    BY <1>5, <2>1, <2>2
<1>9. HandsFit'
  <2>1. ASSUME NEW g \in Handlers, g # h PROVE HandFits(hands[g])'
    <3>1. PICK hand \in Hands : hand = hands[g]
      BY <1>0
    <3>2. HandFits(hand)
      BY <1>0, <3>1 DEF HandsFit
    <3>3. hand.message # q
      BY <1>0, <1>2, <2>1, <3>1 DEF HandsDiffer
    <3>4. \A i \in 1..Len(messages') : i \in 1..Len(messages) \/ messages'[i].of # hand.message
                                        \/ hand.message = None
      BY <1>3, <1>5, <3>3
    <3>5. HandFits(hand)'
      BY <1>0, <1>5, <1>6, <3>2, <3>4, HandStays
    <3> QED
      BY <1>4, <2>1, <3>1, <3>5 DEF HandFits
  <2>2. HandFits(hands[h])'
    BY <1>4 DEF HandFits, Working, Idle
  <2>3. ASSUME NEW g \in Handlers
        PROVE  /\ hands'[g].at = "idle" => hands'[g] = Idle
               /\ hands'[g].at # "idle" => hands'[g].user \in Serves(g)
    BY <1>0, <1>4 DEF HandsFit
  <2> QED
    BY <2>1, <2>2, <2>3 DEF HandsFit
<1>10. HandsDiffer'
  BY <1>0, <1>4 DEF HandsDiffer
<1>11. SilenceNeedsAFailure'
  <2>1. Silent' \subseteq Silent
    <3> SUFFICES ASSUME NEW i \in Silent' PROVE i \in Silent
      OBVIOUS
    <3>1. /\ i \in 1..Len(messages') /\ messages'[i].of = None /\ \A g \in Handlers : hands'[g].message # i
          /\ \A j \in 1..Len(messages') : messages'[j].of # i
      BY DEF Silent, Answers
    <3>2. i \in 1..Len(messages)
      BY <1>2, <1>3, <1>5, <3>1
    <3>3. /\ messages[i].of = None /\ \A j \in 1..Len(messages) : messages[j].of # i
      BY <1>5, <3>1, <3>2 DEF MessagesGrow
    <3>4. i # q
      BY <1>3, <1>5, <3>1
    <3>5. \A g \in Handlers : hands[g].message # i
      BY <1>4, <3>1, <3>4
    <3> QED
      BY <3>2, <3>3, <3>5 DEF Silent, Answers
  <2> QED
    BY <1>0, <1>1, <1>6, <1>7, <2>1, SilenceSame
<1> QED
  BY <1>6, <1>7, <1>8, <1>9, <1>10, <1>11 DEF ConvInv

LEMMA ConvInvInit == ConversationsInit => ConvInv
<1> SUFFICES ASSUME ConversationsInit PROVE ConvInv
  OBVIOUS
<1>1. /\ conversations = <<>> /\ messages = <<>> /\ runs = <<>> /\ used = 0 /\ crashes = 0
      /\ 1..Len(conversations) = {} /\ 1..Len(messages) = {} /\ 1..Len(runs) = {}
  BY DEF ConversationsInit
<1>2. Idle \in Hands /\ Idle.message = None /\ Idle.at = "idle"
  BY DEF Idle, Hands, None
<1>3. hands \in [Handlers -> Hands] /\ \A h \in Handlers : hands[h] = Idle
  BY <1>2 DEF ConversationsInit
<1>4. ConversationsTyped
  BY <1>1, <1>3, ConversationsAssumption DEF ConversationsTyped
<1>5. RunsFit /\ MessagesFit
  BY <1>1 DEF RunsFit, MessagesFit
<1>6. HandsFit /\ HandsDiffer
  BY <1>2, <1>3 DEF HandsFit, HandFits, HandsDiffer, Working
<1>7. SilenceNeedsAFailure
  <2>1. Silent = {} /\ FailedRuns = {}
    BY <1>1 DEF Silent, FailedRuns
  <2>2. Cardinality(Silent) <= crashes + Cardinality(FailedRuns)
    <3> HIDE DEF Silent, FailedRuns
    <3> QED
      BY <1>1, <2>1, FS_EmptySet
  <2> QED
    BY <2>2 DEF SilenceNeedsAFailure, Silent, FailedRuns
<1> QED
  BY <1>4, <1>5, <1>6, <1>7 DEF ConvInv

LEMMA ConvInvNext == ConvInv /\ [ConversationsNext]_conversationVars => ConvInv'
<1> SUFFICES ASSUME ConvInv, [ConversationsNext]_conversationVars PROVE ConvInv'
  OBVIOUS
<1>1. CASE UNCHANGED conversationVars
  <2>1. UNCHANGED <<conversations, messages, runs, hands, used, crashes>>
    BY <1>1 DEF conversationVars
  <2>2. used' \in 0..MaxMessages /\ ConversationsGrow /\ RunsGrow /\ RunsFit'
    BY <2>1, InvFacts, SameGrow
  <2> QED
    BY <2>1, <2>2, CommandStep
<1>2. ASSUME NEW user \in Members, TakeBotMessage(user) \/ RunCommand(user) \/ CancelCommand(user) PROVE ConvInv'
  BY <1>2, TakeBotKeeps, RunCommandKeeps, CancelKeeps
<1>3. CASE ResumePending \/ AgentCommand
  BY <1>3, ResumePendingKeeps, AgentCommandKeeps
<1>4. ASSUME NEW h \in Chats, TakeChatMessage(h) PROVE ConvInv'
  BY <1>4, TakeChatKeeps
<1>5. ASSUME NEW i \in 1..Len(runs), ResumeCommand(i) PROVE ConvInv'
  BY <1>5, ResumeCommandKeeps
<1>6. ASSUME NEW h \in Handlers, HandleMessage(h) \/ CrashHandler(h) PROVE ConvInv'
  BY <1>6, FindKeeps, RaiseKeeps, ReceiveKeeps, ChatKeeps, GateKeeps, ActionKeeps, AnswerKeeps, CrashKeeps
     DEF HandleMessage
<1> QED
  BY <1>1, <1>2, <1>3, <1>4, <1>5, <1>6 DEF ConversationsNext

LEMMA ConvInvHolds == ConversationsSpec => []ConvInv
BY ConvInvInit, ConvInvNext, PTL DEF ConversationsSpec

\* Every reachable state of the conversations is typed, and rows refer to rows
\* that are there.
THEOREM ConversationsTypeCorrect == ConversationsSpec => []ConversationsTypeOK
<1>1. ASSUME ConvInv PROVE ConversationsTypeOK
  <2>1. /\ \A i \in 1..Len(conversations) : conversations[i] \in Users
        /\ used \in 0..MaxMessages /\ crashes \in 0..MaxCrashes
    BY <1>1 DEF ConvInv, ConversationsTyped
  <2>2. \A i \in 1..Len(messages) :
          messages[i].conv \in 1..Len(conversations) /\ messages[i].of \in 0..(i - 1)
          /\ messages[i].run \in 0..Len(runs)
    BY <1>1 DEF ConvInv, MessagesFit
  <2>3. \A i \in 1..Len(runs) :
          /\ runs[i].conv \in 1..Len(conversations)
          /\ runs[i].status \in Statuses \cup {"blocked", "cancelled"}
          /\ runs[i].asked => runs[i].status = "waiting_input"
    <3>1. \A i \in 1..Len(runs) : runs[i] \in RunRows
      BY <1>1 DEF ConvInv, ConversationsTyped
    <3>2. \A i \in 1..Len(runs) : runs[i].status \in Statuses \cup {"blocked", "cancelled"}
      BY <3>1 DEF RunRows
    <3> QED
      BY <1>1, <3>2 DEF ConvInv, RunsFit
  <2>4. \A h \in Handlers : hands[h].user \in Serves(h) \cup {None}
    <3>1. Idle.user = None
      BY DEF Idle
    <3> QED
      BY <1>1, <3>1 DEF ConvInv, HandsFit
  <2> QED
    BY <2>1, <2>2, <2>3, <2>4 DEF ConversationsTypeOK
<1> QED
  BY <1>1, ConvInvHolds, PTL

\* However many chats interleave with the bot, killed and overtaken at any point:
\* a message has at most one answer, in its conversation and from a run of its
\* user; it stays without one only if its handler was killed or a run failed;
\* and a question is answered by its user or by the operator.
THEOREM ConversationsAlwaysMakeSense == ConversationsSpec => []ConversationsMakeSense
<1>1. ASSUME ConvInv PROVE AnswersFollowQuestions
  <2> SUFFICES ASSUME NEW i \in 1..Len(messages), messages[i].of = None
               PROVE  /\ Cardinality(Answers(i)) <= 1
                      /\ \A j \in Answers(i) :
                           /\ messages[j].conv = messages[i].conv
                           /\ conversations[runs[messages[j].run].conv] = conversations[messages[i].conv]
    BY DEF AnswersFollowQuestions
  <2>1. i # None
    BY <1>1, InvFacts DEF None
  <2>2. \A j \in Answers(i) :
          /\ messages[j].conv = messages[i].conv
          /\ conversations[runs[messages[j].run].conv] = conversations[messages[i].conv]
          /\ \A k \in Answers(i) : k = j
    BY <1>1, <2>1 DEF ConvInv, MessagesFit, Answers
  <2>3. Cardinality(Answers(i)) <= 1
    <3>1. CASE Answers(i) = {}
      <4>1. Cardinality(Answers(i)) = 0
        BY <3>1, FS_EmptySet
      <4> QED
        BY <4>1
    <3>2. CASE Answers(i) # {}
      <4>1. PICK j \in Answers(i) : TRUE
        BY <3>2
      <4>2. Answers(i) = {j}
        BY <2>2, <4>1
      <4>3. Cardinality({j}) = 1
        BY FS_Singleton
      <4> QED
        BY <4>2, <4>3
    <3> QED
      BY <3>1, <3>2
  <2> QED
    BY <2>2, <2>3
<1>2. ASSUME ConvInv PROVE SilenceNeedsAFailure /\ OnlyOwnersAnswer
  BY <1>2 DEF ConvInv, RunsFit, OnlyOwnersAnswer
<1>3. ConvInv => ConversationsMakeSense
  BY <1>1, <1>2 DEF ConversationsMakeSense
<1> QED
  BY <1>3, ConvInvHolds, PTL

\* While a run of a member waits for an answer, in whatever conversation it is,
\* the member's next message to the bot answers it and is no new goal.
THEOREM QuestionsAlwaysCatchMessages == ConversationsSpec => QuestionsCatchMessages
<1> DEFINE Caught == hands'[Bot].at = "finding" /\ hands[Bot].at # "finding" =>
                       \A i \in 1..Len(runs) : runs[i].asked => conversations[runs[i].conv] # hands'[Bot].user
<1>1. ASSUME ConvInv, [ConversationsNext]_conversationVars PROVE [Caught]_conversationVars
  <2> SUFFICES ASSUME ConversationsNext, hands'[Bot].at = "finding", hands[Bot].at # "finding",
                      NEW i \in 1..Len(runs), runs[i].asked
               PROVE  conversations[runs[i].conv] # hands'[Bot].user
    BY <1>1 DEF Caught
  <2>1. /\ hands \in [Handlers -> Hands] /\ Bot \in Handlers /\ hands[Bot] \in Hands
        /\ Idle.at = "idle" /\ runs[i].status = "waiting_input" /\ Bot \notin Chats
    BY <1>1, InvFacts, ConversationsAssumption DEF RunsFit, Idle
  <2>2. PICK user \in Members : TakeBotMessage(user)
    <3>1. ASSUME NEW h \in Chats, TakeChatMessage(h) PROVE FALSE
      BY <3>1, <2>1 DEF TakeChatMessage
    <3>2. ASSUME NEW h \in Handlers, HandleMessage(h) \/ CrashHandler(h) PROVE FALSE
      <4>1. /\ hands[h] \in Hands /\ ~Ends(h) /\ hands' # hands
        BY <2>1 DEF Ends
      <4>2. ~(FindConversation(h) \/ RaiseAmbiguous(h))
        BY <2>1, <4>1 DEF FindConversation, RaiseAmbiguous, Hands
      <4>3. ASSUME NEW route \in {"chat", "agent", "gate"}, ReceiveMessage(h, route) PROVE FALSE
        BY <2>1, <4>1, <4>3 DEF ReceiveMessage, Hands
      <4>4. ~Answering(h)
        BY <2>1, <4>1 DEF Answering, Hands
      <4>5. ASSUME NEW tool \in BOOLEAN, NEW status \in {"completed", "failed"}, AgentAction(h, tool, status) PROVE FALSE
        <5>1. PICK at \in {"agent", "answering"} :
                hands' = [hands EXCEPT ![h].at = at, ![h].run = Len(runs) + 1, ![h].actions = @ + 1]
          BY <4>5 DEF AgentAction
        <5> QED
          BY <2>1, <4>1, <5>1 DEF Hands
      <4> QED
        BY <3>2, <4>1, <4>2, <4>3, <4>4, <4>5 DEF HandleMessage, CrashHandler, RunChat, GateAgentRun, AnswerMessage
    <3>3. ~(UNCHANGED hands) /\ ~Ends(Bot)
      BY <2>1 DEF Ends
    <3> QED
      BY <3>1, <3>2, <3>3 DEF ConversationsNext, RunCommand, CancelCommand, ResumePending, ResumeCommand, AgentCommand
  <2>3. hands'[Bot].user = user
    BY <2>1, <2>2 DEF TakeBotMessage, Hands
  <2>4. PendingRuns(user) = {}
    BY <2>1, <2>2 DEF TakeBotMessage, Hands
  <2> QED
    BY <2>1, <2>3, <2>4 DEF PendingRuns, BelongsTo
<1> QED
  BY <1>1, ConvInvHolds, PTL DEF ConversationsSpec, QuestionsCatchMessages, Caught

-----------------------------------------------------------------------------
(* The memory of the runtime and the prompts, for any runs, goals, facts,    *)
(* layers and bounds.                                                        *)

Stores == [memories : Seq(MemoryRows), indexed : SUBSET Nat, candidates : Seq(CandidateRows)]

\* Rows refer to rows that are there.
FitTogether(st) ==
    /\ \A m \in Indices(st.memories) : st.memories[m].by <= Len(st.candidates)
    /\ st.indexed \subseteq Indices(st.memories)
    /\ \A i \in Indices(st.candidates) : st.candidates[i].memory <= Len(st.memories)

\* A run has one candidate of each lesson;
OneOfEach(st) ==
    \A i, j \in Indices(st.candidates) :
      st.candidates[i].run = st.candidates[j].run /\ st.candidates[i].type = st.candidates[j].type => i = j

\* a memory that came of a candidate decided it,
Learned(st) ==
    \A m \in Indices(st.memories) :
      st.memories[m].by # NoMemory => IsDecided(st.candidates[st.memories[m].by])

\* and is the only one that did;
LearnedOnce(st) ==
    \A i, j \in Indices(st.memories) :
      st.memories[i].by = st.memories[j].by /\ st.memories[i].by # NoMemory => i = j

\* a key names the scope and the lesson of its row.
KeysAreTheirs(st) ==
    /\ \A m \in Indices(st.memories) :
         st.memories[m].key # NoKey =>
           st.memories[m].key[1] = st.memories[m].scope /\ st.memories[m].key[2] = st.memories[m].type
    /\ \A i \in Indices(st.candidates) :
         st.candidates[i].key[1] = st.candidates[i].scope /\ st.candidates[i].key[2] = st.candidates[i].type

Sound(st) ==
    /\ st \in Stores /\ FitTogether(st) /\ OneOfEach(st)
    /\ Learned(st) /\ LearnedOnce(st) /\ KeysAreTheirs(st)

\* A key has one active memory; the index has the active memories.
OnePerKey(st) ==
    \A i, j \in Active(st.memories) :
      st.memories[i].key = st.memories[j].key /\ st.memories[i].key # NoKey => i = j
Tidy(st) == st.indexed = Active(st.memories)

LessonsBounded ==
    /\ outcome \in [LessonRuns -> {"running", "completed", "failed"}]
    /\ Len(memories) <= MaxMemories
    /\ layers \in [LayerNames -> LayerChoices \cup {NoLayer}]
    /\ modelUsed \in BOOLEAN /\ policies \in 0..MaxPolicies /\ ftsFailures \in 0..MaxFtsFailures

\* The inductive invariant of the memories.
LessonsInv ==
    /\ LessonsBounded /\ Sound(store)
    /\ modelUsed \/ OnePerKey(store)
    /\ ftsFailures = 0 => Tidy(store)

LEMMA LeastIsThere ==
    ASSUME NEW S \in SUBSET Nat, S # {}
    PROVE  First(S) \in S /\ \A j \in S : First(S) <= j
<1> DEFINE Less == {pair \in Nat \X Nat : pair[1] < pair[2]}
<1>1. IsWellFoundedOn(Less, Nat)
  BY NatLessThanWellFounded DEF OpToRel
<1>2. PICK x \in S : \A y \in S : ~(<<y, x>> \in Less)
  <2> HIDE DEF Less
  <2> QED
    BY <1>1, WFMin
<1>3. \A y \in S : x <= y
  <2> TAKE y \in S
  <2>1. ~(y < x)
    BY <1>2
  <2> QED
    BY <2>1
<1> QED
  BY <1>3 DEF First

\* What a change of the store leaves of the rows that were there.
RowsStay(st, new) ==
    /\ Len(st.memories) <= Len(new.memories)
    /\ \A m \in Indices(st.memories) :
         /\ new.memories[m].by = st.memories[m].by /\ new.memories[m].key = st.memories[m].key
         /\ new.memories[m].scope = st.memories[m].scope /\ new.memories[m].type = st.memories[m].type
         /\ new.memories[m].status = "active" => st.memories[m].status = "active"
CandidatesStay(st, new) ==
    /\ Len(new.candidates) = Len(st.candidates)
    /\ \A i \in Indices(st.candidates) :
         /\ new.candidates[i].run = st.candidates[i].run /\ new.candidates[i].type = st.candidates[i].type
         /\ new.candidates[i].scope = st.candidates[i].scope /\ new.candidates[i].key = st.candidates[i].key
         /\ IsDecided(st.candidates[i]) => IsDecided(new.candidates[i])

LEMMA StoreLengths ==
    ASSUME NEW st \in Stores
    PROVE  /\ st.memories \in Seq(MemoryRows) /\ st.candidates \in Seq(CandidateRows)
           /\ st.indexed \in SUBSET Nat
           /\ Len(st.memories) \in Nat /\ Len(st.candidates) \in Nat
           /\ \A m \in Indices(st.memories) : m \in Nat /\ st.memories[m] \in MemoryRows
           /\ \A i \in Indices(st.candidates) : i \in Nat /\ st.candidates[i] \in CandidateRows
<1>1. st.memories \in Seq(MemoryRows) /\ st.candidates \in Seq(CandidateRows) /\ st.indexed \in SUBSET Nat
  BY DEF Stores
<1>2. Len(st.memories) \in Nat /\ Len(st.candidates) \in Nat
  BY <1>1
<1> QED
  BY <1>1, <1>2 DEF Indices

\* A change that adds no memory keeps what the rows say of each other.
LEMMA SoundChange ==
    ASSUME NEW st, NEW new \in Stores, Sound(st), RowsStay(st, new), CandidatesStay(st, new),
           Len(new.memories) = Len(st.memories), FitTogether(new)
    PROVE  /\ Sound(new)
           /\ OnePerKey(st) => OnePerKey(new)
<1>0. /\ st \in Stores /\ FitTogether(st) /\ OneOfEach(st)
      /\ Learned(st) /\ LearnedOnce(st) /\ KeysAreTheirs(st)
  BY DEF Sound
<1>1. Len(st.memories) \in Nat /\ Len(st.candidates) \in Nat
  BY <1>0, StoreLengths
<1>2. Indices(new.memories) = Indices(st.memories) /\ Indices(new.candidates) = Indices(st.candidates)
  BY DEF Indices, CandidatesStay
<1>3. OneOfEach(new)
  BY <1>0, <1>2 DEF OneOfEach, CandidatesStay
<1>4. LearnedOnce(new)
  BY <1>0, <1>2 DEF LearnedOnce, RowsStay
<1>5. KeysAreTheirs(new)
  BY <1>0, <1>2 DEF KeysAreTheirs, RowsStay, CandidatesStay
<1>6. Learned(new)
  <2> SUFFICES ASSUME NEW m \in Indices(new.memories), new.memories[m].by # NoMemory
               PROVE  IsDecided(new.candidates[new.memories[m].by])
    BY DEF Learned
  <2>1. m \in Indices(st.memories) /\ new.memories[m].by = st.memories[m].by
    BY <1>2 DEF RowsStay
  <2>2. IsDecided(st.candidates[st.memories[m].by])
    BY <1>0, <2>1 DEF Learned
  <2>3. st.memories[m].by \in Nat
    BY <1>0, <2>1, StoreLengths DEF MemoryRows
  <2>4. st.memories[m].by \in Indices(st.candidates)
    BY <1>0, <1>1, <2>1, <2>3 DEF FitTogether, Indices, NoMemory
  <2> QED
    BY <2>1, <2>2, <2>4 DEF CandidatesStay
<1>7. OnePerKey(st) => OnePerKey(new)
  <2>1. Active(new.memories) \subseteq Active(st.memories)
    BY <1>2 DEF Active, RowsStay
  <2>2. \A m \in Active(new.memories) : new.memories[m].key = st.memories[m].key
    BY <1>2 DEF Active, RowsStay
  <2> QED
    BY <2>1, <2>2 DEF OnePerKey
<1> QED
  BY <1>3, <1>4, <1>5, <1>6, <1>7 DEF Sound

\* A new memory comes of no candidate, or of one that it decides.
ComesOf(st, new, memory) ==
    \/ memory.by = NoMemory /\ memory.key = NoKey
    \/ /\ memory.by \in Indices(st.candidates)
       /\ ~IsDecided(st.candidates[memory.by]) /\ IsDecided(new.candidates[memory.by])
       /\ memory.key = st.candidates[memory.by].key
       /\ memory.scope = st.candidates[memory.by].scope /\ memory.type = st.candidates[memory.by].type

LEMMA SoundAddition ==
    ASSUME NEW st, NEW new \in Stores, Sound(st), RowsStay(st, new), CandidatesStay(st, new),
           NEW n \in Nat, n = Len(st.memories) + 1, Len(new.memories) = n, FitTogether(new),
           ComesOf(st, new, new.memories[n])
    PROVE  /\ Sound(new)
           /\ OnePerKey(st)
              /\ (new.memories[n].key # NoKey =>
                    \A m \in Indices(st.memories) :
                      new.memories[m].status = "active" => st.memories[m].key # new.memories[n].key)
              => OnePerKey(new)
<1>0. /\ st \in Stores /\ FitTogether(st) /\ OneOfEach(st)
      /\ Learned(st) /\ LearnedOnce(st) /\ KeysAreTheirs(st)
  BY DEF Sound
<1>1. Len(st.memories) \in Nat /\ Len(st.candidates) \in Nat
  BY <1>0, StoreLengths
<1>2. Indices(new.memories) = Indices(st.memories) \cup {n} /\ Indices(new.candidates) = Indices(st.candidates)
      /\ n \notin Indices(st.memories)
  BY <1>1 DEF Indices, CandidatesStay
<1>a. \A m \in Indices(st.memories) :
        st.memories[m].by \in Nat /\ (st.memories[m].by # NoMemory => st.memories[m].by \in Indices(st.candidates))
  <2> TAKE m \in Indices(st.memories)
  <2>1. st.memories[m].by \in Nat
    BY <1>0, StoreLengths DEF MemoryRows
  <2> QED
    BY <1>0, <1>1, <2>1 DEF FitTogether, Indices, NoMemory
<1>b. \A m \in Indices(st.memories) :
        st.memories[m].by # NoMemory => st.memories[m].by # new.memories[n].by
  BY <1>0 DEF Learned, ComesOf
<1>3. OneOfEach(new)
  BY <1>0, <1>2 DEF OneOfEach, CandidatesStay
<1>4. LearnedOnce(new)
  <2>1. \A m \in Indices(st.memories) : new.memories[m].by = st.memories[m].by
    BY DEF RowsStay
  <2>2. \A m \in Indices(st.memories) : st.memories[m].by = new.memories[n].by => st.memories[m].by = NoMemory
    BY <1>b
  <2> HIDE DEF NoMemory
  <2> SUFFICES ASSUME NEW i \in Indices(new.memories), NEW j \in Indices(new.memories),
                      new.memories[i].by = new.memories[j].by, new.memories[i].by # NoMemory
               PROVE  i = j
    BY DEF LearnedOnce
  <2>3. CASE i \in Indices(st.memories) /\ j \in Indices(st.memories)
    BY <1>0, <2>1, <2>3 DEF LearnedOnce
  <2>4. CASE i = n /\ j \in Indices(st.memories)
    BY <2>1, <2>2, <2>4
  <2>5. CASE j = n /\ i \in Indices(st.memories)
    BY <2>1, <2>2, <2>5
  <2> QED
    BY <1>2, <2>3, <2>4, <2>5
<1>5. KeysAreTheirs(new)
  <2>1. new.memories[n].key # NoKey => new.memories[n].key[1] = new.memories[n].scope
                                       /\ new.memories[n].key[2] = new.memories[n].type
    BY <1>0 DEF KeysAreTheirs, ComesOf
  <2>2. ASSUME NEW m \in Indices(st.memories), new.memories[m].key # NoKey
        PROVE  new.memories[m].key[1] = new.memories[m].scope /\ new.memories[m].key[2] = new.memories[m].type
    BY <1>0, <2>2 DEF KeysAreTheirs, RowsStay
  <2>3. ASSUME NEW i \in Indices(st.candidates)
        PROVE  new.candidates[i].key[1] = new.candidates[i].scope
               /\ new.candidates[i].key[2] = new.candidates[i].type
    BY <1>0, <2>3 DEF KeysAreTheirs, CandidatesStay
  <2> QED
    BY <1>2, <2>1, <2>2, <2>3 DEF KeysAreTheirs
<1>6. Learned(new)
  <2> SUFFICES ASSUME NEW m \in Indices(new.memories), new.memories[m].by # NoMemory
               PROVE  IsDecided(new.candidates[new.memories[m].by])
    BY DEF Learned
  <2>1. CASE m = n
    BY <2>1 DEF ComesOf
  <2>2. CASE m \in Indices(st.memories)
    <3>1. new.memories[m].by = st.memories[m].by
      BY <2>2 DEF RowsStay
    <3>2. IsDecided(st.candidates[st.memories[m].by])
      BY <1>0, <2>2, <3>1 DEF Learned
    <3>3. st.memories[m].by \in Indices(st.candidates)
      BY <1>a, <2>2, <3>1
    <3> QED
      BY <3>1, <3>2, <3>3 DEF CandidatesStay
  <2> QED
    BY <1>2, <2>1, <2>2
<1>7. ASSUME OnePerKey(st),
             new.memories[n].key # NoKey =>
                    \A m \in Indices(st.memories) :
                      new.memories[m].status = "active" => st.memories[m].key # new.memories[n].key
      PROVE  OnePerKey(new)
  <2>1. Active(new.memories) \subseteq Active(st.memories) \cup {n}
    BY <1>2 DEF Active, RowsStay
  <2>2. \A m \in Active(new.memories) \ {n} :
          m \in Indices(st.memories) /\ new.memories[m].key = st.memories[m].key /\ new.memories[m].status = "active"
    BY <1>2 DEF Active, RowsStay
  <2> QED
    BY <1>7, <2>1, <2>2 DEF OnePerKey
<1> QED
  BY <1>3, <1>4, <1>5, <1>6, <1>7 DEF Sound
-----------------------------------------------------------------------------
(* The steps a change of the store is made of.                               *)

LEMMA SyncedStore ==
    ASSUME NEW st \in Stores, NEW i \in Indices(st.memories), st.indexed \subseteq Indices(st.memories)
    PROVE  LET new == Synced(st, i)
           IN /\ new \in Stores
              /\ new.memories = st.memories /\ new.candidates = st.candidates
              /\ new.indexed \subseteq Indices(st.memories)
              /\ (\A m \in Indices(st.memories) : m # i => (m \in st.indexed <=> st.memories[m].status = "active"))
                 => Tidy(new)
<1>1. PICK index : index = IF st.memories[i].status = "active" THEN st.indexed \cup {i} ELSE st.indexed \ {i}
  OBVIOUS
<1>2. PICK new : new = [st EXCEPT !.indexed = index]
  OBVIOUS
<1>3. new = Synced(st, i)
  BY <1>1, <1>2 DEF Synced
<1>4. i \in Nat /\ index \in SUBSET Nat /\ index \subseteq Indices(st.memories)
  BY <1>1, StoreLengths
<1>5. new \in Stores /\ new.memories = st.memories /\ new.candidates = st.candidates /\ new.indexed = index
  BY <1>2, <1>4 DEF Stores
<1>6. ASSUME \A m \in Indices(st.memories) : m # i => (m \in st.indexed <=> st.memories[m].status = "active")
      PROVE  Tidy(new)
  BY <1>1, <1>5, <1>6 DEF Tidy, Active
<1> QED
  BY <1>3, <1>4, <1>5, <1>6

LEMMA DecidedStore ==
    ASSUME NEW st \in Stores, NEW i \in Indices(st.candidates),
           NEW status \in {"created", "merged", "skipped", "reinforced", "needs_review",
                           "conflict_candidate", "superseded"},
           NEW memory \in Nat
    PROVE  LET new == Decided(st, i, status, memory)
           IN /\ new \in Stores
              /\ new.memories = st.memories /\ new.indexed = st.indexed
              /\ Len(new.candidates) = Len(st.candidates)
              /\ \A j \in Indices(st.candidates) : j # i => new.candidates[j] = st.candidates[j]
              /\ new.candidates[i].run = st.candidates[i].run /\ new.candidates[i].type = st.candidates[i].type
              /\ new.candidates[i].scope = st.candidates[i].scope /\ new.candidates[i].key = st.candidates[i].key
              /\ new.candidates[i].memory = memory
              /\ memory # NoMemory => IsDecided(new.candidates[i])
<1>1. PICK row : row = [st.candidates[i] EXCEPT !.status = status, !.memory = memory]
  OBVIOUS
<1>2. PICK new : new = [st EXCEPT !.candidates[i] = row]
  OBVIOUS
<1>3. new = Decided(st, i, status, memory)
  BY <1>1, <1>2 DEF Decided
<1>4. st.candidates \in Seq(CandidateRows) /\ st.candidates[i] \in CandidateRows /\ i \in 1..Len(st.candidates)
  BY StoreLengths DEF Indices
<1>5. /\ row \in CandidateRows /\ row.status = status /\ row.memory = memory
      /\ row.run = st.candidates[i].run /\ row.type = st.candidates[i].type
      /\ row.scope = st.candidates[i].scope /\ row.key = st.candidates[i].key
  BY <1>1, <1>4 DEF CandidateRows
<1>6. PICK rows : rows = [st.candidates EXCEPT ![i] = row]
  OBVIOUS
<1>7. rows \in Seq(CandidateRows) /\ Len(rows) = Len(st.candidates) /\ rows[i] = row
      /\ \A j \in 1..Len(st.candidates) : j # i => rows[j] = st.candidates[j]
  BY <1>4, <1>5, <1>6
<1>8. new \in Stores /\ new.memories = st.memories /\ new.indexed = st.indexed /\ new.candidates = rows
  BY <1>2, <1>6, <1>7 DEF Stores
<1>9. memory # NoMemory => IsDecided(row)
  BY <1>5 DEF IsDecided
<1> QED
  BY <1>3, <1>5, <1>7, <1>8, <1>9 DEF Indices

LEMMA RowChanged ==
    ASSUME NEW st \in Stores, NEW m \in Indices(st.memories), NEW row \in MemoryRows,
           NEW new, new = [st EXCEPT !.memories[m] = row]
    PROVE  /\ new \in Stores
           /\ new.indexed = st.indexed /\ new.candidates = st.candidates
           /\ Len(new.memories) = Len(st.memories) /\ new.memories[m] = row
           /\ \A j \in Indices(st.memories) : j # m => new.memories[j] = st.memories[j]
<1>1. st.memories \in Seq(MemoryRows) /\ m \in 1..Len(st.memories)
  BY StoreLengths DEF Indices
<1>2. PICK rows : rows = [st.memories EXCEPT ![m] = row]
  OBVIOUS
<1>3. rows \in Seq(MemoryRows) /\ Len(rows) = Len(st.memories) /\ rows[m] = row
      /\ \A j \in 1..Len(st.memories) : j # m => rows[j] = st.memories[j]
  BY <1>1, <1>2
<1>4. new \in Stores /\ new.indexed = st.indexed /\ new.candidates = st.candidates /\ new.memories = rows
  BY <1>2, <1>3 DEF Stores
<1> QED
  BY <1>3, <1>4 DEF Indices

LEMMA AddedStore ==
    ASSUME NEW st \in Stores, FitTogether(st), NEW row \in MemoryRows, row.status = "active",
           NEW n \in Nat, n = Len(st.memories) + 1
    PROVE  LET new == Added(st, row)
           IN /\ new \in Stores
              /\ new.candidates = st.candidates
              /\ Len(new.memories) = n /\ n \in Indices(new.memories) /\ new.memories[n] = row
              /\ \A j \in Indices(st.memories) : j \in Indices(new.memories) /\ new.memories[j] = st.memories[j]
              /\ new.indexed \subseteq Indices(new.memories)
              /\ Tidy(st) => Tidy(new)
<1>1. st.memories \in Seq(MemoryRows) /\ Len(st.memories) \in Nat /\ st.indexed \in SUBSET Nat
  BY StoreLengths
<1>2. PICK rows : rows = Append(st.memories, row)
  OBVIOUS
<1>3. rows \in Seq(MemoryRows) /\ Len(rows) = n /\ rows[n] = row
      /\ \A j \in 1..Len(st.memories) : rows[j] = st.memories[j]
  BY <1>1, <1>2
<1>4. PICK grown : grown = [st EXCEPT !.memories = Append(st.memories, row)]
  OBVIOUS
<1>5. grown \in Stores /\ grown.memories = rows /\ grown.indexed = st.indexed /\ grown.candidates = st.candidates
  BY <1>2, <1>3, <1>4 DEF Stores
<1>6. Indices(grown.memories) = Indices(st.memories) \cup {n} /\ n \notin Indices(st.memories)
  BY <1>1, <1>3, <1>5 DEF Indices
<1>7. Added(st, row) = Synced(grown, n)
  BY <1>4 DEF Added
<1>8. st.indexed \subseteq Indices(st.memories)
  BY DEF FitTogether
<1>9. PICK new : new = Synced(grown, n)
  OBVIOUS
<1>10. /\ new \in Stores /\ new.memories = rows /\ new.candidates = st.candidates
       /\ new.indexed \subseteq Indices(rows)
       /\ (\A m \in Indices(rows) : m # n => (m \in st.indexed <=> rows[m].status = "active")) => Tidy(new)
  BY <1>5, <1>6, <1>8, <1>9, SyncedStore
<1>11. ASSUME Tidy(st) PROVE Tidy(new)
  <2> SUFFICES ASSUME NEW m \in Indices(rows), m # n PROVE m \in st.indexed <=> rows[m].status = "active"
    BY <1>10
  <2>1. m \in Indices(st.memories) /\ rows[m] = st.memories[m]
    BY <1>3, <1>5, <1>6 DEF Indices
  <2> QED
    BY <1>11, <2>1 DEF Tidy, Active
<1> QED
  BY <1>3, <1>5, <1>6, <1>7, <1>9, <1>10, <1>11 DEF Indices


-----------------------------------------------------------------------------
(* What consolidation does with one candidate.                               *)

Keeps(st, new) ==
    /\ Sound(new) /\ RowsStay(st, new) /\ CandidatesStay(st, new)
    /\ Tidy(st) => Tidy(new)

LEMMA SoundFacts ==
    ASSUME NEW st, Sound(st)
    PROVE  /\ st \in Stores /\ FitTogether(st) /\ st.indexed \subseteq Indices(st.memories)
           /\ Len(st.memories) \in Nat /\ Len(st.candidates) \in Nat
           /\ Active(st.memories) \subseteq Indices(st.memories)
           /\ \A m \in Indices(st.memories) :
                /\ m \in Nat /\ m # NoMemory /\ m <= Len(st.memories)
                /\ st.memories[m] \in MemoryRows /\ st.memories[m].by <= Len(st.candidates)
           /\ \A i \in Indices(st.candidates) :
                /\ i \in Nat /\ i <= Len(st.candidates)
                /\ st.candidates[i] \in CandidateRows /\ st.candidates[i].memory <= Len(st.memories)
<1>1. st \in Stores /\ FitTogether(st)
  BY DEF Sound
<1>2. Len(st.memories) \in Nat /\ Len(st.candidates) \in Nat
      /\ (\A m \in Indices(st.memories) : m \in Nat /\ st.memories[m] \in MemoryRows)
      /\ (\A i \in Indices(st.candidates) : i \in Nat /\ st.candidates[i] \in CandidateRows)
  BY <1>1, StoreLengths
<1>3. /\ \A m \in Indices(st.memories) : m # NoMemory /\ m <= Len(st.memories)
      /\ \A i \in Indices(st.candidates) : i <= Len(st.candidates)
  BY <1>2 DEF Indices, NoMemory
<1>4. /\ \A m \in Indices(st.memories) : st.memories[m].by <= Len(st.candidates)
      /\ st.indexed \subseteq Indices(st.memories)
      /\ \A i \in Indices(st.candidates) : st.candidates[i].memory <= Len(st.memories)
  BY <1>1 DEF FitTogether
<1> QED
  BY <1>1, <1>2, <1>3, <1>4 DEF Active

LEMMA DecidedKeeps ==
    ASSUME NEW st, Sound(st), NEW i \in Indices(st.candidates), ~IsDecided(st.candidates[i]),
           NEW status \in {"created", "merged", "skipped", "reinforced", "needs_review",
                           "conflict_candidate", "superseded"},
           NEW memory \in Nat, memory <= Len(st.memories)
    PROVE  /\ Keeps(st, Decided(st, i, status, memory))
           /\ OnePerKey(st) => OnePerKey(Decided(st, i, status, memory))
<1>1. PICK new : new = Decided(st, i, status, memory)
  OBVIOUS
<1>2. /\ new \in Stores
      /\ new.memories = st.memories /\ new.indexed = st.indexed
      /\ Len(new.candidates) = Len(st.candidates)
      /\ \A j \in Indices(st.candidates) : j # i => new.candidates[j] = st.candidates[j]
      /\ new.candidates[i].run = st.candidates[i].run /\ new.candidates[i].type = st.candidates[i].type
      /\ new.candidates[i].scope = st.candidates[i].scope /\ new.candidates[i].key = st.candidates[i].key
      /\ new.candidates[i].memory = memory
  <2>1. st \in Stores
    BY SoundFacts
  <2> QED
    BY <1>1, <2>1, DecidedStore
<1>3. RowsStay(st, new)
  BY <1>2, SoundFacts DEF RowsStay
<1>4. CandidatesStay(st, new)
  BY <1>2 DEF CandidatesStay
<1>5. FitTogether(new)
  <2>1. Indices(new.candidates) = Indices(st.candidates)
    BY <1>2 DEF Indices
  <2>2. \A j \in Indices(new.candidates) : new.candidates[j].memory <= Len(new.memories)
    BY <1>2, <2>1, SoundFacts
  <2> QED
    BY <1>2, <2>2, SoundFacts DEF FitTogether
<1>6. Sound(new) /\ (OnePerKey(st) => OnePerKey(new))
  BY <1>2, <1>3, <1>4, <1>5, SoundChange
<1>7. Tidy(st) => Tidy(new)
  BY <1>2 DEF Tidy
<1> QED
  BY <1>1, <1>3, <1>4, <1>6, <1>7 DEF Keeps

\* A row that keeps its key, and its status or leaves it.
SameRow(row, new) ==
    /\ new.by = row.by /\ new.key = row.key /\ new.scope = row.scope /\ new.type = row.type
    /\ new.status = "active" => row.status = "active"

LEMMA RowKeeps ==
    ASSUME NEW st, Sound(st), NEW m \in Indices(st.memories), NEW row \in MemoryRows,
           SameRow(st.memories[m], row)
    PROVE  LET new == Synced([st EXCEPT !.memories[m] = row], m)
           IN /\ Keeps(st, new) /\ (OnePerKey(st) => OnePerKey(new))
              /\ new.candidates = st.candidates /\ Len(new.memories) = Len(st.memories)
              /\ new.memories[m] = row
              /\ \A j \in Indices(st.memories) : j # m => new.memories[j] = st.memories[j]
<1>1. PICK changed : changed = [st EXCEPT !.memories[m] = row]
  OBVIOUS
<1>2. PICK new : new = Synced(changed, m)
  OBVIOUS
<1>3. /\ changed \in Stores
      /\ changed.indexed = st.indexed /\ changed.candidates = st.candidates
      /\ Len(changed.memories) = Len(st.memories) /\ changed.memories[m] = row
      /\ \A j \in Indices(st.memories) : j # m => changed.memories[j] = st.memories[j]
  BY <1>1, SoundFacts, RowChanged
<1>4. Indices(changed.memories) = Indices(st.memories)
  BY <1>3 DEF Indices
<1>5. changed.indexed \subseteq Indices(changed.memories)
  BY <1>3, <1>4, SoundFacts
<1>6. /\ new \in Stores
      /\ new.memories = changed.memories /\ new.candidates = st.candidates
      /\ new.indexed \subseteq Indices(changed.memories)
      /\ (\A j \in Indices(changed.memories) :
            j # m => (j \in changed.indexed <=> changed.memories[j].status = "active")) => Tidy(new)
  BY <1>2, <1>3, <1>4, <1>5, SyncedStore
<1>7. RowsStay(st, new)
  BY <1>3, <1>6, SoundFacts DEF RowsStay, SameRow
<1>8. CandidatesStay(st, new)
  BY <1>6 DEF CandidatesStay
<1>9. FitTogether(new)
  <2>1. \A j \in Indices(new.memories) : new.memories[j].by <= Len(new.candidates)
    BY <1>4, <1>6, <1>7, SoundFacts DEF RowsStay
  <2>2. \A j \in Indices(new.candidates) : new.candidates[j].memory <= Len(new.memories)
    BY <1>3, <1>6, SoundFacts
  <2> QED
    BY <1>6, <2>1, <2>2 DEF FitTogether
<1>10. Sound(new) /\ (OnePerKey(st) => OnePerKey(new))
  BY <1>3, <1>6, <1>7, <1>8, <1>9, SoundChange
<1>11. ASSUME Tidy(st) PROVE Tidy(new)
  <2> SUFFICES ASSUME NEW j \in Indices(changed.memories), j # m
               PROVE  j \in changed.indexed <=> changed.memories[j].status = "active"
    BY <1>6
  <2> QED
    BY <1>3, <1>4, <1>11 DEF Tidy, Active
<1> QED
  BY <1>1, <1>2, <1>3, <1>6, <1>7, <1>8, <1>10, <1>11 DEF Keeps

LEMMA KeepsTogether ==
    ASSUME NEW st, NEW mid, NEW new, Sound(st), Keeps(st, mid), Keeps(mid, new)
    PROVE  Keeps(st, new)
<1>1. Indices(st.memories) \subseteq Indices(mid.memories) /\ Indices(st.candidates) = Indices(mid.candidates)
  <2>1. Sound(mid)
    BY DEF Keeps
  <2>2. Len(st.memories) \in Nat /\ Len(mid.memories) \in Nat
    BY <2>1, SoundFacts
  <2> QED
    BY <2>2 DEF Keeps, RowsStay, CandidatesStay, Indices
<1>2. RowsStay(st, new)
  <2>1. Sound(mid) /\ Sound(new)
    BY DEF Keeps
  <2>2. Len(st.memories) \in Nat /\ Len(mid.memories) \in Nat /\ Len(new.memories) \in Nat
    BY <2>1, SoundFacts
  <2> QED
    BY <1>1, <2>2 DEF Keeps, RowsStay
<1>3. CandidatesStay(st, new)
  BY <1>1 DEF Keeps, CandidatesStay
<1> QED
  BY <1>2, <1>3 DEF Keeps

\* The memory a candidate becomes.
LearnedMemory(c, i) ==
    NewMemory(c.scope, "agent_consolidator", c.confidence, c.content, c.key, c.type, Kind(c.run), i)

LEMMA LearnedMemoryFits ==
    ASSUME NEW c \in CandidateRows, NEW i \in Nat
    PROVE  LET row == LearnedMemory(c, i)
           IN /\ row \in MemoryRows /\ row.status = "active" /\ row.by = i
              /\ row.key = c.key /\ row.scope = c.scope /\ row.type = c.type
<1>1. PICK row : row = LearnedMemory(c, i)
  OBVIOUS
<1>2. PICK tag \in {"agent-run", "workflow-run"} : tag = Kind(c.run)
  BY DEF Kind
<1>3. PICK current \in BOOLEAN : current = FALSE
  OBVIOUS
<1>4. row = [scope |-> c.scope, source |-> "agent_consolidator", confidence |-> c.confidence, content |-> c.content,
             key |-> c.key, type |-> c.type, tag |-> tag, by |-> i, status |-> "active", expired |-> current]
  BY <1>1, <1>2, <1>3 DEF LearnedMemory, NewMemory
<1>5. c.scope \in Scopes /\ c.confidence \in Nat /\ c.content \in SUBSET Facts /\ c.key \in Keys /\ c.type \in Lessons
  BY DEF CandidateRows
<1>6. row \in MemoryRows
  BY <1>4, <1>5 DEF MemoryRows, Sources
<1> QED
  BY <1>1, <1>4, <1>6

LEMMA CreatedStore ==
    ASSUME NEW st, Sound(st), NEW i \in Indices(st.candidates), NEW n \in Nat, n = Len(st.memories) + 1
    PROVE  LET new == Created(st, i)
           IN /\ new \in Stores /\ new.candidates = st.candidates
              /\ Len(new.memories) = n /\ n \in Indices(new.memories)
              /\ new.memories[n].status = "active" /\ new.memories[n].by = i
              /\ new.memories[n].key = st.candidates[i].key /\ new.memories[n].scope = st.candidates[i].scope
              /\ new.memories[n].type = st.candidates[i].type
              /\ \A j \in Indices(st.memories) : j \in Indices(new.memories) /\ new.memories[j] = st.memories[j]
              /\ new.indexed \subseteq Indices(new.memories)
              /\ Tidy(st) => Tidy(new)
<1>1. PICK row : row = LearnedMemory(st.candidates[i], i)
  OBVIOUS
<1>2. /\ st.candidates[i] \in CandidateRows /\ i \in Nat /\ st \in Stores /\ FitTogether(st)
  BY SoundFacts
<1>3. /\ row \in MemoryRows /\ row.status = "active" /\ row.by = i
      /\ row.key = st.candidates[i].key /\ row.scope = st.candidates[i].scope /\ row.type = st.candidates[i].type
  BY <1>1, <1>2, LearnedMemoryFits
<1>4. Created(st, i) = Added(st, row)
  BY <1>1 DEF Created, LearnedMemory
<1> QED
  BY <1>2, <1>3, <1>4, AddedStore

LEMMA CreatedKeeps ==
    ASSUME NEW st, Sound(st), NEW i \in Indices(st.candidates), ~IsDecided(st.candidates[i]),
           NEW n \in Nat, n = Len(st.memories) + 1
    PROVE  LET new == Decided(Created(st, i), i, "created", n)
           IN /\ Keeps(st, new)
              /\ OnePerKey(st) /\ (\A m \in Active(st.memories) : st.memories[m].key # st.candidates[i].key)
                 => OnePerKey(new)
<1>1. PICK made : made = Created(st, i)
  OBVIOUS
<1>2. PICK new : new = Decided(made, i, "created", n)
  OBVIOUS
<1>3. /\ made \in Stores /\ made.candidates = st.candidates
      /\ Len(made.memories) = n /\ n \in Indices(made.memories)
      /\ made.memories[n].status = "active" /\ made.memories[n].by = i
      /\ made.memories[n].key = st.candidates[i].key /\ made.memories[n].scope = st.candidates[i].scope
      /\ made.memories[n].type = st.candidates[i].type
      /\ \A j \in Indices(st.memories) : j \in Indices(made.memories) /\ made.memories[j] = st.memories[j]
      /\ made.indexed \subseteq Indices(made.memories)
      /\ Tidy(st) => Tidy(made)
  BY <1>1, CreatedStore
<1>4. /\ new \in Stores
      /\ new.memories = made.memories /\ new.indexed = made.indexed
      /\ Len(new.candidates) = Len(st.candidates)
      /\ \A j \in Indices(st.candidates) : j # i => new.candidates[j] = st.candidates[j]
      /\ new.candidates[i].run = st.candidates[i].run /\ new.candidates[i].type = st.candidates[i].type
      /\ new.candidates[i].scope = st.candidates[i].scope /\ new.candidates[i].key = st.candidates[i].key
      /\ new.candidates[i].memory = n /\ IsDecided(new.candidates[i])
  <2>1. n # NoMemory
    BY SoundFacts DEF NoMemory
  <2>2. made \in Stores /\ made.candidates = st.candidates /\ i \in Indices(made.candidates)
    BY <1>3
  <2>3. /\ new \in Stores
        /\ new.memories = made.memories /\ new.indexed = made.indexed
        /\ Len(new.candidates) = Len(made.candidates)
        /\ \A j \in Indices(made.candidates) : j # i => new.candidates[j] = made.candidates[j]
        /\ new.candidates[i].run = made.candidates[i].run /\ new.candidates[i].type = made.candidates[i].type
        /\ new.candidates[i].scope = made.candidates[i].scope /\ new.candidates[i].key = made.candidates[i].key
        /\ new.candidates[i].memory = n
        /\ n # NoMemory => IsDecided(new.candidates[i])
    BY <1>2, <2>2, DecidedStore, SMTT(30), ZenonT(60)
  <2> QED
    BY <2>1, <2>2, <2>3
<1>5. Len(st.memories) \in Nat /\ Len(st.memories) <= n
      /\ Indices(made.memories) = Indices(st.memories) \cup {n} /\ Indices(new.candidates) = Indices(st.candidates)
  BY <1>3, <1>4, SoundFacts DEF Indices
<1>6. RowsStay(st, new)
  BY <1>3, <1>4, <1>5 DEF RowsStay
<1>7. CandidatesStay(st, new)
  BY <1>4 DEF CandidatesStay
<1>8. FitTogether(new)
  <2>1. \A j \in Indices(new.memories) : new.memories[j].by <= Len(new.candidates)
    <3>1. \A j \in Indices(st.memories) : new.memories[j].by <= Len(new.candidates)
      BY <1>3, <1>4, SoundFacts
    <3>2. new.memories[n].by <= Len(new.candidates)
      BY <1>3, <1>4, SoundFacts
    <3> QED
      BY <1>4, <1>5, <3>1, <3>2
  <2>2. \A j \in Indices(new.candidates) : new.candidates[j].memory <= Len(new.memories)
    <3>1. ASSUME NEW j \in Indices(st.candidates), j # i PROVE new.candidates[j].memory <= n
      <4>1. st.candidates[j].memory \in Nat /\ st.candidates[j].memory <= Len(st.memories)
        BY SoundFacts DEF CandidateRows
      <4> QED
        BY <1>4, <1>5, <3>1, <4>1
    <3>2. new.candidates[i].memory = n /\ n <= n
      BY <1>4
    <3>3. Len(new.memories) = n
      BY <1>3, <1>4
    <3> QED
      BY <1>5, <3>1, <3>2, <3>3
  <2> QED
    BY <1>3, <1>4, <2>1, <2>2 DEF FitTogether
<1>9. ComesOf(st, new, new.memories[n])
  BY <1>3, <1>4 DEF ComesOf
<1>10. /\ Sound(new)
       /\ OnePerKey(st)
          /\ (new.memories[n].key # NoKey =>
                \A m \in Indices(st.memories) :
                  new.memories[m].status = "active" => st.memories[m].key # new.memories[n].key)
          => OnePerKey(new)
  BY <1>3, <1>4, <1>6, <1>7, <1>8, <1>9, SoundAddition
<1>11. ASSUME OnePerKey(st), \A m \in Active(st.memories) : st.memories[m].key # st.candidates[i].key
       PROVE  OnePerKey(new)
  <2>1. \A m \in Indices(st.memories) :
          new.memories[m].status = "active" => st.memories[m].key # new.memories[n].key
    BY <1>3, <1>4, <1>11 DEF Active
  <2> QED
    BY <1>10, <1>11, <2>1
<1>12. Tidy(st) => Tidy(new)
  BY <1>3, <1>4 DEF Tidy
<1> QED
  BY <1>1, <1>2, <1>6, <1>7, <1>10, <1>11, <1>12 DEF Keeps

\* The memory that is replaced is left out of the index, and the key is free for the new one.
LEMMA SupersededKeeps ==
    ASSUME NEW st, Sound(st), NEW i \in Indices(st.candidates), ~IsDecided(st.candidates[i]),
           NEW old \in Active(st.memories)
    PROVE  /\ Keeps(st, Superseded(st, i, old))
           /\ OnePerKey(st)
              /\ (\A m \in Active(st.memories) : st.memories[m].key = st.candidates[i].key => m = old)
              => OnePerKey(Superseded(st, i, old))
<1>1. PICK n \in Nat : n = Len(st.memories) + 1
  BY SoundFacts
<1>2. PICK made : made = Created(st, i)
  OBVIOUS
<1>3. /\ made \in Stores /\ made.candidates = st.candidates
      /\ Len(made.memories) = n /\ n \in Indices(made.memories)
      /\ made.memories[n].status = "active" /\ made.memories[n].by = i
      /\ made.memories[n].key = st.candidates[i].key /\ made.memories[n].scope = st.candidates[i].scope
      /\ made.memories[n].type = st.candidates[i].type
      /\ \A j \in Indices(st.memories) : j \in Indices(made.memories) /\ made.memories[j] = st.memories[j]
      /\ made.indexed \subseteq Indices(made.memories)
      /\ Tidy(st) => Tidy(made)
  BY <1>1, <1>2, CreatedStore
<1>4. old \in Indices(st.memories) /\ old \in Indices(made.memories) /\ made.memories[old] = st.memories[old]
      /\ st.memories[old] \in MemoryRows /\ old # n
  <2>1. old \in Indices(st.memories)
    BY DEF Active
  <2>2. old \in Nat /\ old <= Len(st.memories) /\ Len(st.memories) \in Nat /\ st.memories[old] \in MemoryRows
    BY <2>1, SoundFacts
  <2>3. old # n
    BY <1>1, <2>2
  <2> QED
    BY <1>3, <2>1, <2>2, <2>3
<1>5. PICK row : row = [made.memories[old] EXCEPT !.status = "superseded"]
  OBVIOUS
<1>6. /\ row \in MemoryRows /\ row.status # "active" /\ row.by = st.memories[old].by
      /\ row.key = st.memories[old].key /\ row.scope = st.memories[old].scope /\ row.type = st.memories[old].type
  BY <1>4, <1>5 DEF MemoryRows
<1>7. PICK changed : changed = [made EXCEPT !.memories[old] = row]
  OBVIOUS
<1>8. /\ changed \in Stores
      /\ changed.indexed = made.indexed /\ changed.candidates = made.candidates
      /\ Len(changed.memories) = Len(made.memories) /\ changed.memories[old] = row
      /\ \A j \in Indices(made.memories) : j # old => changed.memories[j] = made.memories[j]
  BY <1>3, <1>4, <1>6, <1>7, RowChanged
<1>9. Indices(changed.memories) = Indices(made.memories)
  BY <1>8 DEF Indices
<1>10. PICK synced : synced = Synced(changed, old)
  OBVIOUS
<1>11. /\ synced \in Stores
       /\ synced.memories = changed.memories /\ synced.candidates = changed.candidates
       /\ synced.indexed \subseteq Indices(changed.memories)
       /\ (\A m \in Indices(changed.memories) :
             m # old => (m \in changed.indexed <=> changed.memories[m].status = "active")) => Tidy(synced)
  <2>1. old \in Indices(changed.memories) /\ changed.indexed \subseteq Indices(changed.memories)
    BY <1>3, <1>4, <1>8, <1>9
  <2> QED
    BY <1>8, <1>10, <2>1, SyncedStore
<1>12. PICK new : new = Decided(synced, i, "superseded", n)
  OBVIOUS
<1>13. new = Superseded(st, i, old)
  BY <1>2, <1>3, <1>5, <1>7, <1>10, <1>12 DEF Superseded
<1>14. synced.candidates = st.candidates /\ i \in Indices(synced.candidates)
  BY <1>3, <1>8, <1>11
<1>15. /\ new \in Stores
       /\ new.memories = synced.memories /\ new.indexed = synced.indexed
       /\ Len(new.candidates) = Len(synced.candidates)
       /\ \A j \in Indices(synced.candidates) : j # i => new.candidates[j] = synced.candidates[j]
       /\ new.candidates[i].run = synced.candidates[i].run /\ new.candidates[i].type = synced.candidates[i].type
       /\ new.candidates[i].scope = synced.candidates[i].scope /\ new.candidates[i].key = synced.candidates[i].key
       /\ new.candidates[i].memory = n
       /\ n # NoMemory => IsDecided(new.candidates[i])
  BY <1>11, <1>12, <1>14, DecidedStore
<1>16. n # NoMemory /\ Len(st.memories) \in Nat /\ Len(st.memories) <= n
       /\ Indices(made.memories) = Indices(st.memories) \cup {n}
  BY <1>1, <1>3, SoundFacts DEF NoMemory, Indices
<1>17. Indices(new.candidates) = Indices(st.candidates)
  BY <1>14, <1>15 DEF Indices
\* The rows of the new store.
<1>18. /\ new.memories = changed.memories /\ Len(new.memories) = n
       /\ Indices(new.memories) = Indices(st.memories) \cup {n}
       /\ new.memories[n] = made.memories[n] /\ new.memories[old] = row
       /\ \A j \in Indices(st.memories) : j # old => new.memories[j] = st.memories[j]
  BY <1>3, <1>4, <1>8, <1>9, <1>11, <1>15, <1>16
<1>19. RowsStay(st, new)
  <2> SUFFICES ASSUME NEW m \in Indices(st.memories)
               PROVE  /\ new.memories[m].by = st.memories[m].by /\ new.memories[m].key = st.memories[m].key
                      /\ new.memories[m].scope = st.memories[m].scope /\ new.memories[m].type = st.memories[m].type
                      /\ new.memories[m].status = "active" => st.memories[m].status = "active"
    BY <1>16, <1>18 DEF RowsStay
  <2>1. CASE m = old
    BY <1>6, <1>18, <2>1
  <2>2. CASE m # old
    BY <1>18, <2>2
  <2> QED
    BY <2>1, <2>2
<1>20. CandidatesStay(st, new)
  BY <1>14, <1>15 DEF CandidatesStay
<1>21. FitTogether(new)
  <2>1. \A j \in Indices(st.memories) : new.memories[j].by <= Len(new.candidates)
    BY <1>14, <1>15, <1>19, SoundFacts DEF RowsStay
  <2>2. new.memories[n].by <= Len(new.candidates)
    BY <1>3, <1>14, <1>15, <1>18, SoundFacts
  <2>3. \A j \in Indices(st.candidates) : new.candidates[j].memory <= Len(new.memories)
    <3> SUFFICES ASSUME NEW j \in Indices(st.candidates), j # i PROVE new.candidates[j].memory <= n
      BY <1>15, <1>18
    <3>1. st.candidates[j].memory \in Nat /\ st.candidates[j].memory <= Len(st.memories)
      BY SoundFacts DEF CandidateRows
    <3> QED
      BY <1>14, <1>15, <1>16, <3>1
  <2>4. new.indexed \subseteq Indices(new.memories)
    BY <1>11, <1>15
  <2> QED
    BY <1>17, <1>18, <2>1, <2>2, <2>3, <2>4 DEF FitTogether
<1>22. ComesOf(st, new, new.memories[n])
  BY <1>3, <1>15, <1>16, <1>18 DEF ComesOf
<1>23. /\ Sound(new)
       /\ OnePerKey(st)
          /\ (new.memories[n].key # NoKey =>
                \A m \in Indices(st.memories) :
                  new.memories[m].status = "active" => st.memories[m].key # new.memories[n].key)
          => OnePerKey(new)
  BY <1>1, <1>15, <1>18, <1>19, <1>20, <1>21, <1>22, SoundAddition
<1>24. ASSUME OnePerKey(st), \A m \in Active(st.memories) : st.memories[m].key = st.candidates[i].key => m = old
       PROVE  OnePerKey(new)
  <2>1. ASSUME NEW m \in Indices(st.memories), new.memories[m].status = "active"
        PROVE  st.memories[m].key # new.memories[n].key
    <3>1. m # old
      BY <1>6, <1>18, <2>1
    <3>2. m \in Active(st.memories)
      BY <1>18, <2>1, <3>1 DEF Active
    <3> QED
      BY <1>3, <1>18, <1>24, <3>1, <3>2
  <2> QED
    BY <1>23, <1>24, <2>1
<1>25. ASSUME Tidy(st) PROVE Tidy(new)
  <2>1. Tidy(made)
    BY <1>3, <1>25
  <2>2. \A m \in Indices(changed.memories) :
          m # old => (m \in changed.indexed <=> changed.memories[m].status = "active")
    BY <1>8, <1>9, <2>1 DEF Tidy, Active
  <2> QED
    BY <1>11, <1>15, <2>2 DEF Tidy
<1> QED
  BY <1>13, <1>19, <1>20, <1>23, <1>24, <1>25 DEF Keeps

LEMMA MergedKeeps ==
    ASSUME NEW st, Sound(st), NEW i \in Indices(st.candidates), ~IsDecided(st.candidates[i]),
           NEW old \in Active(st.memories), NEW status \in {"reinforced", "merged"}
    PROVE  /\ Keeps(st, Merged(st, i, old, status))
           /\ OnePerKey(st) => OnePerKey(Merged(st, i, old, status))
<1>1. /\ old \in Indices(st.memories) /\ old \in Nat /\ old <= Len(st.memories)
      /\ st.memories[old] \in MemoryRows /\ st.candidates[i] \in CandidateRows
  <2>1. old \in Indices(st.memories)
    BY DEF Active
  <2> QED
    BY <2>1, SoundFacts
<1>2. PICK content : content = st.memories[old].content \cup st.candidates[i].content
  OBVIOUS
<1>3. PICK confidence : confidence = IF st.memories[old].confidence >= st.candidates[i].confidence
                                     THEN st.memories[old].confidence ELSE st.candidates[i].confidence
  OBVIOUS
<1>4. content \in SUBSET Facts /\ confidence \in Nat
  BY <1>1, <1>2, <1>3 DEF MemoryRows, CandidateRows
<1>5. PICK row : row = [st.memories[old] EXCEPT !.content = content, !.confidence = confidence]
  OBVIOUS
<1>6. row \in MemoryRows /\ SameRow(st.memories[old], row)
  BY <1>1, <1>4, <1>5 DEF MemoryRows, SameRow
<1>7. PICK mid : mid = Synced([st EXCEPT !.memories[old] = row], old)
  OBVIOUS
<1>8. Merged(st, i, old, status) = Decided(mid, i, status, old)
  BY <1>2, <1>3, <1>5, <1>7 DEF Merged
<1>9. Keeps(st, mid) /\ (OnePerKey(st) => OnePerKey(mid)) /\ mid.candidates = st.candidates
      /\ Len(mid.memories) = Len(st.memories)
  BY <1>1, <1>6, <1>7, RowKeeps
<1>10. Sound(mid) /\ i \in Indices(mid.candidates) /\ ~IsDecided(mid.candidates[i]) /\ old <= Len(mid.memories)
  BY <1>1, <1>9 DEF Keeps
<1>11. Keeps(mid, Decided(mid, i, status, old)) /\ (OnePerKey(mid) => OnePerKey(Decided(mid, i, status, old)))
  BY <1>1, <1>10, DecidedKeeps
<1> QED
  BY <1>8, <1>9, <1>11, KeepsTogether

LEMMA PromotedKeeps ==
    ASSUME NEW st, Sound(st), NEW i \in Indices(st.candidates), ~IsDecided(st.candidates[i])
    PROVE  /\ Keeps(st, Promoted(st, i))
           /\ OnePerKey(st) => OnePerKey(Promoted(st, i))
<1> DEFINE c == st.candidates[i]
           same == {j \in Active(st.memories) : st.memories[j].key = c.key}
<1>1. CASE c.scope \in LongTermScopes /\ c.confidence < 70
  <2>1. Promoted(st, i) = Decided(st, i, "skipped", NoMemory)
    BY <1>1 DEF Promoted
  <2>2. NoMemory \in Nat /\ NoMemory <= Len(st.memories)
    BY SoundFacts DEF NoMemory
  <2> QED
    BY <2>1, <2>2, DecidedKeeps
<1>2. CASE ~(c.scope \in LongTermScopes /\ c.confidence < 70) /\ same = {}
  <2>1. PICK n \in Nat : n = Len(st.memories) + 1
    BY SoundFacts
  <2>2. Promoted(st, i) = Decided(Created(st, i), i, "created", n)
    BY <1>2, <2>1 DEF Promoted
  <2>3. \A m \in Active(st.memories) : st.memories[m].key # st.candidates[i].key
    BY <1>2
  <2> HIDE DEF c, same
  <2> QED
    BY <2>1, <2>2, <2>3, CreatedKeeps
<1>3. CASE ~(c.scope \in LongTermScopes /\ c.confidence < 70) /\ same # {}
  <2>1. same \in SUBSET Nat
    BY SoundFacts
  <2>2. PICK old : old = First(same)
    OBVIOUS
  <2>3. old \in Active(st.memories)
    BY <1>3, <2>1, <2>2, LeastIsThere
  <2>4. PICK status \in {"reinforced", "merged"} : Promoted(st, i) = Merged(st, i, old, status)
    BY <1>3, <2>2 DEF Promoted
  <2> QED
    BY <2>3, <2>4, MergedKeeps
<1> QED
  BY <1>1, <1>2, <1>3

\* The best of the shortlist is in it, and none of it scores higher.
LEMMA BestIsThere ==
    ASSUME NEW st, Sound(st), NEW c \in CandidateRows, Shortlist(st, c) # {}
    PROVE  /\ Best(st, c) \in Shortlist(st, c)
           /\ \A j \in Shortlist(st, c) : Score(st.memories[Best(st, c)], c) >= Score(st.memories[j], c)
<1> DEFINE S == Shortlist(st, c)
           score(i) == Score(st.memories[i], c)
           T == {125 - score(i) : i \in S}
           B == {i \in S : \A j \in S : score(i) >= score(j)}
<1>1. \A i \in S : score(i) \in 0..125
  BY DEF Score
<1>2. S \in SUBSET Nat
  BY SoundFacts DEF Shortlist
<1>3. Best(st, c) = First(B)
  BY DEF Best
<1> HIDE DEF S, score
<1>4. \A i \in S : 125 - score(i) \in Nat
  BY <1>1
<1>5. T \in SUBSET Nat /\ T # {}
  <2>1. PICK i \in S : TRUE
    BY DEF S
  <2> QED
    BY <1>4, <2>1
<1>6. PICK t \in T : \A u \in T : t <= u
  <2> HIDE DEF T
  <2> QED
    BY <1>5, LeastIsThere
<1>7. PICK i \in S : t = 125 - score(i)
  BY <1>6
<1>8. \A j \in S : score(i) >= score(j)
  <2> TAKE j \in S
  <2>1. 125 - score(i) <= 125 - score(j)
    BY <1>6, <1>7
  <2> QED
    BY <1>1, <2>1
<1>9. B \in SUBSET Nat /\ B # {}
  BY <1>2, <1>7, <1>8
<1>10. First(B) \in B
  <2> HIDE DEF B
  <2> QED
    BY <1>9, LeastIsThere
<1> QED
  BY <1>3, <1>10 DEF S, score

\* The memory with the candidate's key is the best one.
LEMMA BestHasTheKey ==
    ASSUME NEW st, Sound(st), NEW i \in Indices(st.candidates), OnePerKey(st),
           NEW m \in Active(st.memories), st.memories[m].key = st.candidates[i].key
    PROVE  Shortlist(st, st.candidates[i]) # {} /\ m = Best(st, st.candidates[i])
<1> DEFINE c == st.candidates[i]
           best == Best(st, c)
<1>1. c \in CandidateRows /\ c.key # NoKey
  BY SoundFacts DEF CandidateRows
<1>2. m \in Indices(st.memories)
  BY DEF Active
<1>3. st.memories[m].scope = c.scope /\ st.memories[m].type = c.type
  <2>1. KeysAreTheirs(st)
    BY DEF Sound
  <2>2. st.memories[m].key[1] = st.memories[m].scope /\ st.memories[m].key[2] = st.memories[m].type
    BY <1>1, <1>2, <2>1 DEF KeysAreTheirs
  <2>3. c.key[1] = c.scope /\ c.key[2] = c.type
    BY <2>1 DEF KeysAreTheirs
  <2> QED
    BY <2>2, <2>3
<1>4. Score(st.memories[m], c) >= 120 /\ Score(st.memories[m], c) > 0
  BY <1>3 DEF Score
<1>5. m \in Shortlist(st, c)
  BY <1>3, <1>4 DEF Shortlist
<1>6. /\ best \in Shortlist(st, c)
      /\ Score(st.memories[best], c) >= Score(st.memories[m], c)
  BY <1>1, <1>5, BestIsThere
<1>7. Score(st.memories[best], c) >= 120
  <2>1. Score(st.memories[best], c) \in Nat /\ Score(st.memories[m], c) \in Nat
    BY DEF Score
  <2> QED
    BY <1>4, <1>6, <2>1
<1>8. st.memories[best].key = c.key
  BY <1>7 DEF Score
<1>9. best \in Active(st.memories)
  BY <1>6 DEF Shortlist
<1>10. st.memories[m].key = st.memories[best].key /\ st.memories[m].key # NoKey
  BY <1>1, <1>8
<1> QED
  BY <1>5, <1>9, <1>10 DEF OnePerKey

\* What a model may answer, or that there is none.
ModelAnswers == {NoDecision} \cup [relation : Relations, target : Nat, confidence : {60, 90}]

\* A relation names a memory that is active; without a model it is the best one.
LEMMA ClassifiedFits ==
    ASSUME NEW st, Sound(st), NEW c \in CandidateRows, NEW decision \in ModelAnswers
    PROVE  LET d == Classified(st, c, decision)
           IN /\ d.relation \in Relations /\ d.confidence \in Nat
              /\ d.target = NoMemory \/ d.target \in Active(st.memories)
              /\ decision = NoDecision =>
                   \/ d.relation = "unrelated"
                   \/ Shortlist(st, c) # {} /\ d.target = Best(st, c)
<1>1. Shortlist(st, c) \subseteq Active(st.memories)
  BY DEF Shortlist
<1>2. c.confidence \in Nat
  BY DEF CandidateRows
<1>3. PICK d : d = Classified(st, c, decision)
  OBVIOUS
<1>4. CASE Shortlist(st, c) = {}
  <2>1. d = [relation |-> "unrelated", target |-> NoMemory, confidence |-> 0]
    BY <1>3, <1>4 DEF Classified
  <2> QED
    BY <1>3, <2>1 DEF Relations
<1>5. CASE Shortlist(st, c) # {} /\ decision # NoDecision /\ decision.target \in {NoMemory} \cup Shortlist(st, c)
  <2>1. d = decision
    BY <1>3, <1>5 DEF Classified
  <2>2. decision \in [relation : Relations, target : Nat, confidence : {60, 90}]
    BY <1>5 DEF ModelAnswers
  <2> QED
    BY <1>1, <1>3, <1>5, <2>1, <2>2
<1>6. CASE Shortlist(st, c) # {} /\ ~(decision # NoDecision /\ decision.target \in {NoMemory} \cup Shortlist(st, c))
  <2>1. PICK relation \in {"reinforces", "updates", "conflicts"} :
          d = [relation |-> relation, target |-> Best(st, c), confidence |-> c.confidence]
    BY <1>3, <1>6 DEF Classified
  <2>2. Best(st, c) \in Active(st.memories)
    BY <1>1, <1>6, BestIsThere
  <2> QED
    BY <1>2, <1>3, <1>6, <2>1, <2>2 DEF Relations
<1> QED
  BY <1>4, <1>5, <1>6

LEMMA RelatedKeeps ==
    ASSUME NEW st, Sound(st), NEW i \in Indices(st.candidates), ~IsDecided(st.candidates[i]),
           NEW d, d.relation \in Relations, d.confidence \in Nat,
           d.target = NoMemory \/ d.target \in Active(st.memories)
    PROVE  /\ Keeps(st, Related(st, i, d))
           /\ OnePerKey(st)
              /\ (d.relation # "unrelated" /\ d.target # NoMemory =>
                    \A m \in Active(st.memories) : st.memories[m].key = st.candidates[i].key => m = d.target)
              => OnePerKey(Related(st, i, d))
<1>1. d.target \in Nat /\ d.target <= Len(st.memories)
  BY SoundFacts DEF NoMemory
<1>2. CASE Related(st, i, d) = Promoted(st, i)
  BY <1>2, PromotedKeeps
<1>3. ASSUME NEW status \in {"needs_review", "conflict_candidate"}, Related(st, i, d) = Decided(st, i, status, d.target)
      PROVE  Keeps(st, Related(st, i, d)) /\ (OnePerKey(st) => OnePerKey(Related(st, i, d)))
  BY <1>1, <1>3, DecidedKeeps
<1>4. CASE d.target \in Active(st.memories) /\ Related(st, i, d) = Merged(st, i, d.target, "reinforced")
  BY <1>4, MergedKeeps
<1>5. CASE d.target \in Active(st.memories) /\ d.target # NoMemory /\ d.relation # "unrelated"
           /\ Related(st, i, d) = Superseded(st, i, d.target)
  BY <1>5, SupersededKeeps
<1>6. \/ Related(st, i, d) = Promoted(st, i)
      \/ \E status \in {"needs_review", "conflict_candidate"} : Related(st, i, d) = Decided(st, i, status, d.target)
      \/ d.target \in Active(st.memories) /\ Related(st, i, d) = Merged(st, i, d.target, "reinforced")
      \/ d.target \in Active(st.memories) /\ d.target # NoMemory /\ d.relation # "unrelated"
         /\ Related(st, i, d) = Superseded(st, i, d.target)
  <2>1. CASE d.relation = "unrelated"
    BY <2>1 DEF Related
  <2>2. CASE d.relation # "unrelated" /\ d.confidence < 65
    BY <2>2 DEF Related
  <2>3. CASE d.relation # "unrelated" /\ ~(d.confidence < 65) /\ d.target = NoMemory
    BY <2>3 DEF Related
  <2>4. CASE d.relation # "unrelated" /\ ~(d.confidence < 65) /\ d.target # NoMemory
    BY <2>4 DEF Related
  <2> QED
    BY <2>1, <2>2, <2>3, <2>4
<1> QED
  BY <1>2, <1>3, <1>4, <1>5, <1>6

LEMMA HandledKeeps ==
    ASSUME NEW st, Sound(st), NEW i \in Indices(st.candidates), NEW auto \in BOOLEAN, NEW decision \in ModelAnswers
    PROVE  /\ Keeps(st, Handled(st, i, auto, decision))
           /\ decision = NoDecision /\ OnePerKey(st) => OnePerKey(Handled(st, i, auto, decision))
<1>1. CASE IsDecided(st.candidates[i])
  <2>1. Handled(st, i, auto, decision) = st
    BY <1>1 DEF Handled
  <2>2. Keeps(st, st)
    BY SoundFacts DEF Keeps, RowsStay, CandidatesStay
  <2> QED
    BY <2>1, <2>2
<1>2. CASE ~IsDecided(st.candidates[i]) /\ auto
  <2>1. PICK d : d = Classified(st, st.candidates[i], decision)
    OBVIOUS
  <2>2. Handled(st, i, auto, decision) = Related(st, i, d)
    BY <1>2, <2>1 DEF Handled
  <2>3. st.candidates[i] \in CandidateRows
    BY SoundFacts
  <2>4. /\ d.relation \in Relations /\ d.confidence \in Nat
        /\ d.target = NoMemory \/ d.target \in Active(st.memories)
        /\ decision = NoDecision =>
             d.relation = "unrelated" \/ d.target = Best(st, st.candidates[i])
    BY <2>1, <2>3, ClassifiedFits
  <2>5. ASSUME decision = NoDecision, OnePerKey(st), d.relation # "unrelated",
               NEW m \in Active(st.memories), st.memories[m].key = st.candidates[i].key
        PROVE  m = d.target
    BY <2>4, <2>5, BestHasTheKey
  <2> QED
    BY <1>2, <2>2, <2>4, <2>5, RelatedKeeps
<1>3. CASE ~IsDecided(st.candidates[i]) /\ ~auto
  <2>1. Handled(st, i, auto, decision) = Promoted(st, i)
    BY <1>3 DEF Handled
  <2> QED
    BY <1>3, <2>1, PromotedKeeps
<1> QED
  BY <1>1, <1>2, <1>3

-----------------------------------------------------------------------------
(* The steps of the memories.                                                *)

\* What a command changes of the memories: the new store is as sound, and committed.
LEMMA CommitSound ==
    ASSUME LessonsInv, NEW new, Sound(new), RowsStay(store, new), Tidy(store) => Tidy(new), Commit(new), Len(new.memories) <= MaxMemories,
           modelUsed' \in BOOLEAN, modelUsed' \/ OnePerKey(new),
           UNCHANGED <<outcome, layers, policies>>
    PROVE  LessonsInv'
<1>0. /\ Sound(store) /\ LessonsBounded /\ (ftsFailures = 0 => Tidy(store))
      /\ Sound(new) /\ RowsStay(store, new) /\ (Tidy(store) => Tidy(new))
  BY DEF LessonsInv
<1>1. /\ new \in Stores /\ FitTogether(new) /\ OneOfEach(new) /\ Learned(new) /\ LearnedOnce(new) /\ KeysAreTheirs(new)
      /\ new.memories \in Seq(MemoryRows) /\ new.candidates \in Seq(CandidateRows)
  BY <1>0, StoreLengths DEF Sound
<1>2. PICK after : after = [memories |-> memories', indexed |-> indexed', candidates |-> candidates']
  OBVIOUS
<1>3. memories' = new.memories /\ candidates' = new.candidates
  BY DEF Commit
<1>4. \/ indexed' = new.indexed /\ ftsFailures' = ftsFailures
      \/ indexed' = indexed /\ ftsFailures < MaxFtsFailures /\ ftsFailures' = ftsFailures + 1
  BY DEF Commit
<1>5. ftsFailures' \in 0..MaxFtsFailures /\ (ftsFailures' = 0 => ftsFailures = 0 /\ indexed' = new.indexed)
  <2>1. ftsFailures \in 0..MaxFtsFailures /\ MaxFtsFailures \in Nat
    BY <1>0, RuntimeMemoryAssumption DEF LessonsBounded
  <2> QED
    BY <1>4, <2>1
<1>6. indexed' \in SUBSET Nat /\ indexed' \subseteq Indices(new.memories)
  <2>1. CASE indexed' = new.indexed
    BY <1>0, <2>1, SoundFacts, StoreLengths
  <2>2. CASE indexed' = indexed
    <3>1. store.indexed = indexed /\ store.memories = memories
      BY DEF store
    <3>2. indexed \in SUBSET Nat /\ indexed \subseteq Indices(memories)
      BY <1>0, <3>1, SoundFacts, StoreLengths
    <3>3. Len(memories) \in Nat /\ Len(new.memories) \in Nat /\ Len(memories) <= Len(new.memories)
      BY <1>0, <3>1, SoundFacts DEF RowsStay
    <3>4. Indices(memories) \subseteq Indices(new.memories)
      BY <3>3 DEF Indices
    <3> QED
      BY <2>2, <3>2, <3>4
  <2> QED
    BY <1>4, <2>1, <2>2
<1>7. after \in Stores /\ after.memories = new.memories /\ after.candidates = new.candidates /\ after.indexed = indexed'
  BY <1>1, <1>2, <1>3, <1>6 DEF Stores
<1>8. Sound(after)
  <2>1. FitTogether(after)
    BY <1>1, <1>6, <1>7 DEF FitTogether
  <2>2. OneOfEach(after) /\ Learned(after)
    BY <1>1, <1>7 DEF OneOfEach, Learned
  <2>3. LearnedOnce(after)
    BY <1>1, <1>7 DEF LearnedOnce
  <2>4. KeysAreTheirs(after)
    BY <1>1, <1>7 DEF KeysAreTheirs
  <2> QED
    BY <1>7, <2>1, <2>2, <2>3, <2>4 DEF Sound
<1>9. modelUsed' \/ OnePerKey(after)
  BY <1>7 DEF OnePerKey
<1>10. ftsFailures' = 0 => Tidy(after)
  BY <1>0, <1>5, <1>7 DEF Tidy
<1>11. LessonsBounded'
  <2>1. Len(memories') <= MaxMemories
    BY <1>3
  <2> QED
    BY <1>0, <1>5, <2>1 DEF LessonsBounded
<1>12. after = store'
  BY <1>2 DEF store
<1> QED
  BY <1>8, <1>9, <1>10, <1>11, <1>12 DEF LessonsInv

LEMMA CommitKeeps ==
    ASSUME LessonsInv, NEW new, Keeps(store, new), Commit(new), Len(new.memories) <= MaxMemories,
           modelUsed' \in BOOLEAN, modelUsed' \/ OnePerKey(new),
           UNCHANGED <<outcome, layers, policies>>
    PROVE  LessonsInv'
<1>1. Sound(new) /\ RowsStay(store, new) /\ (Tidy(store) => Tidy(new))
  BY DEF Keeps
<1> QED
  BY <1>1, CommitSound

LEMMA StoreFields ==
    store.memories = memories /\ store.indexed = indexed /\ store.candidates = candidates
BY DEF store

\* A step that changes no row, index or candidate.
LEMMA StoreStays ==
    ASSUME LessonsInv, UNCHANGED <<memories, indexed, candidates>>, LessonsBounded',
           modelUsed' = modelUsed, ftsFailures' = ftsFailures
    PROVE  LessonsInv'
<1>1. store' = store
  BY DEF store
<1> QED
  BY <1>1 DEF LessonsInv

\* A memory that comes of no candidate.
LEMMA NoteKeeps ==
    ASSUME NEW st, Sound(st), NEW row \in MemoryRows, row.status = "active",
           row.by = NoMemory, row.key = NoKey
    PROVE  /\ Keeps(st, Added(st, row)) /\ (OnePerKey(st) => OnePerKey(Added(st, row)))
           /\ Len(Added(st, row).memories) = Len(st.memories) + 1
<1>1. PICK n \in Nat : n = Len(st.memories) + 1
  BY SoundFacts
<1>2. PICK new : new = Added(st, row)
  OBVIOUS
<1>3. /\ new \in Stores
      /\ new.candidates = st.candidates
      /\ Len(new.memories) = n /\ n \in Indices(new.memories) /\ new.memories[n] = row
      /\ \A j \in Indices(st.memories) : j \in Indices(new.memories) /\ new.memories[j] = st.memories[j]
      /\ new.indexed \subseteq Indices(new.memories)
      /\ Tidy(st) => Tidy(new)
  BY <1>1, <1>2, SoundFacts, AddedStore
<1>4. Len(st.memories) \in Nat /\ Len(st.memories) <= n /\ Indices(new.memories) = Indices(st.memories) \cup {n}
      /\ Len(st.candidates) \in Nat
  BY <1>1, <1>3, SoundFacts DEF Indices
<1>5. RowsStay(st, new)
  BY <1>3, <1>4 DEF RowsStay
<1>6. CandidatesStay(st, new)
  BY <1>3 DEF CandidatesStay
<1>7. FitTogether(new)
  <2>1. \A j \in Indices(st.memories) : new.memories[j].by <= Len(new.candidates)
    BY <1>3, SoundFacts
  <2>2. new.memories[n].by <= Len(new.candidates)
    BY <1>3, <1>4 DEF NoMemory
  <2>3. \A j \in Indices(new.candidates) : new.candidates[j].memory <= Len(new.memories)
    <3> TAKE j \in Indices(new.candidates)
    <3>1. st.candidates[j].memory \in Nat /\ st.candidates[j].memory <= Len(st.memories)
      BY <1>3, SoundFacts DEF CandidateRows
    <3> QED
      BY <1>3, <1>4, <3>1
  <2> QED
    BY <1>3, <1>4, <2>1, <2>2, <2>3 DEF FitTogether
<1>8. ComesOf(st, new, new.memories[n])
  BY <1>3 DEF ComesOf
<1>9. Sound(new) /\ (OnePerKey(st) => OnePerKey(new))
  BY <1>1, <1>3, <1>5, <1>6, <1>7, <1>8, SoundAddition
<1> QED
  BY <1>1, <1>2, <1>3, <1>5, <1>6, <1>9 DEF Keeps

LEMMA NoteFits ==
    ASSUME NEW scope \in Scopes, NEW source \in Sources, NEW confidence \in Nat,
           NEW content \in SUBSET Facts, NEW tag \in {"note", "memory-digest"}
    PROVE  LET row == NewMemory(scope, source, confidence, content, NoKey, "note", tag, NoMemory)
           IN row \in MemoryRows /\ row.status = "active" /\ row.by = NoMemory /\ row.key = NoKey
<1>1. PICK current \in BOOLEAN : current = FALSE
  OBVIOUS
<1>2. NoKey \in Keys /\ NoMemory \in Nat
  BY DEF Keys, NoMemory
<1>3. PICK key \in Keys : key = NoKey
  BY <1>2
<1>4. PICK row : row = NewMemory(scope, source, confidence, content, NoKey, "note", tag, NoMemory)
  OBVIOUS
<1>5. row = [scope |-> scope, source |-> source, confidence |-> confidence, content |-> content,
             key |-> key, type |-> "note", tag |-> tag, by |-> NoMemory, status |-> "active", expired |-> current]
  BY <1>1, <1>3, <1>4 DEF NewMemory
<1>6. row \in MemoryRows
  BY <1>2, <1>5 DEF MemoryRows
<1> QED
  BY <1>3, <1>4, <1>5, <1>6

LEMMA WriteKeeps ==
    ASSUME LessonsInv, NEW scope \in Scopes, NEW source \in Sources, NEW confidence \in Nat, NEW fact \in Facts,
           WriteMemory(scope, source, confidence, fact)
    PROVE  LessonsInv'
<1>1. Sound(store) /\ (modelUsed \/ OnePerKey(store)) /\ modelUsed \in BOOLEAN /\ MaxMemories \in Nat
  BY RuntimeMemoryAssumption DEF LessonsInv, LessonsBounded
<1>2. PICK row : row = NewMemory(scope, source, confidence, {fact}, NoKey, "note", "note", NoMemory)
  OBVIOUS
<1>3. row \in MemoryRows /\ row.status = "active" /\ row.by = NoMemory /\ row.key = NoKey
  BY <1>2, NoteFits
<1>4. PICK new : new = Added(store, row)
  OBVIOUS
<1>5. Keeps(store, new) /\ (OnePerKey(store) => OnePerKey(new)) /\ Len(new.memories) = Len(store.memories) + 1
  BY <1>1, <1>3, <1>4, NoteKeeps
<1>6. Commit(new) /\ Len(memories) < MaxMemories /\ UNCHANGED <<outcome, layers, modelUsed, policies>>
  BY <1>2, <1>4 DEF WriteMemory
<1>7. Len(new.memories) <= MaxMemories
  <2>1. Len(memories) \in Nat
    BY <1>1, StoreFields, SoundFacts
  <2> QED
    BY <1>1, <1>5, <1>6, <2>1, StoreFields
<1> QED
  BY <1>1, <1>5, <1>6, <1>7, CommitKeeps

\* A change of one memory.
LEMMA ChangeKeeps ==
    ASSUME LessonsInv, NEW m \in Indices(memories), NEW row \in MemoryRows, SameRow(memories[m], row),
           NEW new, new = Synced([store EXCEPT !.memories[m] = row], m), Commit(new),
           UNCHANGED <<outcome, layers, modelUsed, policies>>
    PROVE  LessonsInv'
<1>1. Sound(store) /\ (modelUsed \/ OnePerKey(store)) /\ modelUsed \in BOOLEAN /\ Len(memories) <= MaxMemories
  BY DEF LessonsInv, LessonsBounded
<1>2. m \in Indices(store.memories) /\ SameRow(store.memories[m], row)
  BY StoreFields
<1>3. Keeps(store, new) /\ (OnePerKey(store) => OnePerKey(new)) /\ Len(new.memories) = Len(store.memories)
  BY <1>1, <1>2, RowKeeps
<1>4. Len(new.memories) <= MaxMemories
  BY <1>1, <1>3, StoreFields
<1> QED
  BY <1>1, <1>3, <1>4, CommitKeeps

LEMMA MemoryTyped ==
    ASSUME LessonsInv, NEW m \in Indices(memories)
    PROVE  memories[m] \in MemoryRows
BY StoreFields, SoundFacts DEF LessonsInv

LEMMA EditKeeps ==
    ASSUME LessonsInv, NEW m \in Indices(memories), NEW fact \in Facts, EditMemory(m, fact)
    PROVE  LessonsInv'
<1>1. PICK row : row = [memories[m] EXCEPT !.content = {fact}]
  OBVIOUS
<1>2. row \in MemoryRows /\ SameRow(memories[m], row)
  <2>1. PICK content \in SUBSET Facts : content = {fact}
    OBVIOUS
  <2>2. row = [memories[m] EXCEPT !.content = content]
    BY <1>1, <2>1
  <2> QED
    BY <2>2, MemoryTyped DEF MemoryRows, SameRow
<1>3. PICK new : new = Synced([store EXCEPT !.memories[m] = row], m)
  OBVIOUS
<1>4. Commit(new) /\ UNCHANGED <<outcome, layers, modelUsed, policies>>
  BY <1>1, <1>3, StoreFields DEF EditMemory
<1> QED
  BY <1>2, <1>3, <1>4, ChangeKeeps

LEMMA ForgetKeeps ==
    ASSUME LessonsInv, NEW m \in Indices(memories), ForgetMemory(m)
    PROVE  LessonsInv'
<1>1. PICK row : row = [memories[m] EXCEPT !.status = "forgotten"]
  OBVIOUS
<1>2. row \in MemoryRows /\ SameRow(memories[m], row)
  BY <1>1, MemoryTyped DEF MemoryRows, SameRow
<1>3. PICK new : new = Synced([store EXCEPT !.memories[m] = row], m)
  OBVIOUS
<1>4. Commit(new) /\ UNCHANGED <<outcome, layers, modelUsed, policies>>
  BY <1>1, <1>3, StoreFields DEF ForgetMemory
<1> QED
  BY <1>2, <1>3, <1>4, ChangeKeeps

\* A change of a memory that the index need not follow.
LEMMA QuietRowKeeps ==
    ASSUME NEW st, Sound(st), NEW m \in Indices(st.memories), NEW row \in MemoryRows,
           SameRow(st.memories[m], row), row.status = st.memories[m].status
    PROVE  LET new == [st EXCEPT !.memories[m] = row]
           IN /\ Sound(new) /\ (OnePerKey(st) => OnePerKey(new)) /\ (Tidy(st) => Tidy(new))
              /\ Len(new.memories) = Len(st.memories)
<1>1. PICK new : new = [st EXCEPT !.memories[m] = row]
  OBVIOUS
<1>2. /\ new \in Stores
      /\ new.indexed = st.indexed /\ new.candidates = st.candidates
      /\ Len(new.memories) = Len(st.memories) /\ new.memories[m] = row
      /\ \A j \in Indices(st.memories) : j # m => new.memories[j] = st.memories[j]
  BY <1>1, SoundFacts, RowChanged
<1>3. RowsStay(st, new)
  BY <1>2, SoundFacts DEF RowsStay, SameRow
<1>4. CandidatesStay(st, new)
  BY <1>2 DEF CandidatesStay
<1>5. Indices(new.memories) = Indices(st.memories) /\ Indices(new.candidates) = Indices(st.candidates)
  BY <1>2 DEF Indices
<1>6. FitTogether(new)
  <2>1. \A j \in Indices(new.memories) : new.memories[j].by <= Len(new.candidates)
    BY <1>2, <1>3, <1>5, SoundFacts DEF RowsStay
  <2>2. \A j \in Indices(new.candidates) : new.candidates[j].memory <= Len(new.memories)
    BY <1>2, <1>5, SoundFacts
  <2>3. new.indexed \subseteq Indices(new.memories)
    BY <1>2, <1>5, SoundFacts
  <2> QED
    BY <2>1, <2>2, <2>3 DEF FitTogether
<1>7. Sound(new) /\ (OnePerKey(st) => OnePerKey(new))
  BY <1>2, <1>3, <1>4, <1>6, SoundChange
<1>8. Tidy(st) => Tidy(new)
  <2>1. \A j \in Indices(st.memories) : new.memories[j].status = st.memories[j].status
    BY <1>2
  <2> QED
    BY <1>2, <1>5, <2>1 DEF Tidy, Active
<1> QED
  BY <1>1, <1>2, <1>7, <1>8

LEMMA ExpireMemoryKeeps ==
    ASSUME LessonsInv, NEW m \in Indices(memories), ExpireMemory(m)
    PROVE  LessonsInv'
<1>1. PICK row : row = [memories[m] EXCEPT !.expired = TRUE]
  OBVIOUS
<1>2. row \in MemoryRows /\ SameRow(memories[m], row) /\ row.status = memories[m].status
  <2>1. PICK expired \in BOOLEAN : expired = TRUE
    OBVIOUS
  <2>2. row = [memories[m] EXCEPT !.expired = expired]
    BY <1>1, <2>1
  <2> QED
    BY <2>2, MemoryTyped DEF MemoryRows, SameRow
<1>3. /\ Sound(store) /\ LessonsBounded /\ (modelUsed \/ OnePerKey(store)) /\ (ftsFailures = 0 => Tidy(store))
  BY DEF LessonsInv
<1>4. PICK new : new = [store EXCEPT !.memories[m] = row]
  OBVIOUS
<1>5. /\ Sound(new) /\ (OnePerKey(store) => OnePerKey(new)) /\ (Tidy(store) => Tidy(new))
      /\ Len(new.memories) = Len(store.memories)
  BY <1>2, <1>3, <1>4, StoreFields, QuietRowKeeps
<1>6. memories' = [memories EXCEPT ![m] = row] /\ indexed' = indexed /\ candidates' = candidates
  BY <1>1 DEF ExpireMemory
<1>7. store' = new
  BY <1>4, <1>6 DEF store
<1>8. LessonsBounded' /\ modelUsed' = modelUsed /\ ftsFailures' = ftsFailures
  <2>1. UNCHANGED <<outcome, layers, modelUsed, policies, ftsFailures>>
    BY DEF ExpireMemory
  <2>2. memories' = new.memories
    BY <1>4, <1>6 DEF store
  <2>3. Len(memories') <= MaxMemories
    BY <1>3, <1>5, <2>2, StoreFields DEF LessonsBounded
  <2> QED
    BY <1>3, <2>1, <2>3 DEF LessonsBounded
<1> QED
  BY <1>3, <1>5, <1>7, <1>8 DEF LessonsInv

LEMMA DigestKeeps ==
    ASSUME LessonsInv, CompileDigest
    PROVE  LessonsInv'
<1> DEFINE sources == {i \in Active(memories) : memories[i].scope \in LongTermScopes
                                                /\ memories[i].tag # "memory-digest"}
           digests == {i \in Active(memories) : memories[i].tag = "memory-digest"}
<1>1. PICK content : content = UNION {memories[i].content : i \in sources}
  OBVIOUS
<1>2. \A m \in Active(memories) : m \in Indices(memories) /\ m \in Nat
  BY StoreFields, SoundFacts DEF LessonsInv, Active
<1>3. content \in SUBSET Facts
  <2>1. \A m \in sources : memories[m].content \in SUBSET Facts
    BY <1>2, MemoryTyped DEF MemoryRows
  <2> QED
    BY <1>1, <2>1
<1>4. UNCHANGED <<outcome, layers, modelUsed, policies>>
  BY DEF CompileDigest
<1>5. PICK row : row = NewMemory("project", "agent_consolidator", 80, content, NoKey, "note", "memory-digest", NoMemory)
  OBVIOUS
<1>6. CASE Len(memories) < MaxMemories /\ Commit(Added(store, row))
  <2>1. row \in MemoryRows /\ row.status = "active" /\ row.by = NoMemory /\ row.key = NoKey
    <3>1. 80 \in Nat /\ "project" \in Scopes /\ "agent_consolidator" \in Sources
      BY DEF Scopes, Sources
    <3> QED
      BY <1>3, <1>5, <3>1, NoteFits
  <2>2. Sound(store) /\ (modelUsed \/ OnePerKey(store)) /\ modelUsed \in BOOLEAN /\ MaxMemories \in Nat
    BY RuntimeMemoryAssumption DEF LessonsInv, LessonsBounded
  <2>3. PICK new : new = Added(store, row)
    OBVIOUS
  <2>4. Keeps(store, new) /\ (OnePerKey(store) => OnePerKey(new)) /\ Len(new.memories) = Len(store.memories) + 1
    BY <2>1, <2>2, <2>3, NoteKeeps
  <2>5. Len(new.memories) <= MaxMemories
    <3>1. Len(memories) \in Nat
      BY <2>2, StoreFields, SoundFacts
    <3> QED
      BY <1>6, <2>2, <2>4, <3>1, StoreFields
  <2> QED
    BY <1>4, <1>6, <2>2, <2>3, <2>4, <2>5, CommitKeeps
<1>7. CASE digests # {} /\ Commit(Synced([store EXCEPT !.memories[First(digests)] =
                                             [@ EXCEPT !.content = content]], First(digests)))
  <2>1. PICK m : m = First(digests)
    OBVIOUS
  <2>2. digests \in SUBSET Nat
    BY <1>2
  <2>3. m \in Indices(memories)
    <3>1. m \in digests
      <4> HIDE DEF digests
      <4> QED
        BY <1>7, <2>1, <2>2, LeastIsThere
    <3> QED
      BY <1>2, <3>1
  <2>4. PICK changed : changed = [memories[m] EXCEPT !.content = content]
    OBVIOUS
  <2>5. changed \in MemoryRows /\ SameRow(memories[m], changed)
    BY <1>3, <2>3, <2>4, MemoryTyped DEF MemoryRows, SameRow
  <2>6. PICK new : new = Synced([store EXCEPT !.memories[m] = changed], m)
    OBVIOUS
  <2>7. Commit(new)
    BY <1>7, <2>1, <2>4, <2>6, StoreFields
  <2> QED
    BY <1>4, <2>3, <2>5, <2>6, <2>7, ChangeKeeps
<1> QED
  BY <1>1, <1>5, <1>6, <1>7 DEF CompileDigest

-----------------------------------------------------------------------------
(* Candidates and their consolidation.                                       *)

LEMMA CandidateFits ==
    ASSUME NEW run \in LessonRuns, NEW fact \in Facts, NEW evidence \in BOOLEAN
    PROVE  LET c == CandidateOf(run, fact, evidence)
           IN /\ c \in CandidateRows /\ c.run = run /\ c.type = Lesson(run) /\ c.memory = NoMemory
              /\ c.key[1] = c.scope /\ c.key[2] = c.type
<1>1. PICK scope \in Scopes : scope = IF outcome[run] = "completed" THEN "project" ELSE "episode"
  BY DEF Scopes
<1>2. PICK type \in Lessons : type = Lesson(run)
  BY DEF Lesson, Lessons
<1>3. PICK confidence \in Nat :
        confidence = IF run \in WorkflowRuns THEN (IF outcome[run] = "completed" THEN 75 ELSE 60)
                     ELSE (IF outcome[run] = "completed" THEN 85 ELSE 65)
  <2>1. 75 \in Nat /\ 60 \in Nat /\ 85 \in Nat /\ 65 \in Nat
    OBVIOUS
  <2> QED
    BY <2>1
<1>4. PICK goal \in {GoalOf[r] : r \in LessonRuns} : goal = GoalOf[run]
  OBVIOUS
<1>5. PICK key : key = <<scope, type, goal>>
  OBVIOUS
<1>6. key \in Keys \ {NoKey} /\ key[1] = scope /\ key[2] = type
  <2>1. key \in Scopes \X Lessons \X {GoalOf[r] : r \in LessonRuns}
    BY <1>5
  <2>2. key # <<>>
    BY <1>5
  <2> QED
    BY <1>5, <2>1, <2>2 DEF Keys, NoKey
<1>7. PICK content \in SUBSET Facts : content = {fact}
  OBVIOUS
<1>8. PICK c : c = CandidateOf(run, fact, evidence)
  OBVIOUS
<1>9. c = [run |-> run, type |-> type, scope |-> scope, content |-> content, key |-> key,
           confidence |-> confidence, evidence |-> evidence, status |-> "pending", memory |-> NoMemory]
  BY <1>1, <1>2, <1>3, <1>4, <1>5, <1>7, <1>8 DEF CandidateOf
<1>10. NoMemory \in Nat
  BY DEF NoMemory
<1>11. c \in CandidateRows
  <2> HIDE DEF NoMemory
  <2> QED
    BY <1>6, <1>9, <1>10 DEF CandidateRows
<1> QED
  BY <1>2, <1>6, <1>8, <1>9, <1>11

LEMMA ExtractionsAre ==
    ASSUME NEW run, NEW extracted \in Extractions(run)
    PROVE  \/ extracted = candidates
           \/ /\ ~HasCandidate(run)
              /\ \E fact \in Facts, evidence \in BOOLEAN :
                   extracted = Append(candidates, CandidateOf(run, fact, evidence))
<1> DEFINE A == {Append(candidates, CandidateOf(run, fact, evidence)) : fact \in Facts, evidence \in Evidence(run)}
<1>1. Extractions(run) = IF HasCandidate(run) THEN {candidates} ELSE A
  BY DEF Extractions
<1>2. CASE HasCandidate(run)
  BY <1>1, <1>2
<1>3. CASE ~HasCandidate(run)
  <2>1. extracted \in A
    <3> HIDE DEF A
    <3> QED
      BY <1>1, <1>3
  <2>2. \E fact \in Facts, evidence \in Evidence(run) : extracted = Append(candidates, CandidateOf(run, fact, evidence))
    BY <2>1
  <2>3. Evidence(run) \subseteq BOOLEAN
    BY DEF Evidence
  <2> QED
    BY <1>3, <2>2, <2>3
<1> QED
  BY <1>2, <1>3

\* Extraction adds at most one candidate, of a lesson the run has not.
LEMMA ExtractionFits ==
    ASSUME Sound(store), NEW run \in LessonRuns, NEW extracted \in Extractions(run)
    PROVE  LET new == [store EXCEPT !.candidates = extracted]
           IN /\ Sound(new) /\ new.memories = memories /\ new.indexed = indexed /\ new.candidates = extracted
              /\ OnePerKey(store) => OnePerKey(new)
              /\ Tidy(store) => Tidy(new)
<1> DEFINE new == [store EXCEPT !.candidates = extracted]
<1>0. /\ store \in Stores /\ FitTogether(store) /\ OneOfEach(store)
      /\ Learned(store) /\ LearnedOnce(store) /\ KeysAreTheirs(store)
  BY DEF Sound
<1>1. /\ memories \in Seq(MemoryRows) /\ indexed \in SUBSET Nat /\ candidates \in Seq(CandidateRows)
      /\ Len(candidates) \in Nat /\ Len(memories) \in Nat
  BY <1>0, StoreLengths, StoreFields
<1>2. new = [memories |-> memories, indexed |-> indexed, candidates |-> extracted]
  BY DEF store
<1>3. new.memories = memories /\ new.indexed = indexed /\ new.candidates = extracted
  BY <1>2
<1>4. (OnePerKey(store) => OnePerKey(new)) /\ (Tidy(store) => Tidy(new))
  BY <1>3, StoreFields DEF OnePerKey, Tidy
<1>5. CASE extracted = candidates
  <2>1. new = store
    BY <1>2, <1>5 DEF store
  <2> QED
    BY <1>3, <2>1
<1>6. CASE extracted # candidates
  <2>1. PICK fact \in Facts, evidence \in BOOLEAN : extracted = Append(candidates, CandidateOf(run, fact, evidence))
    BY <1>6, ExtractionsAre
  <2>2. \A i \in CandidatesOf(run) : candidates[i].type # Lesson(run)
    BY <1>6, ExtractionsAre DEF HasCandidate
  <2>3. PICK c : c = CandidateOf(run, fact, evidence)
    OBVIOUS
  <2>4. /\ c \in CandidateRows /\ c.run = run /\ c.type = Lesson(run) /\ c.memory = NoMemory
        /\ c.key[1] = c.scope /\ c.key[2] = c.type
    BY <2>3, CandidateFits
  <2>5. PICK n \in Nat : n = Len(candidates) + 1
    BY <1>1
  <2>6. /\ extracted \in Seq(CandidateRows) /\ Len(extracted) = n /\ extracted[n] = c
        /\ \A i \in 1..Len(candidates) : extracted[i] = candidates[i]
    BY <1>1, <2>1, <2>3, <2>4, <2>5
  <2>7. /\ Indices(extracted) = Indices(candidates) \cup {n} /\ n \notin Indices(candidates)
        /\ \A i \in Indices(candidates) : extracted[i] = candidates[i]
    BY <1>1, <2>5, <2>6 DEF Indices
  <2> HIDE DEF new
  <2>8. new \in Stores
    BY <1>1, <1>2, <2>6 DEF Stores
  <2>9. FitTogether(new)
    <3>1. \A m \in Indices(memories) : memories[m].by \in Nat /\ memories[m].by <= Len(candidates)
      <4> TAKE m \in Indices(memories)
      <4>1. memories[m] \in MemoryRows /\ memories[m].by <= Len(candidates)
        BY SoundFacts, StoreFields
      <4> QED
        BY <4>1 DEF MemoryRows
    <3>2. \A m \in Indices(memories) : memories[m].by <= n
      BY <1>1, <2>5, <3>1
    <3>3. \A i \in Indices(candidates) : candidates[i].memory <= Len(memories)
      BY SoundFacts, StoreFields
    <3>4. c.memory <= Len(memories)
      BY <1>1, <2>4 DEF NoMemory
    <3>5. \A i \in Indices(extracted) : extracted[i].memory <= Len(memories)
      BY <2>6, <2>7, <3>3, <3>4
    <3>6. indexed \subseteq Indices(memories)
      BY SoundFacts, StoreFields
    <3> QED
      BY <1>3, <2>6, <3>2, <3>5, <3>6 DEF FitTogether
  <2>10. OneOfEach(new)
    <3>1. \A i \in Indices(candidates) : ~(candidates[i].run = c.run /\ candidates[i].type = c.type)
      BY <2>2, <2>4 DEF CandidatesOf
    <3>2. \A i, j \in Indices(candidates) :
            candidates[i].run = candidates[j].run /\ candidates[i].type = candidates[j].type => i = j
      BY <1>0, StoreFields DEF OneOfEach
    <3>3. \A i, j \in Indices(extracted) :
            extracted[i].run = extracted[j].run /\ extracted[i].type = extracted[j].type => i = j
      BY <2>6, <2>7, <3>1, <3>2
    <3> QED
      BY <1>3, <3>3 DEF OneOfEach
  <2>11. Learned(new)
    <3> SUFFICES ASSUME NEW m \in Indices(memories), memories[m].by # NoMemory
                 PROVE  IsDecided(extracted[memories[m].by])
      BY <1>3 DEF Learned
    <3>1. memories[m] \in MemoryRows /\ memories[m].by <= Len(candidates)
      BY SoundFacts, StoreFields
    <3>2. memories[m].by \in Indices(candidates)
      BY <1>1, <3>1 DEF MemoryRows, Indices, NoMemory
    <3>3. IsDecided(candidates[memories[m].by])
      BY <1>0, StoreFields DEF Learned
    <3> QED
      BY <2>7, <3>2, <3>3
  <2>12. LearnedOnce(new)
    BY <1>0, <1>3, StoreFields DEF LearnedOnce
  <2>13. KeysAreTheirs(new)
    <3>1. \A m \in Indices(memories) :
            memories[m].key # NoKey => memories[m].key[1] = memories[m].scope /\ memories[m].key[2] = memories[m].type
      BY <1>0, StoreFields DEF KeysAreTheirs
    <3>2. \A i \in Indices(candidates) :
            candidates[i].key[1] = candidates[i].scope /\ candidates[i].key[2] = candidates[i].type
      BY <1>0, StoreFields DEF KeysAreTheirs
    <3>3. \A i \in Indices(extracted) :
            extracted[i].key[1] = extracted[i].scope /\ extracted[i].key[2] = extracted[i].type
      BY <2>4, <2>6, <2>7, <3>2
    <3> QED
      BY <1>3, <3>1, <3>3 DEF KeysAreTheirs
  <2> QED
    BY <1>3, <1>4, <2>8, <2>9, <2>10, <2>11, <2>12, <2>13 DEF Sound, new
<1> QED
  BY <1>3, <1>4, <1>5, <1>6

LEMMA ListKeeps ==
    ASSUME LessonsInv, NEW run \in LessonRuns, NEW extracted \in Extractions(run), ListCandidates(run, extracted)
    PROVE  LessonsInv'
<1>1. Sound(store) /\ LessonsBounded /\ (modelUsed \/ OnePerKey(store)) /\ (ftsFailures = 0 => Tidy(store))
  BY DEF LessonsInv
<1>2. PICK new : new = [store EXCEPT !.candidates = extracted]
  OBVIOUS
<1>3. Sound(new) /\ (OnePerKey(store) => OnePerKey(new)) /\ (Tidy(store) => Tidy(new))
  BY <1>1, <1>2, ExtractionFits
<1>4. candidates' = extracted /\ UNCHANGED <<outcome, memories, indexed, layers, modelUsed, policies, ftsFailures>>
  BY DEF ListCandidates
<1>5. store' = new
  BY <1>2, <1>4 DEF store
<1>6. LessonsBounded'
  BY <1>1, <1>4 DEF LessonsBounded
<1> QED
  BY <1>1, <1>3, <1>4, <1>5, <1>6 DEF LessonsInv

\* The candidates of a run.
Own(run, extracted) == {i \in Indices(extracted) : extracted[i].run = run}

\* There are two at most, so that consolidation leaves none out.
LEMMA EveryLessonIsHandled ==
    ASSUME Sound(store), NEW run \in LessonRuns, NEW extracted \in Extractions(run), NEW i \in Own(run, extracted)
    PROVE  LET later == Own(run, extracted) \ {First(Own(run, extracted))}
           IN i = First(Own(run, extracted)) \/ i = First(later)
<1> DEFINE own == Own(run, extracted)
           later == own \ {First(own)}
<1>1. PICK new : new = [store EXCEPT !.candidates = extracted]
  OBVIOUS
<1>2. Sound(new) /\ new.candidates = extracted
  BY <1>1, ExtractionFits
<1>3. \A j \in own : j \in Nat /\ extracted[j].type \in Lessons
  BY <1>2, SoundFacts DEF Own, CandidateRows
<1>4. \A j, k \in own : extracted[j].type = extracted[k].type => j = k
  <2>1. OneOfEach(new)
    BY <1>2 DEF Sound
  <2> QED
    BY <1>2, <2>1 DEF OneOfEach, Own
<1> HIDE DEF own
<1>5. First(own) \in own
  <2>1. own \in SUBSET Nat
    BY <1>3
  <2> QED
    BY <2>1, LeastIsThere DEF own
<1>6. CASE i \in later
  <2>1. First(later) \in own \ {First(own)}
    <3>1. later \in SUBSET Nat /\ later # {}
      BY <1>3, <1>6
    <3> HIDE DEF later
    <3>2. First(later) \in later
      BY <3>1, LeastIsThere
    <3> QED
      BY <3>2 DEF later
  <2>2. /\ extracted[i].type \in Lessons /\ extracted[First(own)].type \in Lessons
        /\ extracted[First(later)].type \in Lessons
        /\ extracted[i].type # extracted[First(own)].type
        /\ extracted[First(later)].type # extracted[First(own)].type
    BY <1>3, <1>4, <1>5, <1>6, <2>1
  <2>3. extracted[i].type = extracted[First(later)].type
    BY <2>2 DEF Lessons
  <2> QED
    BY <1>4, <1>6, <2>1, <2>3 DEF own
<1>7. CASE i \notin later
  BY <1>7 DEF own
<1> QED
  BY <1>6, <1>7

LEMMA ConsolidatedKeeps ==
    ASSUME Sound(store), NEW run \in LessonRuns, NEW extracted \in Extractions(run), NEW auto \in BOOLEAN,
           NEW decision \in ModelAnswers, Own(run, extracted) # {}
    PROVE  LET new == Consolidated(run, extracted, auto, decision)
           IN /\ Sound(new) /\ RowsStay(store, new) /\ (Tidy(store) => Tidy(new))
              /\ decision = NoDecision /\ OnePerKey(store) => OnePerKey(new)
<1>1. PICK own : own = Own(run, extracted)
  OBVIOUS
<1>2. PICK later : later = own \ {First(own)}
  OBVIOUS
<1>3. PICK st : st = [store EXCEPT !.candidates = extracted]
  OBVIOUS
<1>4. PICK first : first = Handled(st, First(own), auto, decision)
  OBVIOUS
<1>5. Consolidated(run, extracted, auto, decision)
        = IF later = {} THEN first ELSE Handled(first, First(later), auto, decision)
  BY <1>1, <1>2, <1>3, <1>4 DEF Consolidated, Own
<1>6. /\ Sound(st) /\ st.memories = memories /\ st.candidates = extracted
      /\ (OnePerKey(store) => OnePerKey(st)) /\ (Tidy(store) => Tidy(st))
  BY <1>3, ExtractionFits
<1>7. own \in SUBSET Nat /\ own \subseteq Indices(extracted)
  BY <1>1, <1>6, SoundFacts DEF Own
<1>8. First(own) \in Indices(st.candidates)
  BY <1>1, <1>6, <1>7, LeastIsThere
<1>9. Keeps(st, first) /\ (decision = NoDecision /\ OnePerKey(st) => OnePerKey(first))
  BY <1>4, <1>6, <1>8, HandledKeeps
<1>10. ASSUME NEW new, Keeps(st, new)
       PROVE  Sound(new) /\ RowsStay(store, new) /\ (Tidy(store) => Tidy(new))
  BY <1>6, <1>10, StoreFields DEF Keeps, RowsStay
<1>11. CASE later = {}
  BY <1>5, <1>6, <1>9, <1>10, <1>11
<1>12. CASE later # {}
  <2>1. First(later) \in later
    BY <1>2, <1>7, <1>12, LeastIsThere
  <2>2. Len(first.candidates) = Len(extracted) /\ Sound(first)
    BY <1>6, <1>9 DEF Keeps, CandidatesStay
  <2>3. First(later) \in Indices(first.candidates)
    BY <1>2, <1>7, <2>1, <2>2 DEF Indices
  <2>4. PICK new : new = Handled(first, First(later), auto, decision)
    OBVIOUS
  <2>5. Keeps(first, new) /\ (decision = NoDecision /\ OnePerKey(first) => OnePerKey(new))
    BY <2>2, <2>3, <2>4, HandledKeeps
  <2>6. Keeps(st, new)
    BY <1>6, <1>9, <2>5, KeepsTogether
  <2> QED
    BY <1>5, <1>6, <1>9, <1>10, <1>12, <2>4, <2>5, <2>6
<1> QED
  BY <1>11, <1>12

LEMMA ConsolidateKeeps ==
    ASSUME LessonsInv, NEW run \in LessonRuns, NEW extracted \in Extractions(run), NEW auto \in BOOLEAN,
           NEW decision \in ModelDecisions, Consolidate(run, extracted, auto, decision)
    PROVE  LessonsInv'
<1>1. Sound(store) /\ (modelUsed \/ OnePerKey(store)) /\ modelUsed \in BOOLEAN
  BY DEF LessonsInv, LessonsBounded
<1>2. decision \in ModelAnswers
  <2>1. {NoMemory} \cup Active(memories) \subseteq Nat
    BY <1>1, StoreFields, SoundFacts DEF NoMemory
  <2>2. CASE decision = NoDecision
    BY <2>2 DEF ModelAnswers
  <2>3. CASE decision \in [relation : Relations, target : {NoMemory} \cup Active(memories), confidence : {60, 90}]
    <3>1. decision \in [relation : Relations, target : Nat, confidence : {60, 90}]
      BY <2>1, <2>3
    <3> QED
      BY <3>1 DEF ModelAnswers
  <2> QED
    BY <2>2, <2>3 DEF ModelDecisions
<1>3. Own(run, extracted) # {}
  BY DEF Consolidate, Own
<1>4. PICK new : new = Consolidated(run, extracted, auto, decision)
  OBVIOUS
<1>5. /\ Sound(new) /\ RowsStay(store, new) /\ (Tidy(store) => Tidy(new))
      /\ decision = NoDecision /\ OnePerKey(store) => OnePerKey(new)
  BY <1>1, <1>2, <1>3, <1>4, ConsolidatedKeeps
<1>6. /\ Commit(new) /\ Len(new.memories) <= MaxMemories
      /\ modelUsed' = (modelUsed \/ decision # NoDecision)
      /\ UNCHANGED <<outcome, layers, policies>>
  BY <1>4 DEF Consolidate
<1>7. modelUsed' \in BOOLEAN /\ (modelUsed' \/ OnePerKey(new))
  BY <1>1, <1>5, <1>6
<1> QED
  BY <1>5, <1>6, <1>7, CommitSound

LEMMA EndRunKeeps ==
    ASSUME LessonsInv, NEW run \in LessonRuns, NEW status \in {"completed", "failed"}, EndRun(run, status)
    PROVE  LessonsInv'
<1>1. LessonsBounded
  BY DEF LessonsInv
<1>2. outcome' \in [LessonRuns -> {"running", "completed", "failed"}]
  BY <1>1 DEF EndRun, LessonsBounded
<1>3. UNCHANGED <<memories, indexed, candidates, layers, modelUsed, policies, ftsFailures>>
  BY DEF EndRun
<1>4. LessonsBounded'
  BY <1>1, <1>2, <1>3 DEF LessonsBounded
<1> QED
  BY <1>3, <1>4, StoreStays

LEMMA SetPolicyKeeps ==
    ASSUME LessonsInv, NEW layer \in LayerNames, NEW policy \in LayerChoices, SetPolicy(layer, policy)
    PROVE  LessonsInv'
<1>1. LessonsBounded
  BY DEF LessonsInv
<1>2. layers' \in [LayerNames -> LayerChoices \cup {NoLayer}] /\ policies' \in 0..MaxPolicies
  BY <1>1, RuntimeMemoryAssumption DEF SetPolicy, LessonsBounded
<1>3. UNCHANGED <<outcome, memories, indexed, candidates, modelUsed, ftsFailures>>
  BY DEF SetPolicy
<1>4. LessonsBounded'
  BY <1>1, <1>2, <1>3 DEF LessonsBounded
<1> QED
  BY <1>3, <1>4, StoreStays

LEMMA LessonsInvInit == LessonsInit => LessonsInv
<1> SUFFICES ASSUME LessonsInit PROVE LessonsInv
  OBVIOUS
<1>1. /\ outcome = [r \in LessonRuns |-> "running"]
      /\ memories = <<>> /\ indexed = {} /\ candidates = <<>>
      /\ layers = [l \in LayerNames |-> NoLayer]
      /\ modelUsed = FALSE /\ policies = 0 /\ ftsFailures = 0
  BY DEF LessonsInit
<1>2. LessonsBounded
  <2>1. 0 \in 0..MaxPolicies /\ 0 \in 0..MaxFtsFailures /\ 0 <= MaxMemories
    BY RuntimeMemoryAssumption
  <2>2. Len(memories) = 0
    BY <1>1
  <2>3. /\ outcome \in [LessonRuns -> {"running", "completed", "failed"}]
        /\ layers \in [LayerNames -> LayerChoices \cup {NoLayer}]
    BY <1>1
  <2>4. modelUsed \in BOOLEAN
    BY <1>1
  <2> QED
    BY <1>1, <2>1, <2>2, <2>3, <2>4 DEF LessonsBounded
<1>3. PICK st : st = store
  OBVIOUS
<1>4. st \in Stores /\ st.memories = <<>> /\ st.indexed = {} /\ st.candidates = <<>>
  BY <1>1, <1>3 DEF store, Stores
<1>5. Indices(st.memories) = {} /\ Indices(st.candidates) = {}
  BY <1>4 DEF Indices
<1>6. Sound(st)
  BY <1>4, <1>5 DEF Sound, FitTogether, OneOfEach, Learned, LearnedOnce, KeysAreTheirs
<1>7. Active(st.memories) = {}
  BY <1>5 DEF Active
<1>8. OnePerKey(st) /\ Tidy(st)
  BY <1>4, <1>7 DEF OnePerKey, Tidy
<1> QED
  BY <1>2, <1>3, <1>6, <1>8 DEF LessonsInv

LEMMA LessonsInvNext == LessonsInv /\ [LessonsNext]_lessonVars => LessonsInv'
<1> SUFFICES ASSUME LessonsInv, [LessonsNext]_lessonVars PROVE LessonsInv'
  OBVIOUS
<1>1. ASSUME NEW fact \in Facts, NEW scope \in {"project", "episode"}, NEW source \in {"manual", "web"},
             NEW c \in {40, 100}, WriteMemory(scope, source, c, fact)
      PROVE  LessonsInv'
  <2>1. scope \in Scopes /\ source \in Sources /\ c \in Nat
    BY DEF Scopes, Sources
  <2> QED
    BY <1>1, <2>1, WriteKeeps
<1>2. ASSUME NEW fact \in Facts, NEW m \in Indices(memories), EditMemory(m, fact) PROVE LessonsInv'
  BY <1>2, EditKeeps
<1>3. ASSUME NEW m \in Indices(memories), ForgetMemory(m) \/ ExpireMemory(m) PROVE LessonsInv'
  BY <1>3, ForgetKeeps, ExpireMemoryKeeps
<1>4. CASE CompileDigest
  BY <1>4, DigestKeeps
<1>5. ASSUME NEW run \in LessonRuns, NEW status \in {"completed", "failed"}, EndRun(run, status) PROVE LessonsInv'
  BY <1>5, EndRunKeeps
<1>6. ASSUME NEW run \in LessonRuns, NEW extracted \in Extractions(run), ListCandidates(run, extracted)
      PROVE  LessonsInv'
  BY <1>6, ListKeeps
<1>7. ASSUME NEW run \in LessonRuns, NEW extracted \in Extractions(run), NEW auto \in BOOLEAN,
             NEW d \in ModelDecisions, Consolidate(run, extracted, auto, d)
      PROVE  LessonsInv'
  BY <1>7, ConsolidateKeeps
<1>8. ASSUME NEW layer \in LayerNames, NEW policy \in LayerChoices, SetPolicy(layer, policy) PROVE LessonsInv'
  BY <1>8, SetPolicyKeeps
<1>9. CASE UNCHANGED lessonVars
  <2>1. UNCHANGED <<outcome, memories, indexed, candidates, layers, modelUsed, policies, ftsFailures>>
    BY <1>9 DEF lessonVars
  <2>2. LessonsBounded'
    BY <2>1 DEF LessonsInv, LessonsBounded
  <2> QED
    BY <2>1, <2>2, StoreStays
<1>10. CASE LessonsNext
  <2>1. CASE \E fact \in Facts :
               \/ \E scope \in {"project", "episode"}, source \in {"manual", "web"}, c \in {40, 100} :
                    WriteMemory(scope, source, c, fact)
               \/ \E i \in Indices(memories) : EditMemory(i, fact)
    BY <1>1, <1>2, <2>1
  <2>2. CASE \E i \in Indices(memories) : ForgetMemory(i) \/ ExpireMemory(i)
    BY <1>3, <2>2
  <2>3. CASE \E run \in LessonRuns :
               \/ \E status \in {"completed", "failed"} : EndRun(run, status)
               \/ \E extracted \in Extractions(run) :
                    \/ ListCandidates(run, extracted)
                    \/ \E auto \in BOOLEAN, d \in ModelDecisions : Consolidate(run, extracted, auto, d)
    BY <1>5, <1>6, <1>7, <2>3
  <2>4. CASE \E layer \in LayerNames, policy \in LayerChoices : SetPolicy(layer, policy)
    BY <1>8, <2>4
  <2> QED
    BY <1>4, <1>10, <2>1, <2>2, <2>3, <2>4 DEF LessonsNext
<1> QED
  BY <1>9, <1>10

LEMMA LessonsInvHolds == LessonsSpec => []LessonsInv
<1> QED
  BY LessonsInvInit, LessonsInvNext, PTL DEF LessonsSpec

\* Memories and candidates have the rows the code gives them and refer to rows that
\* are there, and a run has one candidate of its failure and one of its success.
THEOREM LessonsTypeCorrect == LessonsSpec => []LessonsTypeOK
<1>1. LessonsInv => LessonsTypeOK
  <2> SUFFICES ASSUME LessonsInv PROVE LessonsTypeOK
    OBVIOUS
  <2>1. LessonsBounded /\ Sound(store)
    BY DEF LessonsInv
  <2>2. memories \in Seq(MemoryRows) /\ candidates \in Seq(CandidateRows)
    BY <2>1, StoreFields, StoreLengths, SoundFacts
  <2>3. /\ \A i \in Indices(memories) : memories[i].by <= Len(candidates)
        /\ indexed \subseteq Indices(memories)
        /\ \A i \in Indices(candidates) : candidates[i].memory <= Len(memories)
    BY <2>1, StoreFields DEF Sound, FitTogether
  <2>4. \A i, j \in Indices(candidates) :
          candidates[i].run = candidates[j].run /\ candidates[i].type = candidates[j].type => i = j
    BY <2>1, StoreFields DEF Sound, OneOfEach
  <2> QED
    BY <2>1, <2>2, <2>3, <2>4 DEF LessonsTypeOK, LessonsBounded
<1> QED
  BY <1>1, LessonsInvHolds, PTL

\* Consolidation may be repeated, by the run and by the command, and may overlap with the
\* other changes of the memories: no candidate becomes two memories, and a goal has one
\* active lesson of each kind unless a model related a candidate to another goal's.
THEOREM LessonsNeverMultiply == LessonsSpec => []LessonsDoNotMultiply
<1>1. LessonsInv => LessonsDoNotMultiply
  <2> SUFFICES ASSUME LessonsInv PROVE LessonsDoNotMultiply
    OBVIOUS
  <2>1. Sound(store) /\ (modelUsed \/ OnePerKey(store))
    BY DEF LessonsInv
  <2>2. LessonsAreLearnedOnce
    BY <2>1, StoreFields DEF Sound, LearnedOnce, LessonsAreLearnedOnce
  <2>3. OneLessonPerKey
    BY <2>1, StoreFields DEF OnePerKey, OneLessonPerKey
  <2> QED
    BY <2>2, <2>3 DEF LessonsDoNotMultiply
<1> QED
  BY <1>1, LessonsInvHolds, PTL

-----------------------------------------------------------------------------
(* Prompts.                                                                  *)

\* What a merged policy has of the ones it was made of.
Typed(policy) ==
    policy.include \in BOOLEAN /\ policy.maxItems \in Int /\ policy.minConfidence \in Int
Tightens(policy, layer) ==
    /\ "minConfidence" \in DOMAIN layer => policy.minConfidence >= layer.minConfidence
    /\ policy.include /\ "include" \in DOMAIN layer => layer.include

LEMMA MergedTightens ==
    ASSUME NEW base, Typed(base), NEW layer \in LayerChoices \cup {NoLayer}
    PROVE  LET policy == MergedPolicy(base, layer)
           IN /\ Typed(policy) /\ Tightens(policy, layer)
              /\ policy.minConfidence >= base.minConfidence /\ (policy.include => base.include)
<1>1. /\ "include" \in DOMAIN layer => layer.include \in BOOLEAN
      /\ "maxItems" \in DOMAIN layer => layer.maxItems \in Int
      /\ "minConfidence" \in DOMAIN layer => layer.minConfidence \in Int
  <2>1. CASE layer \in LayerChoices
    BY <2>1, LayerAssumption
  <2>2. CASE layer = NoLayer
    <3>1. DOMAIN layer = {}
      BY <2>2 DEF NoLayer
    <3> QED
      BY <3>1
  <2> QED
    BY <2>1, <2>2
<1>2. PICK policy : policy = MergedPolicy(base, layer)
  OBVIOUS
<1>3. /\ policy.include = (base.include /\ ("include" \in DOMAIN layer => layer.include))
      /\ policy.maxItems = IF "maxItems" \in DOMAIN layer /\ layer.maxItems < base.maxItems
                           THEN layer.maxItems ELSE base.maxItems
      /\ policy.minConfidence = IF "minConfidence" \in DOMAIN layer /\ layer.minConfidence > base.minConfidence
                                THEN layer.minConfidence ELSE base.minConfidence
  BY <1>2 DEF MergedPolicy
<1>4. policy.include \in BOOLEAN /\ (policy.include => base.include)
      /\ (policy.include /\ "include" \in DOMAIN layer => layer.include)
  BY <1>1, <1>3 DEF Typed
<1>5. policy.maxItems \in Int /\ policy.minConfidence \in Int /\ policy.minConfidence >= base.minConfidence
      /\ ("minConfidence" \in DOMAIN layer => policy.minConfidence >= layer.minConfidence)
  BY <1>1, <1>3 DEF Typed
<1> QED
  BY <1>2, <1>4, <1>5 DEF Typed, Tightens

LEMMA PolicyTightens ==
    ASSUME LessonsBounded
    PROVE  Typed(Policy) /\ \A name \in DOMAIN layers : Tightens(Policy, layers[name])
<1>1. PICK one : one = MergedPolicy(DefaultPolicy, layers["global"])
  OBVIOUS
<1>2. PICK two : two = MergedPolicy(one, layers["project"])
  OBVIOUS
<1>3. PICK three : three = MergedPolicy(two, layers["skill"])
  OBVIOUS
<1>4. /\ DOMAIN layers = {"global", "project", "skill"}
      /\ \A name \in {"global", "project", "skill"} : layers[name] \in LayerChoices \cup {NoLayer}
  BY DEF LessonsBounded, LayerNames
<1>5. Typed(DefaultPolicy)
  BY DEF Typed, DefaultPolicy
<1>6. Typed(one) /\ Tightens(one, layers["global"])
  BY <1>1, <1>4, <1>5, MergedTightens
<1>7. /\ Typed(two) /\ Tightens(two, layers["project"])
      /\ two.minConfidence >= one.minConfidence /\ (two.include => one.include)
  BY <1>2, <1>4, <1>6, MergedTightens
<1>8. /\ Typed(three) /\ Tightens(three, layers["skill"])
      /\ three.minConfidence >= two.minConfidence /\ (three.include => two.include)
  BY <1>3, <1>4, <1>7, MergedTightens
<1>9. \A name \in {"global", "project", "skill"} :
        "minConfidence" \in DOMAIN layers[name] => layers[name].minConfidence \in Int
  <2> SUFFICES ASSUME NEW name \in {"global", "project", "skill"}, "minConfidence" \in DOMAIN layers[name]
               PROVE  layers[name].minConfidence \in Int
    OBVIOUS
  <2>1. CASE layers[name] \in LayerChoices
    BY <2>1, LayerAssumption
  <2>2. CASE layers[name] = NoLayer
    <3>1. DOMAIN layers[name] = {}
      BY <2>2 DEF NoLayer
    <3> QED
      BY <3>1
  <2> QED
    BY <1>4, <2>1, <2>2
<1>10. Tightens(three, layers["global"])
  BY <1>6, <1>7, <1>8, <1>9 DEF Tightens, Typed
<1>11. Tightens(three, layers["project"])
  BY <1>7, <1>8, <1>9 DEF Tightens, Typed
<1>12. three = Policy
  BY <1>1, <1>2, <1>3 DEF Policy
<1> QED
  BY <1>4, <1>8, <1>10, <1>11, <1>12

\* Whatever the index still finds and whichever layers of policies there are, a prompt gets
\* active memories that have not expired and are as certain as every layer asks, and none
\* when one layer excludes memory; and the index that did not fail has the active ones.
THEOREM PromptsStayCurrent == LessonsSpec => []PromptsAreCurrent
<1>1. LessonsInv => PromptsAreCurrent
  <2> SUFFICES ASSUME LessonsInv PROVE PromptsAreCurrent
    OBVIOUS
  <2>1. LessonsBounded /\ Sound(store) /\ (ftsFailures = 0 => Tidy(store))
    BY DEF LessonsInv
  <2>2. IndexFollowsMemories
    BY <2>1, StoreFields DEF Tidy, IndexFollowsMemories
  <2>3. ASSUME NEW fact \in Facts, NEW i \in Pack(fact)
        PROVE  /\ memories[i].status = "active" /\ ~memories[i].expired
               /\ \A name \in DOMAIN layers :
                    /\ "minConfidence" \in DOMAIN layers[name] => memories[i].confidence >= layers[name].minConfidence
                    /\ "include" \in DOMAIN layers[name] => layers[name].include
    <3>1. i \in Recalled(fact, Policy)
      BY DEF Pack
    <3>2. Policy.include /\ Readable(memories[i], Policy) /\ i \in Found(fact)
      BY <3>1 DEF Recalled
    <3>3. i \in Indices(memories)
      BY <2>1, <3>2, StoreFields, SoundFacts DEF Found, Active
    <3>4. memories[i].status = "active" /\ ~memories[i].expired /\ memories[i].confidence >= Policy.minConfidence
      BY <3>2 DEF Readable
    <3>5. memories[i].confidence \in Nat
      BY <2>1, <3>3, StoreFields, SoundFacts DEF MemoryRows
    <3>6. ASSUME NEW name \in DOMAIN layers
          PROVE  /\ "minConfidence" \in DOMAIN layers[name] => memories[i].confidence >= layers[name].minConfidence
                 /\ "include" \in DOMAIN layers[name] => layers[name].include
      <4>1. Typed(Policy) /\ Tightens(Policy, layers[name])
        BY <2>1, PolicyTightens
      <4>2. "include" \in DOMAIN layers[name] => layers[name].include
        BY <3>2, <4>1 DEF Tightens
      <4>3. "minConfidence" \in DOMAIN layers[name] => layers[name].minConfidence \in Int
        <5>1. layers[name] \in LayerChoices \cup {NoLayer}
          BY <2>1 DEF LessonsBounded
        <5>2. DOMAIN NoLayer = {}
          BY DEF NoLayer
        <5> QED
          BY <5>1, <5>2, LayerAssumption
      <4>4. "minConfidence" \in DOMAIN layers[name] => memories[i].confidence >= layers[name].minConfidence
        <5>1. Policy.minConfidence \in Int
          BY <4>1 DEF Typed
        <5>2. "minConfidence" \in DOMAIN layers[name] => Policy.minConfidence >= layers[name].minConfidence
          BY <4>1 DEF Tightens
        <5> QED
          BY <3>4, <3>5, <4>3, <5>1, <5>2
      <4> QED
        BY <4>2, <4>4
    <3> QED
      BY <3>4, <3>6
  <2>4. PromptsGetCurrentMemory
    BY <2>3 DEF PromptsGetCurrentMemory
  <2> QED
    BY <2>2, <2>4 DEF PromptsAreCurrent
<1> QED
  BY <1>1, LessonsInvHolds, PTL

-----------------------------------------------------------------------------
(* The selection, for any goals, histories, limits and switches.             *)

\* What every decided intent looks like; a rule's names only what the selector
\* would fall back on.
IntentFits(intent) ==
    /\ intent.type \in {"chat", "task", "clarification", "blocked", "tool_action"}
    /\ DOMAIN intent.weights \subseteq Capabilities
    /\ \A c \in DOMAIN intent.weights : intent.weights[c] \in 58..95
    /\ intent.tools \subseteq Tools
RuleFits(intent, goal) ==
    /\ DOMAIN intent.weights \subseteq Fallbacks(goal)
    /\ \A c \in DOMAIN intent.weights : intent.weights[c] >= 62 /\ (c = "shell.run" => intent.weights[c] <= 68)

\* The weights of an intent that names nothing.
LEMMA EmptyFits ==
    ASSUME NEW type \in {"chat", "clarification", "blocked"}, NEW goal
    PROVE  /\ IntentFits(Plan(type, NoIntent.weights, {}))
           /\ RuleFits(Plan(type, NoIntent.weights, {}), goal)
<1>1. NoIntent.weights = [c \in {} |-> 0] /\ DOMAIN [c \in {} |-> 0] = {}
  BY DEF NoIntent
<1> QED
  BY <1>1 DEF Plan, IntentFits, RuleFits

LEMMA ResearchFits ==
    ASSUME NEW goal, "research" \in goal
    PROVE  IntentFits(ResearchPlan) /\ RuleFits(ResearchPlan, goal)
<1> DEFINE named == {"research.report", "web.search", "web.fetch"}
           w == [c \in named |-> CASE c = "research.report" -> 95 [] c = "web.search" -> 85 [] OTHER -> 65]
<1>1. /\ ResearchPlan.weights = w /\ ResearchPlan.tools = {"web.search", "web.fetch"} /\ ResearchPlan.type = "task"
      /\ DOMAIN w = named
  BY DEF ResearchPlan, Plan
<1>2. \A c \in named : w[c] \in {95, 85, 65} /\ c # "shell.run"
  OBVIOUS
<1>3. named \subseteq Fallbacks(goal) /\ named \subseteq Capabilities /\ {"web.search", "web.fetch"} \subseteq Tools
  BY DEF Fallbacks, Has, Capabilities, Skills, Tools
<1> HIDE DEF w, named
<1> QED
  BY <1>1, <1>2, <1>3 DEF IntentFits, RuleFits

LEMMA CodeFits ==
    ASSUME NEW goal, Has(goal, {"test", "code"})
    PROVE  IntentFits(CodePlan) /\ RuleFits(CodePlan, goal)
<1> DEFINE named == {"code.local_task", "git.status", "shell.run"}
           w == [c \in named |-> CASE c = "code.local_task" -> 92 [] c = "git.status" -> 75 [] OTHER -> 68]
           tools == {"git.status", "shell.run", "fs.read_text"}
<1>1. CodePlan.weights = w /\ CodePlan.tools = tools /\ CodePlan.type = "task" /\ DOMAIN w = named
  BY DEF CodePlan, Plan
<1>2. \A c \in named : w[c] \in {92, 75, 68} /\ (c = "shell.run" => w[c] = 68)
  OBVIOUS
<1>3. named \subseteq Fallbacks(goal) /\ named \subseteq Capabilities /\ tools \subseteq Tools
  BY DEF Fallbacks, Capabilities, Skills, Tools
<1> HIDE DEF w, named, tools
<1> QED
  BY <1>1, <1>2, <1>3 DEF IntentFits, RuleFits

LEMMA FileFits ==
    ASSUME NEW goal, Has(goal, {"file", "read"})
    PROVE  IntentFits(FilePlan) /\ RuleFits(FilePlan, goal)
<1> DEFINE named == {"file.workspace_ops", "fs.list", "fs.read_text"}
           w == [c \in named |-> CASE c = "file.workspace_ops" -> 90 [] c = "fs.list" -> 70 [] OTHER -> 62]
           tools == {"fs.list", "fs.read_text"}
<1>1. FilePlan.weights = w /\ FilePlan.tools = tools /\ FilePlan.type = "task" /\ DOMAIN w = named
  BY DEF FilePlan, Plan
<1>2. \A c \in named : w[c] \in {90, 70, 62} /\ c # "shell.run"
  OBVIOUS
<1>3. named \subseteq Fallbacks(goal) /\ named \subseteq Capabilities /\ tools \subseteq Tools
  BY DEF Fallbacks, Capabilities, Skills, Tools
<1> HIDE DEF w, named, tools
<1> QED
  BY <1>1, <1>2, <1>3 DEF IntentFits, RuleFits

LEMMA ReadFits ==
    ASSUME NEW goal, "read" \in goal
    PROVE  LET plan == Plan("tool_action", [c \in {"fs.read_text"} |-> 95], {"fs.read_text"})
           IN IntentFits(plan) /\ RuleFits(plan, goal)
<1> DEFINE named == {"fs.read_text"}
           w == [c \in named |-> 95]
           plan == Plan("tool_action", w, named)
<1>1. plan.weights = w /\ plan.tools = named /\ plan.type = "tool_action" /\ DOMAIN w = named
  BY DEF Plan
<1>2. \A c \in named : w[c] = 95 /\ c # "shell.run"
  OBVIOUS
<1>3. named \subseteq Fallbacks(goal) /\ named \subseteq Capabilities /\ named \subseteq Tools
  BY DEF Fallbacks, Has, Capabilities, Skills, Tools
<1>4. IntentFits(plan) /\ RuleFits(plan, goal)
  <2> HIDE DEF w, named, plan
  <2> QED
    BY <1>1, <1>2, <1>3 DEF IntentFits, RuleFits
<1> QED
  BY <1>4

\* The rules.
LEMMA RulesFit ==
    ASSUME NEW goal
    PROVE  IntentFits(RuleIntent(goal)) /\ RuleFits(RuleIntent(goal), goal)
<1>1. CASE RuleIntent(goal) \in {ChatIntent, Plan("clarification", NoIntent.weights, {}), Plan("blocked", NoIntent.weights, {})}
  BY <1>1, EmptyFits DEF ChatIntent
<1>2. CASE "research" \in goal /\ RuleIntent(goal) = ResearchPlan
  BY <1>2, ResearchFits
<1>3. CASE Has(goal, {"test", "code"}) /\ RuleIntent(goal) = CodePlan
  BY <1>3, CodeFits
<1>4. CASE Has(goal, {"file", "read"}) /\ RuleIntent(goal) = FilePlan
  BY <1>4, FileFits
<1>5. CASE "read" \in goal /\ RuleIntent(goal) = Plan("tool_action", [c \in {"fs.read_text"} |-> 95], {"fs.read_text"})
  BY <1>5, ReadFits
<1> QED
  BY <1>1, <1>2, <1>3, <1>4, <1>5 DEF RuleIntent

\* The model's.
LEMMA ModelsFit == \A intent \in ModelIntents : IntentFits(intent)
<1> DEFINE named == {"code.local_task", "fs.read_text", "git.status", "shell.run"}
           w == [c \in named |-> CASE c = "fs.read_text" -> 90 [] c = "code.local_task" -> 82
                                   [] c = "git.status" -> 72 [] OTHER -> 58]
           tools == {"fs.read_text", "git.status", "shell.run"}
           plan == Plan("task", w, tools)
<1>1. plan.weights = w /\ plan.tools = tools /\ plan.type = "task" /\ DOMAIN w = named
  BY DEF Plan
<1>2. \A c \in named : w[c] \in {90, 82, 72, 58}
  OBVIOUS
<1>3. named \subseteq Capabilities /\ tools \subseteq Tools
  BY DEF Capabilities, Skills, Tools
<1>4. IntentFits(plan)
  <2> HIDE DEF w, named, tools, plan
  <2> QED
    BY <1>1, <1>2, <1>3 DEF IntentFits
<1>5. IntentFits(ChatIntent)
  BY EmptyFits DEF ChatIntent
<1> QED
  BY <1>4, <1>5 DEF ModelIntents

\* What is decided leaves out what the gate forbids.
LEMMA ConstrainedFits ==
    ASSUME NEW type, NEW weights, NEW tools, NEW goal, IntentFits(Plan(type, weights, tools))
    PROVE  LET plan == Plan(type, weights, tools) IN
           /\ IntentFits(Constrained(plan)) /\ "shell.run" \notin Constrained(plan).tools
           /\ RuleFits(plan, goal) => RuleFits(Constrained(plan), goal)
<1> DEFINE plan == Plan(type, weights, tools)
<1>1. /\ Constrained(plan).weights = weights /\ Constrained(plan).type = type
      /\ Constrained(plan).tools = {t \in tools : usable[t]} \ HighSideEffects
  BY DEF Constrained, Plan
<1>2. plan.weights = weights /\ plan.type = type /\ plan.tools = tools
  BY DEF Plan
<1> QED
  BY <1>1, <1>2 DEF IntentFits, RuleFits, HighSideEffects

LEMMA IntentsFit ==
    ASSUME NEW goal, NEW intent \in Intents(goal)
    PROVE  /\ IntentFits(intent) /\ "shell.run" \notin intent.tools
           /\ ~modelRoute => RuleFits(intent, goal)
<1>1. PICK plan \in {RuleIntent(goal)} \cup (IF ModelIsAsked(goal) THEN ModelIntents ELSE {}) : intent = Constrained(plan)
  BY DEF Intents
<1>2. IntentFits(plan) /\ (~modelRoute => RuleFits(plan, goal))
  BY <1>1, RulesFit, ModelsFit DEF ModelIsAsked
<1>3. PICK type, weights, tools : plan = Plan(type, weights, tools)
  BY <1>1 DEF RuleIntent, ModelIntents, ChatIntent, ResearchPlan, CodePlan, FilePlan
<1> QED
  BY <1>1, <1>2, <1>3, ConstrainedFits

\* The latest are eight at most, and the very last is one of them.
LEMMA LatestFew ==
    ASSUME NEW n \in Nat, NEW ids \in SUBSET (1..n)
    PROVE  /\ Latest(ids) \subseteq ids /\ IsFiniteSet(Latest(ids))
           /\ Cardinality(Latest(ids)) \in 0..8
           /\ ids # {} => Latest(ids) # {}
<1>1. IsFiniteSet(1..n)
  BY FS_Interval
<1>2. Latest(ids) \subseteq ids /\ IsFiniteSet(ids) /\ IsFiniteSet(Latest(ids))
  BY <1>1, FS_Subset DEF Latest
<1>0. \A i \in ids : i \in Nat /\ i <= n
  <2>1. \A i \in 1..n : i \in Nat /\ i <= n
    OBVIOUS
  <2> QED
    BY <2>1
<1>3. Cardinality(Latest(ids)) \in Nat
  BY <1>2, FS_CardinalityType
<1>4. ASSUME Latest(ids) # {} PROVE Cardinality(Latest(ids)) <= 8
  <2>1. PICK first \in Latest(ids) : \A i \in Latest(ids) : first <= i
    <3>1. Latest(ids) \in SUBSET Nat
      BY <1>0, <1>2
    <3> QED
      BY <1>4, <3>1, LeastIsThere
  <2> DEFINE above == {j \in ids : j > first}
  <2>2. IsFiniteSet(above) /\ Cardinality(above) \in Nat /\ Cardinality(above) < 8
    BY <1>2, <2>1, FS_Subset, FS_CardinalityType DEF Latest
  <2>3. Latest(ids) \ {first} \subseteq above
    <3> SUFFICES ASSUME NEW i \in Latest(ids), i # first PROVE i \in above
      OBVIOUS
    <3>1. i \in ids /\ i \in Nat /\ first \in Nat /\ first <= i
      BY <1>0, <1>2, <2>1
    <3> QED
      BY <3>1
  <2>4. Cardinality(Latest(ids) \ {first}) <= Cardinality(above)
    BY <2>2, <2>3, FS_Subset
  <2>5. Cardinality(Latest(ids) \ {first}) = Cardinality(Latest(ids)) - 1
    BY <1>2, <2>1, FS_RemoveElement
  <2> HIDE DEF above
  <2> QED
    BY <1>3, <2>2, <2>4, <2>5
<1>5. Cardinality({}) = 0
  BY FS_EmptySet
<1>6. ASSUME ids # {} PROVE Latest(ids) # {}
  <2> DEFINE Fall == {n - i : i \in ids}
  <2>1. Fall \in SUBSET Nat /\ Fall # {}
    <3>1. \A i \in ids : n - i \in Nat
      BY <1>0
    <3> QED
      BY <1>6, <3>1
  <2>2. PICK d \in Fall : \A e \in Fall : d <= e
    <3> HIDE DEF Fall
    <3> QED
      BY <2>1, LeastIsThere
  <2>3. PICK last \in ids : d = n - last
    BY <2>2
  <2>4. \A j \in ids : ~(j > last)
    <3> TAKE j \in ids
    <3>1. n - j \in Fall
      OBVIOUS
    <3>2. n - last <= n - j
      BY <2>2, <2>3, <3>1
    <3> QED
      BY <1>0, <3>2
  <2>5. {j \in ids : j > last} = {}
    BY <2>4
  <2>6. Cardinality({j \in ids : j > last}) < 8
    BY <1>5, <2>5
  <2> QED
    BY <2>3, <2>6 DEF Latest
<1> QED
  BY <1>2, <1>3, <1>4, <1>5, <1>6

\* How the signal follows what is remembered of a capability.
LEMMA SignalFollows ==
    ASSUME NEW c \in Capabilities, NEW goalType, history \in [Capabilities -> Seq(Events)]
    PROVE  /\ Signal(c, goalType) \in Int /\ Signal(c, goalType) <= 3200
           /\ NeverFailed(c) => Signal(c, goalType) >= 0
           /\ ~Succeeded(c) => Signal(c, goalType) <= 0
           /\ ~Succeeded(c) /\ ~NeverFailed(c) => Signal(c, goalType) <= -1200
<1> DEFINE n == Len(history[c])
           alike == {i \in 1..n : history[c][i].goal \in {goalType, "general"}}
           ids == IF alike = {} THEN 1..n ELSE alike
           kept == Relevant(c, goalType)
           good == {i \in kept : history[c][i].ok}
<1>1. n \in Nat /\ ids \in SUBSET (1..n) /\ (n # 0 => ids # {})
  OBVIOUS
<1>2. kept = Latest(ids)
  BY DEF Relevant
<1>3. kept \subseteq 1..n /\ IsFiniteSet(kept) /\ Cardinality(kept) \in 0..8 /\ (n # 0 => kept # {})
  <2> HIDE DEF ids, kept
  <2> QED
    BY <1>1, <1>2, LatestFew
<1> DEFINE bad == kept \ good
<1>5. Signal(c, goalType) = 400 * Cardinality(good) - 1200 * Cardinality(bad)
  BY DEF Signal
<1>6. /\ Cardinality(good) \in Nat /\ Cardinality(good) <= Cardinality(kept)
      /\ Cardinality(bad) \in Nat
  <2>1. good \subseteq kept /\ bad \subseteq kept
    OBVIOUS
  <2> HIDE DEF good, bad, kept
  <2> QED
    BY <1>3, <2>1, FS_Subset, FS_CardinalityType
<1>7. Cardinality({}) = 0
  BY FS_EmptySet
<1>8. NeverFailed(c) => bad = {}
  BY <1>3 DEF NeverFailed
<1>9. ~Succeeded(c) => good = {} /\ bad = kept
  BY <1>3 DEF Succeeded
<1>10. ~NeverFailed(c) => n # 0
  BY <1>1 DEF NeverFailed
<1>11. kept # {} => Cardinality(kept) # 0
  <2> HIDE DEF kept
  <2> QED
    BY <1>3, FS_EmptySet
<1> HIDE DEF good, bad, kept, n
<1>12. NeverFailed(c) => Cardinality(bad) = 0
  BY <1>7, <1>8
<1>13. ~Succeeded(c) => Cardinality(good) = 0
  BY <1>7, <1>9
<1>14. ~Succeeded(c) /\ ~NeverFailed(c) => Cardinality(bad) # 0
  BY <1>3, <1>9, <1>10, <1>11
<1>15. Cardinality(good) <= 8
  BY <1>3, <1>6
<1>16. PICK g \in Nat : g = Cardinality(good)
  BY <1>6
<1>17. PICK b \in Nat : b = Cardinality(bad)
  BY <1>6
<1>18. /\ Signal(c, goalType) = 400 * g - 1200 * b /\ g <= 8
       /\ NeverFailed(c) => b = 0
       /\ ~Succeeded(c) => g = 0
       /\ ~Succeeded(c) /\ ~NeverFailed(c) => b # 0
  BY <1>5, <1>12, <1>13, <1>14, <1>15, <1>16, <1>17
<1> QED
  BY <1>18
\* At most one word names a capability.
LEMMA MentionsFew ==
    ASSUME NEW c \in Capabilities, NEW goal
    PROVE  /\ Cardinality(goal \cap Mentions(c)) \in 0..1
           /\ c = "shell.run" => Cardinality(goal \cap Mentions(c)) = 0
<1>1. PICK word : Mentions(c) = {word} \/ Mentions(c) = {}
  BY DEF Mentions
<1>2. goal \cap Mentions(c) = {word} \/ goal \cap Mentions(c) = {}
  BY <1>1
<1>3. Cardinality({word}) = 1 /\ Cardinality({}) = 0
  BY FS_Singleton, FS_EmptySet
<1>4. Cardinality(goal \cap Mentions(c)) \in 0..1
  BY <1>2, <1>3
<1>5. c = "shell.run" => goal \cap Mentions(c) = {}
  BY DEF Mentions
<1> QED
  BY <1>3, <1>4, <1>5

\* A probe was asked for.
Asked(goal, goalType) ==
    goalType = "code" /\ NeedsTestEvidence(goal) /\ \E i \in 1..Len(turn.seen) : ~turn.seen[i].done

LEMMA ProbeRange ==
    ASSUME NEW c, NEW goal, NEW goalType
    PROVE  /\ ProbeBonus(c, goal, goalType) \in Nat /\ ProbeBonus(c, goal, goalType) <= 5500
           /\ c # "shell.run" => ProbeBonus(c, goal, goalType) = 0
           /\ c = "shell.run" /\ Asked(goal, goalType) /\ EvidenceMissing => ProbeBonus(c, goal, goalType) = 5500
<1>1. ProbeBonus(c, goal, goalType) =
        IF c # "shell.run" THEN 0
        ELSE (IF Asked(goal, goalType) THEN 3000 ELSE 0) + (IF EvidenceMissing THEN 2500 ELSE 0)
  BY DEF ProbeBonus, Asked
<1>2. PICK asked \in Nat : asked <= 3000 /\ asked = (IF Asked(goal, goalType) THEN 3000 ELSE 0)
  OBVIOUS
<1>3. PICK missing \in Nat : missing <= 2500 /\ missing = (IF EvidenceMissing THEN 2500 ELSE 0)
  OBVIOUS
<1>4. ProbeBonus(c, goal, goalType) = IF c # "shell.run" THEN 0 ELSE asked + missing
  BY <1>1, <1>2, <1>3
<1> QED
  BY <1>2, <1>3, <1>4

LEMMA PenaltyRange ==
    ASSUME NEW c
    PROVE  Penalty(c) \in Nat /\ Penalty(c) <= 5000 /\ (Failed(c) => Penalty(c) = 5000) /\ (~Failed(c) => Penalty(c) = 0)
BY DEF Penalty

\* What an action's points are made of.
Base(c) == IF c \in Skills THEN 3500 ELSE 3000
Analysed(c, goal, intent) == IF c \in AnalyzerCandidates(goal, intent) THEN 2000 ELSE 0
Weight(c, intent) == IF c \in DOMAIN intent.weights THEN 25 * intent.weights[c] ELSE 0
Fallback(c, goal) == IF c \notin Fallbacks(goal) THEN 0 ELSE IF c \in Skills THEN 2000 ELSE 1500
Mentioned(c, goal) == (IF c \in Skills THEN 400 ELSE 300) * Cardinality(goal \cap Mentions(c))
Triggered(c, goal) == IF c \in Skills /\ Has(goal, Triggers(c)) THEN 1500 ELSE 0

LEMMA PointsSum ==
    ASSUME NEW c, NEW goal, NEW intent
    PROVE  Points(c, goal, intent) =
             Base(c) + Analysed(c, goal, intent) + Weight(c, intent) + Fallback(c, goal) + Mentioned(c, goal)
             + Triggered(c, goal)
             + ProbeBonus(c, goal, GoalType(goal, intent)) + Signal(c, GoalType(goal, intent)) - Penalty(c)
BY DEF Points, Base, Analysed, Weight, Fallback, Mentioned, Triggered

LEMMA AnalysedRange ==
    ASSUME NEW c, NEW goal, NEW intent
    PROVE  \E a \in Nat : a <= 2000 /\ a = Analysed(c, goal, intent) /\ (c \in AnalyzerCandidates(goal, intent) => a = 2000)
BY DEF Analysed

LEMMA WeightRange ==
    ASSUME NEW c, NEW intent, IntentFits(intent)
    PROVE  \E w \in Nat :
             /\ w <= 2375
             /\ w = Weight(c, intent)
             /\ c \in DOMAIN intent.weights /\ intent.weights[c] >= 62 => w >= 1550
             /\ (c \in DOMAIN intent.weights => intent.weights[c] <= 68) => w <= 1700
<1>1. CASE c \in DOMAIN intent.weights
  <2>1. PICK share \in 58..95 : share = intent.weights[c]
    BY <1>1 DEF IntentFits
  <2>2. Weight(c, intent) = 25 * share
    BY <1>1, <2>1 DEF Weight
  <2>3. /\ 25 * share \in Nat /\ 25 * share <= 2375 /\ (share >= 62 => 25 * share >= 1550) /\ (share <= 68 => 25 * share <= 1700)
    OBVIOUS
  <2> QED
    BY <1>1, <2>1, <2>2, <2>3
<1>2. CASE c \notin DOMAIN intent.weights
  BY <1>2 DEF Weight
<1> QED
  BY <1>1, <1>2

LEMMA FallbackRange ==
    ASSUME NEW c, NEW goal
    PROVE  /\ c \in Skills => \E f \in Nat : f <= 2000 /\ f = Fallback(c, goal) /\ (c \in Fallbacks(goal) => f = 2000)
           /\ c \notin Skills => \E f \in Nat : f <= 1500 /\ f = Fallback(c, goal) /\ (c \in Fallbacks(goal) => f = 1500)
BY DEF Fallback

LEMMA MentionedRange ==
    ASSUME NEW c \in Capabilities, NEW goal
    PROVE  /\ c \in Skills => \E m \in Nat : m <= 400 /\ m = Mentioned(c, goal)
           /\ c \notin Skills => \E m \in Nat : m <= 300 /\ m = Mentioned(c, goal) /\ (c = "shell.run" => m = 0)
<1>1. PICK k \in 0..1 : k = Cardinality(goal \cap Mentions(c)) /\ (c = "shell.run" => k = 0)
  BY MentionsFew
<1>2. CASE c \in Skills
  <2>1. Mentioned(c, goal) = 400 * k
    BY <1>1, <1>2 DEF Mentioned
  <2>2. 400 * k \in Nat /\ 400 * k <= 400
    BY <1>1
  <2> QED
    BY <1>2, <2>1, <2>2
<1>3. CASE c \notin Skills
  <2>1. Mentioned(c, goal) = 300 * k
    BY <1>1, <1>3 DEF Mentioned
  <2>2. 300 * k \in Nat /\ 300 * k <= 300 /\ (c = "shell.run" => 300 * k = 0)
    BY <1>1
  <2> QED
    BY <1>3, <2>1, <2>2
<1> QED
  BY <1>2, <1>3

LEMMA TriggeredRange ==
    ASSUME NEW c, NEW goal
    PROVE  (\E t \in Nat : t <= 1500 /\ t = Triggered(c, goal)) /\ (c \notin Skills => Triggered(c, goal) = 0)
BY DEF Triggered

\* How many points there are: with the tables of the code, at most and at least.
PointsBetween(c, goal, intent, points, probe, signal, penalty) ==
    /\ points \in Int /\ points <= 25000
    /\ c # "shell.run" => points <= 11775 + signal - penalty
    /\ c = "shell.run" /\ (c \in DOMAIN intent.weights => intent.weights[c] <= 68)
       => points <= 8200 + probe + signal - penalty
    /\ c \in AnalyzerCandidates(goal, intent) /\ c \in Fallbacks(goal)
       => points >= 6500 + probe + signal - penalty
    /\ c \in AnalyzerCandidates(goal, intent) /\ c \in Fallbacks(goal)
       /\ c \in DOMAIN intent.weights /\ intent.weights[c] >= 62
       => points >= 8050 + probe + signal - penalty

LEMMA SkillPoints ==
    ASSUME NEW c \in Skills, NEW goal, NEW intent, IntentFits(intent),
           NEW signal \in Int, signal <= 3200, NEW penalty \in Nat, penalty <= 5000,
           signal = Signal(c, GoalType(goal, intent)), penalty = Penalty(c)
    PROVE  PointsBetween(c, goal, intent, Points(c, goal, intent), 0, signal, penalty)
<1>1. c # "shell.run" /\ c \in Capabilities /\ ProbeBonus(c, goal, GoalType(goal, intent)) = 0 /\ Base(c) = 3500
  BY ProbeRange DEF Skills, Capabilities, Base
<1>2. PICK a \in Nat : a <= 2000 /\ a = Analysed(c, goal, intent) /\ (c \in AnalyzerCandidates(goal, intent) => a = 2000)
  BY AnalysedRange
<1>3. PICK w \in Nat : w <= 2375 /\ w = Weight(c, intent) /\ (c \in DOMAIN intent.weights /\ intent.weights[c] >= 62 => w >= 1550)
  BY WeightRange
<1>4. PICK f \in Nat : f <= 2000 /\ f = Fallback(c, goal) /\ (c \in Fallbacks(goal) => f = 2000)
  BY FallbackRange
<1>5. PICK m \in Nat : m <= 400 /\ m = Mentioned(c, goal)
  BY <1>1, MentionedRange
<1>6. PICK t \in Nat : t <= 1500 /\ t = Triggered(c, goal)
  BY TriggeredRange
<1>7. Points(c, goal, intent) = 3500 + a + w + f + m + t + 0 + signal - penalty
  BY <1>1, <1>2, <1>3, <1>4, <1>5, <1>6, PointsSum
<1>8. PICK points \in Int : points = 3500 + a + w + f + m + t + signal - penalty
  OBVIOUS
<1>9. /\ points <= 25000 /\ points <= 11775 + signal - penalty
      /\ a = 2000 /\ f = 2000 => points >= 6500 + 0 + signal - penalty
      /\ a = 2000 /\ f = 2000 /\ w >= 1550 => points >= 8050 + 0 + signal - penalty
  BY <1>2, <1>3, <1>4, <1>5, <1>6, <1>8
<1>10. Points(c, goal, intent) = points
  BY <1>7, <1>8
<1> QED
  BY <1>1, <1>2, <1>3, <1>4, <1>9, <1>10 DEF PointsBetween

LEMMA ToolPoints ==
    ASSUME NEW c \in Tools, NEW goal, NEW intent, IntentFits(intent),
           NEW signal \in Int, signal <= 3200, NEW penalty \in Nat, penalty <= 5000, NEW probe \in Nat, probe <= 5500,
           signal = Signal(c, GoalType(goal, intent)), penalty = Penalty(c),
           probe = ProbeBonus(c, goal, GoalType(goal, intent))
    PROVE  PointsBetween(c, goal, intent, Points(c, goal, intent), probe, signal, penalty)
<1>1. c \notin Skills /\ c \in Capabilities /\ Base(c) = 3000
  BY DEF Skills, Tools, Capabilities, Base
<1>2. PICK a \in Nat : a <= 2000 /\ a = Analysed(c, goal, intent) /\ (c \in AnalyzerCandidates(goal, intent) => a = 2000)
  BY AnalysedRange
<1>3. PICK w \in Nat :
        /\ w <= 2375
        /\ w = Weight(c, intent)
        /\ c \in DOMAIN intent.weights /\ intent.weights[c] >= 62 => w >= 1550
        /\ (c \in DOMAIN intent.weights => intent.weights[c] <= 68) => w <= 1700
  BY WeightRange
<1>4. PICK f \in Nat : f <= 1500 /\ f = Fallback(c, goal) /\ (c \in Fallbacks(goal) => f = 1500)
  BY <1>1, FallbackRange
<1>5. PICK m \in Nat : m <= 300 /\ m = Mentioned(c, goal) /\ (c = "shell.run" => m = 0)
  BY <1>1, MentionedRange
<1>6. Triggered(c, goal) = 0
  BY <1>1, TriggeredRange
<1>7. Points(c, goal, intent) = 3000 + a + w + f + m + 0 + probe + signal - penalty
  BY <1>1, <1>2, <1>3, <1>4, <1>5, <1>6, PointsSum
<1>8. PICK points \in Int : points = 3000 + a + w + f + m + probe + signal - penalty
  OBVIOUS
<1>9. /\ points <= 25000 /\ points <= 9175 + probe + signal - penalty
      /\ m = 0 /\ w <= 1700 => points <= 8200 + probe + signal - penalty
      /\ a = 2000 /\ f = 1500 => points >= 6500 + probe + signal - penalty
      /\ a = 2000 /\ f = 1500 /\ w >= 1550 => points >= 8050 + probe + signal - penalty
  BY <1>2, <1>3, <1>4, <1>5, <1>8
<1>10. Points(c, goal, intent) = points
  BY <1>7, <1>8
<1>11. c # "shell.run" => probe = 0
  BY ProbeRange
<1>12. c # "shell.run" => points <= 11775 + signal - penalty
  BY <1>2, <1>3, <1>4, <1>5, <1>8, <1>11
<1> QED
  BY <1>2, <1>3, <1>4, <1>5, <1>9, <1>10, <1>12 DEF PointsBetween

LEMMA PointsAreThere ==
    ASSUME NEW c \in Capabilities, NEW goal, NEW intent, IntentFits(intent), history \in [Capabilities -> Seq(Events)]
    PROVE  \E signal \in Int, penalty \in Nat, probe \in Nat :
             /\ penalty <= 5000 /\ probe <= 5500
             /\ signal = Signal(c, GoalType(goal, intent)) /\ penalty = Penalty(c)
             /\ probe = ProbeBonus(c, goal, GoalType(goal, intent))
             /\ PointsBetween(c, goal, intent, Points(c, goal, intent), probe, signal, penalty)
<1>1. PICK signal \in Int : signal = Signal(c, GoalType(goal, intent)) /\ signal <= 3200
  BY SignalFollows
<1>2. PICK penalty \in Nat : penalty <= 5000 /\ penalty = Penalty(c)
  BY PenaltyRange
<1>3. PICK probe \in Nat : probe <= 5500 /\ probe = ProbeBonus(c, goal, GoalType(goal, intent))
  BY ProbeRange
<1>4. CASE c \in Skills
  <2>1. probe = 0
    BY <1>3, <1>4, ProbeRange DEF Skills
  <2>2. PointsBetween(c, goal, intent, Points(c, goal, intent), 0, signal, penalty)
    BY <1>1, <1>2, <1>4, SkillPoints
  <2> QED
    BY <1>1, <1>2, <1>3, <2>1, <2>2
<1>5. CASE c \in Tools
  <2>1. PointsBetween(c, goal, intent, Points(c, goal, intent), probe, signal, penalty)
    BY <1>1, <1>2, <1>3, <1>5, ToolPoints
  <2> QED
    BY <1>1, <1>2, <1>3, <2>1
<1> QED
  BY <1>4, <1>5 DEF Capabilities

LEMMA RankRange ==
    ASSUME NEW c \in Capabilities
    PROVE  Rank(c) \in 1..10
<1>1. Len(ByName) = 10
  BY DEF ByName
<1>2. \E i \in 1..10 : ByName[i] = c
  BY DEF ByName, Capabilities, Skills, Tools
<1> QED
  BY <1>1, <1>2 DEF Rank

Tops(P, R, a, b) == P[a] > P[b] \/ (P[a] = P[b] /\ R[a] >= R[b])

LEMMA MostIsThere ==
    ASSUME NEW viable, viable # {}, NEW P, NEW R,
           \A c \in viable : P[c] \in Int /\ P[c] <= 25000 /\ R[c] \in 1..10
    PROVE  \E a \in viable : \A b \in viable : Tops(P, R, a, b)
<1> DEFINE Short(c) == 275010 - 11 * P[c] - R[c]
           all == {Short(c) : c \in viable}
<1>1. \A c \in viable : Short(c) \in Nat
  OBVIOUS
<1>2. all \in SUBSET Nat /\ all # {}
  <2> HIDE DEF Short
  <2> QED
    BY <1>1
<1>3. PICK least \in all : \A s \in all : least <= s
  <2> HIDE DEF Short, all
  <2>1. First(all) \in all /\ \A s \in all : First(all) <= s
    BY <1>2, LeastIsThere
  <2> QED
    BY <2>1
<1>4. PICK a \in viable : least = Short(a)
  BY <1>3
<1>5. \A b \in viable : Short(a) <= Short(b)
  <2> HIDE DEF Short
  <2> QED
    BY <1>3, <1>4
<1>6. ASSUME NEW b \in viable PROVE Tops(P, R, a, b)
  <2>1. 275010 - 11 * P[a] - R[a] <= 275010 - 11 * P[b] - R[b]
    BY <1>5, <1>6
  <2>2. P[a] \in Int /\ P[b] \in Int /\ R[a] \in 1..10 /\ R[b] \in 1..10
    BY <1>6
  <2> QED
    BY <2>1, <2>2 DEF Tops
<1> HIDE DEF Short, all
<1> QED
  BY <1>6

\* The action that is taken is a viable one with the most points, if there is one.
Beats(a, b, goal, intent) ==
    \/ Points(a, goal, intent) > Points(b, goal, intent)
    \/ Points(a, goal, intent) = Points(b, goal, intent) /\ Rank(a) >= Rank(b)
BestOf(viable, goal, intent) == CHOOSE a \in viable : \A b \in viable : Beats(a, b, goal, intent)

LEMMA ChoiceIsBest ==
    ASSUME NEW goal, NEW intent, IntentFits(intent), history \in [Capabilities -> Seq(Events)],
           NEW viable, viable = Viable(goal, intent), NEW choice, choice = Choice(goal, intent)
    PROVE  /\ viable \subseteq Capabilities
           /\ viable = {} => choice = Chat
           /\ viable # {} =>
                /\ choice \in viable
                /\ \A c \in viable : Points(c, goal, intent) <= Points(choice, goal, intent)
<1>1. choice = IF viable = {} THEN Chat ELSE BestOf(viable, goal, intent)
  BY DEF Choice, BestOf, Beats
<1>2. viable \subseteq Capabilities
  BY DEF Viable, Candidates, Capabilities, Fallbacks
<1>3. ASSUME NEW c \in viable
      PROVE  Points(c, goal, intent) \in Int /\ Points(c, goal, intent) <= 25000 /\ Rank(c) \in 1..10
  BY <1>2, PointsAreThere, RankRange DEF PointsBetween
<1>4. ASSUME viable # {} PROVE \E a \in viable : \A b \in viable : Beats(a, b, goal, intent)
  <2>1. PICK P : P = [c \in viable |-> Points(c, goal, intent)]
    OBVIOUS
  <2>2. PICK R : R = [c \in viable |-> Rank(c)]
    OBVIOUS
  <2>3. \A c \in viable : P[c] = Points(c, goal, intent) /\ R[c] = Rank(c)
    BY <2>1, <2>2
  <2>4. \A c \in viable : P[c] \in Int /\ P[c] <= 25000 /\ R[c] \in 1..10
    BY <1>3, <2>3
  <2>5. PICK a \in viable : \A b \in viable : Tops(P, R, a, b)
    BY <1>4, <2>4, MostIsThere
  <2>6. \A b \in viable : Beats(a, b, goal, intent)
    BY <2>3, <2>5 DEF Beats, Tops
  <2> QED
    BY <2>6
<1>5. ASSUME viable # {}
      PROVE  choice \in viable /\ \A b \in viable : Beats(choice, b, goal, intent)
  BY <1>1, <1>4, <1>5 DEF BestOf
<1>6. ASSUME viable # {}, NEW c \in viable PROVE Points(c, goal, intent) <= Points(choice, goal, intent)
  <2>1. Points(choice, goal, intent) > Points(c, goal, intent) \/ Points(choice, goal, intent) = Points(c, goal, intent)
    BY <1>5, <1>6 DEF Beats
  <2>2. Points(choice, goal, intent) \in Int /\ Points(c, goal, intent) \in Int
    BY <1>3, <1>5, <1>6
  <2> QED
    BY <2>1, <2>2
<1> QED
  BY <1>1, <1>2, <1>5, <1>6

\* What was seen fits what is remembered: a failure of this run is one of the
\* action's history, and evidence is missing only where a test asks for it.
SeenFits(seen, goal) ==
    \A i \in 1..Len(seen) :
      /\ seen[i].name # Chat /\ ~seen[i].done => ~NeverFailed(seen[i].name)
      /\ seen[i].missing => ~seen[i].done /\ "test" \in goal

\* The inductive invariant of the selection.
SelectionInv ==
    /\ SelectionTypeOK
    /\ turn = [goal |-> turn.goal, status |-> turn.status, iteration |-> turn.iteration, limit |-> turn.limit,
               seen |-> turn.seen, intent |-> turn.intent, selected |-> turn.selected]
    /\ turn.status = "running" /\ turn.selected = Nothing => turn.iteration < turn.limit
    /\ SeenFits(turn.seen, turn.goal)

LEMMA SelectionInvInit == SelectionInit => SelectionInv
<1> SUFFICES ASSUME SelectionInit PROVE SelectionInv
  OBVIOUS
<1>1. turn = [goal |-> {}, status |-> "idle", iteration |-> 0, limit |-> 0,
              seen |-> <<>>, intent |-> NoIntent, selected |-> Nothing]
  BY DEF SelectionInit, NoTurn
<1>2. PICK none : none = <<>>
  OBVIOUS
<1>3. none \in Seq(Observations) /\ Len(none) = 0
  BY <1>2
<1>4. /\ turn.goal = {} /\ turn.status = "idle" /\ turn.iteration = 0 /\ turn.limit = 0 /\ turn.seen = none
      /\ turn.intent = NoIntent /\ turn.selected = Nothing
  BY <1>1, <1>2
<1>5. /\ usable \in [Capabilities -> BOOLEAN] /\ modelRoute \in BOOLEAN /\ switches \in 0..MaxSwitches
      /\ history \in [Capabilities -> Seq(Events)]
  BY SelectionAssumption DEF SelectionInit
<1>6. SelectionTypeOK
  BY <1>3, <1>4, <1>5 DEF SelectionTypeOK
<1>7. SeenFits(turn.seen, turn.goal)
  BY <1>3, <1>4 DEF SeenFits
<1> QED
  BY <1>1, <1>2, <1>4, <1>6, <1>7 DEF SelectionInv

\* What a turn's next record must be.
TurnFits(goal, status, iteration, limit, seen, selected) ==
    /\ status \in {"idle", "running", "completed", "failed", "blocked", "waiting_input"}
    /\ iteration \in Nat /\ limit \in Nat /\ iteration <= limit
    /\ seen \in Seq(Observations) /\ selected \in Capabilities \cup {Chat, Nothing}
    /\ status = "running" /\ selected = Nothing => iteration < limit

LEMMA TurnInv ==
    ASSUME NEW goal, NEW status, NEW iteration, NEW limit, NEW seen, NEW intent, NEW selected,
           TurnFits(goal, status, iteration, limit, seen, selected),
           turn' = [goal |-> goal, status |-> status, iteration |-> iteration, limit |-> limit,
                    seen |-> seen, intent |-> intent, selected |-> selected],
           usable' \in [Capabilities -> BOOLEAN], modelRoute' \in BOOLEAN, switches' \in 0..MaxSwitches,
           history' \in [Capabilities -> Seq(Events)], SeenFits(seen, goal)'
    PROVE  SelectionInv'
<1>1. /\ turn'.goal = goal /\ turn'.status = status /\ turn'.iteration = iteration /\ turn'.limit = limit
      /\ turn'.seen = seen /\ turn'.intent = intent /\ turn'.selected = selected
  OBVIOUS
<1>2. SelectionTypeOK'
  BY <1>1 DEF SelectionTypeOK, TurnFits
<1>3. SeenFits(turn.seen, turn.goal)'
  BY <1>1 DEF SeenFits
<1> QED
  BY <1>1, <1>2, <1>3 DEF SelectionInv, TurnFits

LEMMA SelectionFacts ==
    ASSUME SelectionInv
    PROVE  /\ usable \in [Capabilities -> BOOLEAN] /\ modelRoute \in BOOLEAN /\ switches \in 0..MaxSwitches
           /\ history \in [Capabilities -> Seq(Events)]
           /\ TurnFits(turn.goal, turn.status, turn.iteration, turn.limit, turn.seen, turn.selected)
           /\ turn = [goal |-> turn.goal, status |-> turn.status, iteration |-> turn.iteration, limit |-> turn.limit,
                      seen |-> turn.seen, intent |-> turn.intent, selected |-> turn.selected]
           /\ SeenFits(turn.seen, turn.goal)
BY DEF SelectionInv, SelectionTypeOK, TurnFits

LEMMA StartTurnKeeps ==
    ASSUME SelectionInv, NEW goal \in Goals, StartTurn(goal)
    PROVE  SelectionInv'
<1>1. PICK intent : turn' = [NoTurn EXCEPT !.goal = goal, !.limit = MaxIterations, !.status =
                               CASE intent.type = "blocked" -> "blocked"
                                 [] intent.type = "clarification" -> "waiting_input"
                                 [] OTHER -> "running"]
  BY DEF StartTurn
<1>2. PICK status \in {"blocked", "waiting_input", "running"} :
        status = CASE intent.type = "blocked" -> "blocked" [] intent.type = "clarification" -> "waiting_input"
                   [] OTHER -> "running"
  OBVIOUS
<1>3. PICK none : none = <<>>
  OBVIOUS
<1>4. turn' = [goal |-> goal, status |-> status, iteration |-> 0, limit |-> MaxIterations,
               seen |-> none, intent |-> NoIntent, selected |-> Nothing]
  BY <1>1, <1>2, <1>3 DEF NoTurn
<1>5. none \in Seq(Observations) /\ Len(none) = 0
  BY <1>3
<1>6. TurnFits(goal, status, 0, MaxIterations, none, Nothing)
  BY <1>5, SelectionAssumption DEF TurnFits
<1>7. SeenFits(none, goal)'
  BY <1>5 DEF SeenFits
<1>8. UNCHANGED <<usable, history, modelRoute, switches>>
  BY DEF StartTurn
<1> QED
  BY <1>4, <1>6, <1>7, <1>8, SelectionFacts, TurnInv

LEMMA ResumeTurnKeeps ==
    ASSUME SelectionInv, ResumeTurn
    PROVE  SelectionInv'
<1>1. PICK limit : limit = turn.iteration + MaxIterations
  OBVIOUS
<1>2. /\ turn' = [turn EXCEPT !.status = "running", !.limit = limit]
      /\ UNCHANGED <<usable, history, modelRoute, switches>>
  BY <1>1 DEF ResumeTurn
<1>3. turn' = [goal |-> turn.goal, status |-> "running", iteration |-> turn.iteration, limit |-> limit,
               seen |-> turn.seen, intent |-> turn.intent, selected |-> turn.selected]
  BY <1>2, SelectionFacts
<1>4. TurnFits(turn.goal, "running", turn.iteration, limit, turn.seen, turn.selected)
  BY <1>1, SelectionFacts, SelectionAssumption DEF TurnFits
<1>5. SeenFits(turn.seen, turn.goal)
  BY SelectionFacts
<1>6. PICK seen : seen = turn.seen
  OBVIOUS
<1>7. PICK goal : goal = turn.goal
  OBVIOUS
<1>8. SeenFits(seen, goal)'
  BY <1>2, <1>5, <1>6, <1>7 DEF SeenFits, NeverFailed
<1> QED
  BY <1>2, <1>3, <1>4, <1>6, <1>7, <1>8, SelectionFacts, TurnInv

LEMMA SelectActionKeeps ==
    ASSUME SelectionInv, SelectAction
    PROVE  SelectionInv'
<1>1. PICK intent \in Intents(turn.goal) :
        turn' = [turn EXCEPT !.iteration = @ + 1, !.intent = intent, !.selected = Choice(turn.goal, intent)]
  BY DEF SelectAction
<1>2. turn.status = "running" /\ turn.selected = Nothing /\ UNCHANGED <<usable, history, modelRoute, switches>>
  BY DEF SelectAction
<1>3. PICK next : next = turn.iteration + 1
  OBVIOUS
<1>4. PICK choice : choice = Choice(turn.goal, intent)
  OBVIOUS
<1>5. choice \in Capabilities \cup {Chat}
  <2>1. IntentFits(intent)
    BY <1>1, IntentsFit
  <2>2. PICK viable : viable = Viable(turn.goal, intent)
    OBVIOUS
  <2> QED
    BY <1>4, <2>1, <2>2, SelectionFacts, ChoiceIsBest
<1>6. turn' = [goal |-> turn.goal, status |-> turn.status, iteration |-> next, limit |-> turn.limit,
               seen |-> turn.seen, intent |-> intent, selected |-> choice]
  BY <1>1, <1>3, <1>4, SelectionFacts
<1>7. TurnFits(turn.goal, turn.status, next, turn.limit, turn.seen, choice)
  BY <1>2, <1>3, <1>5, SelectionFacts DEF TurnFits, Capabilities, Skills, Tools, Nothing, Chat
<1>8. PICK seen : seen = turn.seen
  OBVIOUS
<1>9. PICK goal : goal = turn.goal
  OBVIOUS
<1>10. SeenFits(seen, goal)'
  BY <1>2, <1>8, <1>9, SelectionFacts DEF SeenFits, NeverFailed
<1> QED
  BY <1>2, <1>6, <1>7, <1>8, <1>9, <1>10, SelectionFacts, TurnInv

\* Remembering adds an event and leaves the others.
LEMMA RememberedGrows ==
    ASSUME history \in [Capabilities -> Seq(Events)], NEW c \in Capabilities \cup {Chat}, NEW ok \in BOOLEAN,
           history' = Remembered(c, ok)
    PROVE  /\ history' \in [Capabilities -> Seq(Events)]
           /\ \A d \in Capabilities : NeverFailed(d)' => NeverFailed(d)
           /\ c # Chat /\ ~ok => ~NeverFailed(c)'
<1>1. CASE c = Chat
  <2>1. history' = history
    BY <1>1 DEF Remembered
  <2> QED
    BY <1>1, <2>1 DEF NeverFailed
<1>2. CASE c # Chat
  <2>1. c \in Capabilities
    BY <1>2
  <2>2. PICK event : event = [goal |-> IF NeedsTestEvidence(turn.goal) THEN "code" ELSE "general", ok |-> ok]
    OBVIOUS
  <2>3. event \in Events /\ event.ok = ok
    BY <2>2 DEF Events
  <2>4. history' = [history EXCEPT ![c] = Append(history[c], event)]
    BY <1>2, <2>2 DEF Remembered
  <2>5. history[c] \in Seq(Events) /\ Append(history[c], event) \in Seq(Events)
    BY <2>1, <2>3
  <2>6. history' \in [Capabilities -> Seq(Events)] /\ history'[c] = Append(history[c], event)
        /\ \A d \in Capabilities : d # c => history'[d] = history[d]
    BY <2>1, <2>4, <2>5
  <2>7. /\ Len(history'[c]) = Len(history[c]) + 1 /\ Len(history[c]) \in Nat
        /\ history'[c][Len(history[c]) + 1] = event
        /\ \A i \in 1..Len(history[c]) : history'[c][i] = history[c][i]
    BY <2>5, <2>6
  <2>8. NeverFailed(c)' => NeverFailed(c)
    BY <2>7 DEF NeverFailed
  <2>9. \A d \in Capabilities : NeverFailed(d)' => NeverFailed(d)
    BY <2>6, <2>8 DEF NeverFailed
  <2>10. ~ok => ~NeverFailed(c)'
    BY <2>3, <2>7 DEF NeverFailed
  <2> QED
    BY <2>6, <2>9, <2>10
<1> QED
  BY <1>1, <1>2

LEMMA ObserveKeeps ==
    ASSUME SelectionInv, NEW done \in BOOLEAN, NEW evidence \in BOOLEAN, ObserveResult(done, evidence)
    PROVE  SelectionInv'
<1>1. turn.status = "running" /\ turn.selected # Nothing /\ UNCHANGED <<usable, modelRoute, switches>>
  BY DEF ObserveResult
<1>2. PICK missing \in BOOLEAN : missing = (NeedsTestEvidence(turn.goal) /\ ~evidence)
  OBVIOUS
<1>3. PICK complete \in BOOLEAN : complete = (done /\ ~missing)
  OBVIOUS
<1>4. PICK status : status = IF complete THEN "completed" ELSE IF turn.iteration >= turn.limit THEN "failed" ELSE "running"
  OBVIOUS
<1>5. PICK seen : seen = Append(turn.seen, [name |-> turn.selected, done |-> complete, missing |-> missing])
  OBVIOUS
<1>6. /\ history' = Remembered(turn.selected, complete)
      /\ turn' = [turn EXCEPT !.status = status, !.selected = Nothing, !.intent = NoIntent, !.seen = seen]
  BY <1>2, <1>3, <1>4, <1>5 DEF ObserveResult
<1>7. turn' = [goal |-> turn.goal, status |-> status, iteration |-> turn.iteration, limit |-> turn.limit,
               seen |-> seen, intent |-> NoIntent, selected |-> Nothing]
  BY <1>6, SelectionFacts
<1>8. turn.selected \in Capabilities \cup {Chat}
  BY <1>1, SelectionFacts DEF TurnFits
<1>9. PICK row : row = [name |-> turn.selected, done |-> complete, missing |-> missing]
  OBVIOUS
<1>10. row \in Observations /\ row.name = turn.selected /\ row.done = complete /\ row.missing = missing
  BY <1>8, <1>9 DEF Observations
<1>11. /\ turn.seen \in Seq(Observations) /\ seen \in Seq(Observations) /\ Len(turn.seen) \in Nat
       /\ Len(seen) = Len(turn.seen) + 1 /\ seen[Len(turn.seen) + 1] = row
       /\ \A i \in 1..Len(turn.seen) : seen[i] = turn.seen[i]
  BY <1>5, <1>9, <1>10, SelectionFacts DEF TurnFits
<1>12. TurnFits(turn.goal, status, turn.iteration, turn.limit, seen, Nothing)
  BY <1>4, <1>11, SelectionFacts DEF TurnFits
<1>13. PICK c \in Capabilities \cup {Chat} : c = turn.selected
  BY <1>8
<1>14. /\ history' \in [Capabilities -> Seq(Events)]
       /\ \A d \in Capabilities : NeverFailed(d)' => NeverFailed(d)
       /\ c # Chat /\ ~complete => ~NeverFailed(c)'
  <2>1. history' = Remembered(c, complete)
    BY <1>6, <1>13
  <2> QED
    BY <2>1, SelectionFacts, RememberedGrows
<1>15. PICK goal : goal = turn.goal
  OBVIOUS
<1>16. SeenFits(seen, goal)'
  <2> SUFFICES ASSUME NEW i \in 1..Len(seen)
               PROVE  /\ seen[i].name # Chat /\ ~seen[i].done => ~NeverFailed(seen[i].name)'
                      /\ seen[i].missing => ~seen[i].done /\ "test" \in goal
    BY DEF SeenFits
  <2>1. CASE i \in 1..Len(turn.seen)
    <3>1. PICK old \in Observations : old = turn.seen[i]
      BY <1>11, <2>1
    <3>2. seen[i] = old
      BY <1>11, <2>1, <3>1
    <3>3. old.name # Chat /\ ~old.done => ~NeverFailed(old.name)
      BY <2>1, <3>1, SelectionFacts DEF SeenFits
    <3>4. old.missing => ~old.done /\ "test" \in goal
      BY <1>15, <2>1, <3>1, SelectionFacts DEF SeenFits
    <3>5. PICK name : name = old.name
      OBVIOUS
    <3>6. name \in Capabilities \cup {Chat}
      BY <3>1, <3>5 DEF Observations
    <3>7. name # Chat /\ ~old.done => ~NeverFailed(name)'
      BY <1>14, <3>3, <3>5, <3>6
    <3> QED
      BY <3>2, <3>4, <3>5, <3>7
  <2>2. CASE i = Len(turn.seen) + 1
    <3>1. seen[i] = row /\ row.name = c
      BY <1>10, <1>11, <1>13, <2>2
    <3>2. missing => ~complete /\ "test" \in goal
      BY <1>2, <1>3, <1>15 DEF NeedsTestEvidence
    <3> QED
      BY <1>10, <1>14, <3>1, <3>2
  <2> QED
    BY <1>11, <2>1, <2>2
<1> QED
  BY <1>1, <1>7, <1>12, <1>14, <1>15, <1>16, SelectionFacts, TurnInv

LEMMA SwitchKeeps ==
    ASSUME SelectionInv, NEW c \in Capabilities, SwitchCapability(c)
    PROVE  SelectionInv'
<1>1. /\ switches < MaxSwitches /\ switches' = switches + 1
      /\ usable' = [usable EXCEPT ![c] = ~usable[c]]
      /\ UNCHANGED <<history, modelRoute, turn>>
  BY DEF SwitchCapability
<1>2. usable' \in [Capabilities -> BOOLEAN] /\ switches' \in 0..MaxSwitches
  BY <1>1, SelectionFacts, SelectionAssumption
<1>3. SeenFits(turn.seen, turn.goal)'
  BY <1>1, SelectionFacts DEF SeenFits, NeverFailed
<1>4. SelectionTypeOK'
  BY <1>1, <1>2 DEF SelectionInv, SelectionTypeOK
<1> QED
  BY <1>1, <1>3, <1>4 DEF SelectionInv
\* A candidate of the goal analysis is one of the selector.
LEMMA AnalysedAreCandidates ==
    ASSUME NEW goal, NEW intent, NEW c \in Capabilities, c \in AnalyzerCandidates(goal, intent)
    PROVE  c \in Candidates(goal, intent)
<1>1. CASE c \in Tools
  BY <1>1 DEF Candidates
<1>2. CASE c \in Skills
  BY <1>2 DEF Candidates
<1> QED
  BY <1>1, <1>2 DEF Capabilities

\* What an iteration knows when it chooses.
LEMMA ChosenFacts ==
    ASSUME SelectionInv, SelectAction
    PROVE  \E intent \in Intents(turn.goal), viable \in SUBSET Capabilities :
             /\ turn'.intent = intent /\ Chosen = Choice(turn.goal, intent)
             /\ IntentFits(intent) /\ "shell.run" \notin intent.tools
             /\ ~modelRoute => RuleFits(intent, turn.goal)
             /\ viable = Viable(turn.goal, intent) /\ viable \subseteq Capabilities
             /\ viable = {} => Chosen = Chat
             /\ viable # {} =>
                  /\ Chosen \in viable
                  /\ \A c \in viable : Points(c, turn.goal, intent) <= Points(Chosen, turn.goal, intent)
<1>1. PICK intent \in Intents(turn.goal) :
        turn' = [turn EXCEPT !.iteration = @ + 1, !.intent = intent, !.selected = Choice(turn.goal, intent)]
  BY DEF SelectAction
<1>2. PICK next : next = turn.iteration + 1
  OBVIOUS
<1>3. PICK choice : choice = Choice(turn.goal, intent)
  OBVIOUS
<1>4. turn' = [goal |-> turn.goal, status |-> turn.status, iteration |-> next, limit |-> turn.limit,
               seen |-> turn.seen, intent |-> intent, selected |-> choice]
  BY <1>1, <1>2, <1>3, SelectionFacts
<1>5. turn'.intent = intent /\ Chosen = choice
  BY <1>4 DEF Chosen
<1>6. IntentFits(intent) /\ "shell.run" \notin intent.tools /\ (~modelRoute => RuleFits(intent, turn.goal))
  BY <1>1, IntentsFit
<1>7. PICK viable \in SUBSET Capabilities : viable = Viable(turn.goal, intent)
  BY <1>6, SelectionFacts, ChoiceIsBest
<1>8. /\ viable \subseteq Capabilities
      /\ viable = {} => choice = Chat
      /\ viable # {} =>
           /\ choice \in viable
           /\ \A c \in viable : Points(c, turn.goal, intent) <= Points(choice, turn.goal, intent)
  BY <1>3, <1>6, <1>7, SelectionFacts, ChoiceIsBest
<1> QED
  BY <1>3, <1>5, <1>6, <1>7, <1>8

\* The action taken is allowed.
LEMMA AllowedStep ==
    ASSUME SelectionInv, SelectAction, Chosen # Chat
    PROVE  /\ usable[Chosen]
           /\ \/ Chosen \in DOMAIN turn'.intent.weights \cup turn'.intent.tools /\ Chosen \notin HighSideEffects
              \/ Chosen = "shell.run" /\ EvidenceMissing
<1>1. PICK intent \in Intents(turn.goal), viable \in SUBSET Capabilities :
        /\ turn'.intent = intent
        /\ "shell.run" \notin intent.tools
        /\ viable = Viable(turn.goal, intent)
        /\ viable = {} => Chosen = Chat
        /\ viable # {} => Chosen \in viable
  BY ChosenFacts
<1>2. Chosen \in Viable(turn.goal, intent)
  BY <1>1
<1>3. usable[Chosen] /\ Permitted(Chosen, intent)
  BY <1>2 DEF Viable
<1>4. "shell.run" \notin AllowedSkills(intent)
  BY DEF AllowedSkills, Skills
<1>5. CASE Chosen \in AllowedSkills(intent) \cup intent.tools
  <2>1. Chosen # "shell.run"
    BY <1>1, <1>4, <1>5
  <2> QED
    BY <1>1, <1>3, <1>5, <2>1 DEF AllowedSkills, HighSideEffects
<1>6. CASE EvidenceMissing /\ Chosen = "shell.run"
  BY <1>3, <1>6
<1> QED
  BY <1>3, <1>5, <1>6 DEF Permitted

\* Missing evidence asks for the probe.
LEMMA ProbeIsAsked ==
    ASSUME SelectionInv, EvidenceMissing, NEW intent
    PROVE  /\ "test" \in turn.goal /\ Asked(turn.goal, GoalType(turn.goal, intent))
           /\ "shell.run" \in AnalyzerCandidates(turn.goal, intent) /\ "shell.run" \in Fallbacks(turn.goal)
<1>1. PICK i \in 1..Len(turn.seen) : turn.seen[i].missing
  BY DEF EvidenceMissing
<1>2. ~turn.seen[i].done /\ "test" \in turn.goal
  BY <1>1, SelectionFacts DEF SeenFits
<1>3. Has(turn.goal, {"test", "code"})
  BY <1>2 DEF Has
<1> QED
  BY <1>1, <1>2, <1>3 DEF Asked, NeedsTestEvidence, GoalType, AnalyzerCandidates, Fallbacks

\* An action that failed in this run has a failure in its history.
LEMMA FailedIsRemembered ==
    ASSUME SelectionInv, NEW c \in Capabilities, Failed(c)
    PROVE  ~NeverFailed(c)
BY SelectionFacts DEF Failed, SeenFits, Capabilities, Skills, Tools, Chat

\* The probe is next.
LEMMA ProbeStep ==
    ASSUME SelectionInv, SelectAction, EvidenceMissing, usable["shell.run"], NeverFailed("shell.run")
    PROVE  \/ Chosen = "shell.run"
           \/ Chosen # Chat /\ Succeeded(Chosen) /\ ~Failed(Chosen)
<1> DEFINE probe == "shell.run"
<1>1. PICK intent \in Intents(turn.goal), viable \in SUBSET Capabilities :
        /\ IntentFits(intent)
        /\ viable = Viable(turn.goal, intent) /\ viable \subseteq Capabilities
        /\ viable = {} => Chosen = Chat
        /\ viable # {} =>
             /\ Chosen \in viable
             /\ \A c \in viable : Points(c, turn.goal, intent) <= Points(Chosen, turn.goal, intent)
  BY ChosenFacts
<1>2. probe \in Capabilities
  BY DEF Capabilities, Tools
<1>3. /\ "test" \in turn.goal /\ Asked(turn.goal, GoalType(turn.goal, intent))
      /\ probe \in AnalyzerCandidates(turn.goal, intent) /\ probe \in Fallbacks(turn.goal)
  BY ProbeIsAsked
<1>4. ~Failed(probe)
  BY <1>2, FailedIsRemembered
<1>5. Points(probe, turn.goal, intent) >= 12000
  <2>1. PICK signal \in Int, penalty \in Nat, bonus \in Nat :
          /\ signal = Signal(probe, GoalType(turn.goal, intent)) /\ penalty = Penalty(probe)
          /\ bonus = ProbeBonus(probe, turn.goal, GoalType(turn.goal, intent))
          /\ PointsBetween(probe, turn.goal, intent, Points(probe, turn.goal, intent), bonus, signal, penalty)
    BY <1>1, <1>2, SelectionFacts, PointsAreThere
  <2>2. signal >= 0
    BY <1>2, <2>1, SelectionFacts, SignalFollows
  <2>3. penalty = 0
    BY <1>4, <2>1, PenaltyRange
  <2>4. bonus = 5500
    BY <1>3, <2>1, ProbeRange
  <2>5. /\ Points(probe, turn.goal, intent) \in Int
        /\ Points(probe, turn.goal, intent) >= 6500 + bonus + signal - penalty
    BY <1>3, <2>1 DEF PointsBetween
  <2> QED
    BY <2>2, <2>3, <2>4, <2>5
<1>6. probe \in viable
  <2>1. probe \in Candidates(turn.goal, intent)
    BY <1>2, <1>3, AnalysedAreCandidates
  <2>2. Points(probe, turn.goal, intent) > 0
    <3>1. Points(probe, turn.goal, intent) \in Int
      BY <1>1, <1>2, SelectionFacts, PointsAreThere DEF PointsBetween
    <3> QED
      BY <1>5, <3>1
  <2> QED
    BY <1>1, <2>1, <2>2 DEF Viable, Permitted
<1>7. Chosen \in Capabilities /\ Points(probe, turn.goal, intent) <= Points(Chosen, turn.goal, intent)
  BY <1>1, <1>6
<1>8. ASSUME Chosen # probe PROVE Chosen # Chat /\ Succeeded(Chosen) /\ ~Failed(Chosen)
  <2>1. PICK c \in Capabilities : c = Chosen
    BY <1>7
  <2>2. PICK signal \in Int, penalty \in Nat, bonus \in Nat :
          /\ signal = Signal(c, GoalType(turn.goal, intent)) /\ penalty = Penalty(c)
          /\ bonus = ProbeBonus(c, turn.goal, GoalType(turn.goal, intent))
          /\ PointsBetween(c, turn.goal, intent, Points(c, turn.goal, intent), bonus, signal, penalty)
    BY <1>1, SelectionFacts, PointsAreThere
  <2>3. /\ Points(c, turn.goal, intent) \in Int
        /\ Points(c, turn.goal, intent) <= 11775 + signal - penalty
    BY <1>8, <2>1, <2>2 DEF PointsBetween
  <2>4. Points(probe, turn.goal, intent) \in Int
    BY <1>1, <1>2, SelectionFacts, PointsAreThere DEF PointsBetween
  <2>5. 12000 <= 11775 + signal - penalty
    BY <1>5, <1>7, <2>1, <2>3, <2>4
  <2>6. signal <= 3200 /\ (~Succeeded(c) => signal <= 0)
    BY <2>2, SelectionFacts, SignalFollows
  <2>7. Succeeded(c)
    BY <2>5, <2>6
  <2>8. ~Failed(c)
    BY <2>2, <2>5, <2>6, PenaltyRange
  <2>9. c # Chat
    BY DEF Capabilities, Skills, Tools, Chat
  <2> QED
    BY <2>1, <2>7, <2>8, <2>9
<1> QED
  BY <1>8

\* A failure is left behind.
LEMMA MovesOnStep ==
    ASSUME SelectionInv, SelectAction, ~modelRoute, Chosen # Chat, Failed(Chosen), ~Succeeded(Chosen),
           NEW c \in DOMAIN turn'.intent.weights \cap (AllowedSkills(turn'.intent) \cup turn'.intent.tools),
           usable[c]
    PROVE  ~NeverFailed(c)
<1>1. PICK intent \in Intents(turn.goal), viable \in SUBSET Capabilities :
        /\ turn'.intent = intent /\ IntentFits(intent) /\ RuleFits(intent, turn.goal)
        /\ viable = Viable(turn.goal, intent) /\ viable \subseteq Capabilities
        /\ viable = {} => Chosen = Chat
        /\ viable # {} =>
             /\ Chosen \in viable
             /\ \A d \in viable : Points(d, turn.goal, intent) <= Points(Chosen, turn.goal, intent)
  BY ChosenFacts
<1>2. c \in DOMAIN intent.weights /\ c \in AllowedSkills(intent) \cup intent.tools
  BY <1>1
<1>3. c \in Capabilities /\ c \in Fallbacks(turn.goal) /\ intent.weights[c] >= 62
  BY <1>1, <1>2 DEF IntentFits, RuleFits
<1>4. c \in AnalyzerCandidates(turn.goal, intent)
  BY <1>2 DEF AnalyzerCandidates
<1>5. PICK d \in Capabilities : d = Chosen
  BY <1>1
<1>6. PICK signal \in Int, penalty \in Nat, bonus \in Nat :
        /\ bonus <= 5500
        /\ signal = Signal(d, GoalType(turn.goal, intent)) /\ penalty = Penalty(d)
        /\ PointsBetween(d, turn.goal, intent, Points(d, turn.goal, intent), bonus, signal, penalty)
  BY <1>1, SelectionFacts, PointsAreThere
<1>7. signal <= -1200 /\ penalty = 5000
  <2>1. ~NeverFailed(d) /\ ~Succeeded(d) /\ Failed(d)
    BY <1>5, FailedIsRemembered
  <2> QED
    BY <1>6, <2>1, SelectionFacts, SignalFollows, PenaltyRange
<1>8. Points(d, turn.goal, intent) \in Int /\ Points(d, turn.goal, intent) <= 7500
  <2>1. d # "shell.run" => Points(d, turn.goal, intent) <= 11775 + signal - penalty
    BY <1>6 DEF PointsBetween
  <2>2. d = "shell.run" => Points(d, turn.goal, intent) <= 8200 + bonus + signal - penalty
    BY <1>1, <1>6 DEF PointsBetween, RuleFits
  <2>3. Points(d, turn.goal, intent) \in Int
    BY <1>6 DEF PointsBetween
  <2> QED
    BY <1>6, <1>7, <2>1, <2>2, <2>3
<1>9. ASSUME NeverFailed(c) PROVE FALSE
  <2>1. PICK s \in Int, p \in Nat, b \in Nat :
          /\ s = Signal(c, GoalType(turn.goal, intent)) /\ p = Penalty(c)
          /\ b = ProbeBonus(c, turn.goal, GoalType(turn.goal, intent))
          /\ PointsBetween(c, turn.goal, intent, Points(c, turn.goal, intent), b, s, p)
    BY <1>1, <1>3, SelectionFacts, PointsAreThere
  <2>2. s >= 0 /\ p = 0
    <3>1. ~Failed(c)
      BY <1>3, <1>9, FailedIsRemembered
    <3> QED
      BY <1>3, <1>9, <2>1, <3>1, SelectionFacts, SignalFollows, PenaltyRange
  <2>3. Points(c, turn.goal, intent) \in Int /\ Points(c, turn.goal, intent) >= 8050 + b + s - p
    BY <1>2, <1>3, <1>4, <2>1 DEF PointsBetween
  <2>4. Points(c, turn.goal, intent) >= 8050
    BY <2>1, <2>2, <2>3
  <2>5. c \in viable
    <3>1. c \in Candidates(turn.goal, intent)
      BY <1>3, <1>4, AnalysedAreCandidates
    <3>2. Points(c, turn.goal, intent) > 0
      BY <2>3, <2>4
    <3> QED
      BY <1>1, <1>2, <3>1, <3>2 DEF Viable, Permitted
  <2>6. Points(c, turn.goal, intent) <= Points(d, turn.goal, intent)
    BY <1>1, <1>5, <2>5
  <2> QED
    BY <1>8, <2>3, <2>4, <2>6
<1> QED
  BY <1>9

LEMMA SelectionInvNext == SelectionInv /\ [SelectionNext]_selectionVars => SelectionInv'
<1> SUFFICES ASSUME SelectionInv, [SelectionNext]_selectionVars PROVE SelectionInv'
  OBVIOUS
<1>1. CASE UNCHANGED selectionVars
  BY <1>1 DEF selectionVars, SelectionInv, SelectionTypeOK, SeenFits, NeverFailed
<1>2. ASSUME NEW goal \in Goals, StartTurn(goal) PROVE SelectionInv'
  BY <1>2, StartTurnKeeps
<1>3. CASE ResumeTurn
  BY <1>3, ResumeTurnKeeps
<1>4. CASE SelectAction
  BY <1>4, SelectActionKeeps
<1>5. ASSUME NEW done \in BOOLEAN, NEW evidence \in BOOLEAN, ObserveResult(done, evidence) PROVE SelectionInv'
  BY <1>5, ObserveKeeps
<1>6. ASSUME NEW c \in Capabilities, SwitchCapability(c) PROVE SelectionInv'
  BY <1>6, SwitchKeeps
<1> QED
  BY <1>1, <1>2, <1>3, <1>4, <1>5, <1>6 DEF SelectionNext

\* Only the first half of an iteration chooses.
LEMMA OnlySelectActionSelects ==
    ASSUME SelectionInv, [SelectionNext]_selectionVars, Selects
    PROVE  SelectAction
<1>1. turn.selected = Nothing /\ turn'.selected # Nothing
  BY DEF Selects
<1>2. ASSUME NEW goal \in Goals, StartTurn(goal) PROVE FALSE
  BY <1>1, <1>2 DEF StartTurn, NoTurn
<1>3. CASE ResumeTurn
  <2>1. PICK limit : turn' = [turn EXCEPT !.status = "running", !.limit = limit]
    BY <1>3 DEF ResumeTurn
  <2> QED
    BY <1>1, <2>1, SelectionFacts
<1>4. ASSUME NEW done \in BOOLEAN, NEW evidence \in BOOLEAN, ObserveResult(done, evidence) PROVE FALSE
  BY <1>1, <1>4 DEF ObserveResult
<1>5. ASSUME NEW c \in Capabilities, SwitchCapability(c) PROVE FALSE
  BY <1>1, <1>5 DEF SwitchCapability
<1>6. CASE UNCHANGED selectionVars
  BY <1>1, <1>6 DEF selectionVars
<1> QED
  BY <1>2, <1>3, <1>4, <1>5, <1>6 DEF SelectionNext

\* The run and what is remembered have the shape the code gives them, for any goals,
\* histories, limits and switches.
THEOREM SelectionTypeCorrect == SelectionSpec => []SelectionTypeOK
<1>1. SelectionInv => SelectionTypeOK
  BY DEF SelectionInv
<1> QED
  BY <1>1, SelectionInvInit, SelectionInvNext, PTL DEF SelectionSpec

\* What a run does next answers the gate, the switches and what it learnt: whatever
\* the goals and the histories, it takes only what is enabled and allowed, looks for the
\* evidence that is missing and leaves failures behind.
THEOREM NextActionsAreAlwaysSound == SelectionSpec => NextActionsAreSound
<1>1. SelectionInv /\ [SelectionNext]_selectionVars =>
        (Selects /\ Chosen # Chat =>
           /\ usable[Chosen]
           /\ \/ Chosen \in DOMAIN turn'.intent.weights \cup turn'.intent.tools /\ Chosen \notin HighSideEffects
              \/ Chosen = "shell.run" /\ EvidenceMissing)
  BY OnlySelectActionSelects, AllowedStep
<1>2. SelectionInv /\ [SelectionNext]_selectionVars =>
        (Selects /\ EvidenceMissing /\ usable["shell.run"] /\ NeverFailed("shell.run") =>
           \/ Chosen = "shell.run"
           \/ Chosen # Chat /\ Succeeded(Chosen) /\ ~Failed(Chosen))
  BY OnlySelectActionSelects, ProbeStep
<1>3. SelectionInv /\ [SelectionNext]_selectionVars =>
        (Selects /\ ~modelRoute /\ Chosen # Chat /\ Failed(Chosen) /\ ~Succeeded(Chosen) =>
           \A c \in DOMAIN turn'.intent.weights \cap (AllowedSkills(turn'.intent) \cup turn'.intent.tools) :
             usable[c] => ~NeverFailed(c))
  BY OnlySelectActionSelects, MovesOnStep
<1>4. SelectionSpec => SelectionsAreAllowed
  BY <1>1, SelectionInvInit, SelectionInvNext, PTL DEF SelectionSpec, SelectionsAreAllowed
<1>5. SelectionSpec => ProbeFollowsMissingEvidence
  BY <1>2, SelectionInvInit, SelectionInvNext, PTL DEF SelectionSpec, ProbeFollowsMissingEvidence
<1>6. SelectionSpec => FailuresMoveOn
  BY <1>3, SelectionInvInit, SelectionInvNext, PTL DEF SelectionSpec, FailuresMoveOn
<1> QED
  BY <1>4, <1>5, <1>6, PTL DEF NextActionsAreSound
================================================================================
