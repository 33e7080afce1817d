------------------------- MODULE DatasetHost_proofs -------------------------
(***************************************************************************)
(* Theorems about DatasetHost, for any corpora, files, versions, uploaders *)
(* and tags.                                                               *)
(***************************************************************************)
EXTENDS DatasetHost, TLAPS

(***************************************************************************)
(* Types.                                                                  *)
(***************************************************************************)
LEMMA HostFiles ==
  /\ Manifest \in Files /\ Complete \in Files /\ Data \subseteq Files
  /\ Nothing \in Corpus
  /\ \A v \in Versions \cup {Absent} : All(v) \in Corpus
BY DEF Files, Corpus, Nothing, All

LEMMA IdleStates == Idle \in UploadState /\ NoRelease \in ReleaseState /\ NoFetch \in FetchState
BY HostFiles DEF Idle, UploadState, NoRelease, ReleaseState, NoFetch, FetchState, Snapshot

\* A fetch under way is of a corpus, from the branch or from a tag that is there.
FetchInv ==
  \A f \in Fetchers : fetch[f].pc # "idle" =>
    /\ fetch[f].key \in Corpora
    /\ fetch[f].from \in Tags \cup {None}
    /\ fetch[f].from # None => tags[fetch[f].from] # None

HostTyped == TypeOK /\ FetchInv

LEMMA HostTypeInit == Init => HostTyped
<1> SUFFICES ASSUME Init PROVE HostTyped
  OBVIOUS
<1>1. dest \in Snapshot
  BY HostAssumption DEF Init, Snapshot
<1>2. TypeOK
  BY <1>1, IdleStates, HostFiles, HostAssumption DEF Init, TypeOK, Snapshot
<1>3. FetchInv
  BY DEF Init, FetchInv, NoFetch
<1> QED
  BY <1>2, <1>3 DEF HostTyped

\* Uploads.
LEMMA UploadField ==
  ASSUME NEW x \in UploadState, NEW p \in {"idle", "check", "send", "ok", "refused", "failed"},
         NEW T \in SUBSET Corpora
  PROVE  [x EXCEPT !.pc = p] \in UploadState /\ [x EXCEPT !.todo = T] \in UploadState
BY DEF UploadState

LEMMA UploadPc ==
  ASSUME TypeOK, NEW u \in Uploaders,
         NEW p \in {"idle", "check", "send", "ok", "refused", "failed"}
  PROVE  [up EXCEPT ![u].pc = p] \in [Uploaders -> UploadState]
BY DEF TypeOK, UploadState

LEMMA RegenerateTyped ==
  ASSUME HostTyped, NEW u \in Uploaders, NEW c \in Corpora, NEW v \in Versions, Regenerate(u, c, v)
  PROVE  TypeOK'
<1> USE HostAssumption DEF upVars, fetchVars
<1>1. [f \in Files |-> IF f \in Rewritten /\ stage[u][c][f] # Absent THEN v ELSE stage[u][c][f]]
          \in Corpus
  BY DEF HostTyped, TypeOK, Snapshot, Corpus
<1>2. stage' \in [Uploaders -> Snapshot]
  BY <1>1 DEF HostTyped, TypeOK, Snapshot, Regenerate
<1>3. local' \in [Uploaders -> [Corpora -> Versions \cup {Absent}]]
  BY DEF HostTyped, TypeOK, Regenerate
<1>4. regens' \in 0 .. MaxRegens
  BY DEF HostTyped, TypeOK, Regenerate
<1> QED
  BY <1>2, <1>3, <1>4 DEF HostTyped, TypeOK, Snapshot, Regenerate

LEMMA UploadTyped ==
  ASSUME HostTyped, NEW u \in Uploaders, NEW entries \in SUBSET Corpora,
         NEW replace \in BOOLEAN, NEW keep \in BOOLEAN, NEW afresh \in BOOLEAN,
         Upload(u, entries, replace, keep, afresh)
  PROVE  TypeOK'
<1>1. up' \in [Uploaders -> UploadState]
  BY DEF HostTyped, TypeOK, Upload, StageDir, UploadState
<1>2. stage' \in [Uploaders -> Snapshot] /\ sent' \in [Uploaders -> SUBSET (Corpora \X Files \X Versions)]
  <2>1. [c \in Corpora |-> Nothing] \in Snapshot
    BY HostFiles DEF Snapshot
  <2> QED
    BY <2>1 DEF HostTyped, TypeOK, Upload, StageDir
<1>3. regens' \in 0 .. MaxRegens
  BY HostAssumption DEF HostTyped, TypeOK, Upload, StageDir
<1> QED
  BY <1>1, <1>2, <1>3 DEF HostTyped, TypeOK, Upload, StageDir, fetchVars

LEMMA CheckRemoteTyped ==
  ASSUME HostTyped, NEW u \in Uploaders, NEW c \in Corpora, CheckRemote(u, c)
  PROVE  TypeOK'
<1>1. up[u] \in UploadState /\ up[u].todo \ {c} \in SUBSET Corpora
  BY DEF HostTyped, TypeOK, UploadState
<1>2. up' \in [Uploaders -> UploadState]
  <2>1. up' = [up EXCEPT ![u].pc = "refused"] \/ up' = [up EXCEPT ![u].todo = @ \ {c}]
    BY DEF CheckRemote
  <2>2. up'[u] = [up[u] EXCEPT !.pc = "refused"] \/ up'[u] = [up[u] EXCEPT !.todo = @ \ {c}]
    BY <2>1 DEF HostTyped, TypeOK
  <2>3. up'[u] \in UploadState
    BY <1>1, <2>2, UploadField
  <2> QED
    BY <2>1, <2>3 DEF HostTyped, TypeOK
<1>3. host' \in Snapshot
  BY HostFiles DEF HostTyped, TypeOK, Snapshot, CheckRemote
<1> QED
  BY <1>2, <1>3 DEF HostTyped, TypeOK, Snapshot, CheckRemote, fetchVars

LEMMA StageTyped ==
  ASSUME HostTyped, NEW u \in Uploaders, Stage(u)
  PROVE  TypeOK'
<1>1. [c \in Corpora |-> IF c \in up[u].entries THEN All(local[u][c]) ELSE stage[u][c]] \in Snapshot
  BY HostFiles DEF HostTyped, TypeOK, Snapshot
<1>2. stage' \in [Uploaders -> Snapshot]
  BY <1>1 DEF HostTyped, TypeOK, Stage
<1>3. up' \in [Uploaders -> UploadState]
  BY UploadPc DEF HostTyped, Stage
<1> QED
  BY <1>2, <1>3 DEF HostTyped, TypeOK, Snapshot, Stage, fetchVars

LEMMA SendTyped ==
  ASSUME HostTyped, NEW u \in Uploaders, NEW c \in Corpora, NEW f \in Files, Send(u, c, f)
  PROVE  TypeOK'
<1>1. stage[u][c][f] \in Versions
  BY DEF HostTyped, TypeOK, Snapshot, Corpus, Send, ToSend
<1>2. host' \in Snapshot
  BY <1>1 DEF HostTyped, TypeOK, Snapshot, Corpus, Send
<1>3. sent' \in [Uploaders -> SUBSET (Corpora \X Files \X Versions)]
  BY <1>1 DEF HostTyped, TypeOK, Send
<1> QED
  BY <1>2, <1>3 DEF HostTyped, TypeOK, Snapshot, Send, fetchVars

LEMMA PostCheckTyped ==
  ASSUME HostTyped, NEW u \in Uploaders, PostCheck(u)
  PROVE  TypeOK'
<1>1. up' \in [Uploaders -> UploadState]
  BY UploadPc DEF HostTyped, PostCheck
<1>2. stage' \in [Uploaders -> Snapshot]
  <2>1. [c \in Corpora |-> Nothing] \in Snapshot
    BY HostFiles DEF Snapshot
  <2> QED
    BY <2>1 DEF HostTyped, TypeOK, PostCheck
<1>3. sent' \in [Uploaders -> SUBSET (Corpora \X Files \X Versions)]
  BY DEF HostTyped, TypeOK, PostCheck
<1> QED
  BY <1>1, <1>2, <1>3 DEF HostTyped, TypeOK, Snapshot, PostCheck, fetchVars

LEMMA UploadDiesTyped ==
  ASSUME HostTyped, NEW u \in Uploaders, UploadDies(u)
  PROVE  TypeOK'
<1>1. up' \in [Uploaders -> UploadState]
  BY UploadPc DEF HostTyped, UploadDies
<1>2. faults' \in 0 .. MaxFaults
  BY HostAssumption DEF HostTyped, TypeOK, UploadDies
<1> QED
  BY <1>1, <1>2 DEF HostTyped, TypeOK, Snapshot, UploadDies, fetchVars

\* Releases.
LEMMA ReleaseTyped ==
  ASSUME HostTyped,
         ReleaseStep
  PROVE  TypeOK'
<1> USE IdleStates DEF HostTyped, TypeOK, upVars, fetchVars
<1>1. CASE \E t \in Tags : Release(t)
  <2>1. rel' \in ReleaseState
    BY <1>1 DEF Release, ReleaseState, Listed
  <2> QED
    BY <1>1, <2>1 DEF Release
<1>2. CASE \E c \in Corpora : ReadManifest(c)
  <2>1. PICK c \in Corpora : ReadManifest(c)
    BY <1>2
  <2>2. host[c][Manifest] \in Versions \cup {Absent}
    BY HostFiles DEF Snapshot, Corpus
  <2>3. rel' \in ReleaseState
    BY <2>1, <2>2 DEF ReadManifest, ReleaseState
  <2> QED
    BY <2>1, <2>3 DEF ReadManifest
<1>3. CASE VerifyHost
  <2>1. rel' \in ReleaseState
    BY <1>3 DEF VerifyHost, ReleaseState
  <2> QED
    BY <1>3, <2>1 DEF VerifyHost
<1>4. CASE CreateTag
  BY <1>4 DEF CreateTag
<1>5. CASE ReleaseDies
  BY <1>5, HostAssumption DEF ReleaseDies
<1> QED
  BY <1>1, <1>2, <1>3, <1>4, <1>5 DEF ReleaseStep

\* Fetches.
LEMMA FetchPc ==
  ASSUME fetch \in [Fetchers -> FetchState], NEW f \in Fetchers,
         NEW p \in {"idle", "get", "clear", "land"}
  PROVE  [fetch EXCEPT ![f].pc = p] \in [Fetchers -> FetchState]
BY DEF FetchState

LEMMA FetchWant ==
  ASSUME fetch \in [Fetchers -> FetchState], NEW f \in Fetchers, NEW W \in SUBSET Files
  PROVE  [fetch EXCEPT ![f].want = W] \in [Fetchers -> FetchState]
BY DEF FetchState

LEMMA FetchNone ==
  ASSUME fetch \in [Fetchers -> FetchState], NEW f \in Fetchers
  PROVE  [fetch EXCEPT ![f] = NoFetch] \in [Fetchers -> FetchState]
BY IdleStates

LEMMA FetchTyped ==
  ASSUME HostTyped, NEW f \in Fetchers,
         FetchStep(f)
  PROVE  TypeOK'
<1> USE HostFiles, IdleStates DEF HostTyped, TypeOK, upVars, fetchVars
<1>1. CASE \E c \in Wanted, from \in Tags \cup {None} : Fetch(f, c, from)
  <2>1. fetch' \in [Fetchers -> FetchState]
    BY <1>1, HostAssumption DEF Fetch, FetchState
  <2>2. scratch' \in Snapshot
    BY <1>1 DEF Fetch, Snapshot
  <2> QED
    BY <1>1, <2>1, <2>2 DEF Fetch
<1>2. CASE \E x \in Files : Get(f, x)
  <2>1. PICK x \in Files : Get(f, x)
    BY <1>2
  <2> DEFINE c == fetch[f].key
             y == Source(fetch[f].from)[c][x]
  <2>2. fetch[f].pc # "idle"
    BY <2>1 DEF Get
  <2>3. c \in Corpora /\ y \in Versions \cup {Absent}
    BY <2>2 DEF FetchInv, Source, Snapshot, Corpus
  <2>4. scratch' \in Snapshot
    <3>1. scratch' = scratch \/ scratch' = [scratch EXCEPT ![c][x] = y]
      BY <2>1 DEF Get
    <3> HIDE DEF y, c
    <3>2. [scratch EXCEPT ![c][x] = y] \in Snapshot
      BY <2>3 DEF Snapshot, Corpus
    <3> QED
      BY <3>1, <3>2
  <2>5. fetch[f].want \ {x} \in SUBSET Files
    BY DEF FetchState
  <2>6. fetch' \in [Fetchers -> FetchState]
    <3>1. \/ fetch' = [fetch EXCEPT ![f] = NoFetch]
          \/ fetch' = [fetch EXCEPT ![f].want = fetch[f].want \ {x}]
      BY <2>1 DEF Get
    <3>2. [fetch EXCEPT ![f].want = fetch[f].want \ {x}] \in [Fetchers -> FetchState]
      BY <2>5, FetchWant
    <3>3. [fetch EXCEPT ![f] = NoFetch] \in [Fetchers -> FetchState]
      BY FetchNone
    <3> QED
      BY <3>1, <3>2, <3>3
  <2> QED
    BY <2>1, <2>4, <2>6 DEF Get
<1>3. CASE VerifyScratch(f)
  <2>1. fetch' \in [Fetchers -> FetchState]
    <3>1. fetch' = [fetch EXCEPT ![f].pc = "clear"] \/ fetch' = [fetch EXCEPT ![f] = NoFetch]
      BY <1>3 DEF VerifyScratch
    <3>2. [fetch EXCEPT ![f].pc = "clear"] \in [Fetchers -> FetchState]
      BY FetchPc
    <3>3. [fetch EXCEPT ![f] = NoFetch] \in [Fetchers -> FetchState]
      BY FetchNone
    <3> QED
      BY <3>1, <3>2, <3>3
  <2>2. scratch' \in Snapshot
    BY <1>3 DEF VerifyScratch, Snapshot
  <2> QED
    BY <1>3, <2>1, <2>2 DEF VerifyScratch
<1>4. CASE ClearDest(f)
  <2>1. fetch' \in [Fetchers -> FetchState]
    BY <1>4, FetchPc DEF ClearDest
  <2>2. dest' \in Snapshot
    BY <1>4 DEF ClearDest, Snapshot
  <2> QED
    BY <1>4, <2>1, <2>2 DEF ClearDest
<1>5. CASE Land(f)
  <2>1. fetch' \in [Fetchers -> FetchState]
    BY <1>5 DEF Land
  <2>2. fetch[f].key \in Corpora
    BY <1>5 DEF Land, FetchInv
  <2>3. dest' \in Snapshot /\ scratch' \in Snapshot
    BY <1>5, <2>2 DEF Land, Snapshot
  <2> QED
    BY <1>5, <2>1, <2>3 DEF Land
<1>6. CASE FetchDies(f)
  BY <1>6, HostAssumption DEF FetchDies
<1> QED
  BY <1>1, <1>2, <1>3, <1>4, <1>5, <1>6 DEF FetchStep

LEMMA HostTypedStep == HostTyped /\ [Next]_vars => HostTyped'
<1> SUFFICES ASSUME HostTyped, [Next]_vars PROVE HostTyped'
  OBVIOUS
<1> USE HostAssumption
<1>1. CASE UNCHANGED vars
  BY <1>1 DEF HostTyped, TypeOK, FetchInv, vars, upVars, fetchVars
<1>2. ASSUME NEW u \in Uploaders, UploadStep(u) PROVE HostTyped'
  <2>1. TypeOK'
    BY <1>2, RegenerateTyped, UploadTyped, CheckRemoteTyped, StageTyped, SendTyped,
       PostCheckTyped, UploadDiesTyped DEF UploadStep
  <2>2. fetch' = fetch /\ tags' = tags
    BY <1>2 DEF UploadStep, Regenerate, Upload, StageDir, CheckRemote, Stage, Send, PostCheck, UploadDies,
       fetchVars
  <2> QED
    BY <2>1, <2>2 DEF HostTyped, FetchInv
<1>3. CASE ReleaseStep
  <2>1. TypeOK'
    BY <1>3, ReleaseTyped
  <2>2. fetch' = fetch
    BY <1>3 DEF ReleaseStep, Release, ReadManifest, VerifyHost, CreateTag, ReleaseDies, fetchVars
  <2>3. \A t \in Tags : tags[t] # None => tags'[t] # None
    <3>1. tags' = tags \/ tags' = [tags EXCEPT ![rel.tag] = host]
      BY <1>3 DEF ReleaseStep, Release, ReadManifest, VerifyHost, CreateTag, ReleaseDies
    <3> QED
      BY <3>1 DEF HostTyped, TypeOK
  <2> QED
    BY <2>1, <2>2, <2>3 DEF HostTyped, FetchInv
<1>4. ASSUME NEW f \in Fetchers, FetchStep(f) PROVE HostTyped'
  <2>1. TypeOK'
    BY <1>4, FetchTyped
  <2>2. tags' = tags
    BY <1>4 DEF FetchStep, Fetch, Get, VerifyScratch, ClearDest, Land, FetchDies
  <2>3. \A g \in Fetchers : g # f => fetch'[g] = fetch[g]
    BY <1>4 DEF HostTyped, TypeOK, FetchStep, Fetch, Get, VerifyScratch, ClearDest, Land, FetchDies
  <2>4. fetch'[f].pc # "idle" =>
          /\ fetch'[f].key \in Corpora
          /\ fetch'[f].from \in Tags \cup {None}
          /\ fetch'[f].from # None => tags[fetch'[f].from] # None
    <3>1. CASE \E c \in Wanted, from \in Tags \cup {None} : Fetch(f, c, from)
      BY <3>1 DEF Fetch, HostTyped, TypeOK
    <3>2. CASE ~\E c \in Wanted, from \in Tags \cup {None} : Fetch(f, c, from)
      <4>1. \/ fetch'[f].pc = "idle"
            \/ /\ fetch[f].pc # "idle"
               /\ fetch'[f].key = fetch[f].key /\ fetch'[f].from = fetch[f].from
        <5>1. /\ fetch[f].pc # "idle"
              /\ \/ fetch' = [fetch EXCEPT ![f] = NoFetch]
                 \/ \E W \in SUBSET Files : fetch' = [fetch EXCEPT ![f].want = W]
                 \/ \E p \in {"clear", "land"} : fetch' = [fetch EXCEPT ![f].pc = p]
          <6>1. fetch[f].want \in SUBSET Files
            BY DEF HostTyped, TypeOK, FetchState
          <6>2. CASE \E x \in Files : Get(f, x)
            <7>1. PICK x \in Files : Get(f, x)
              BY <6>2
            <7>2. fetch[f].want \ {x} \in SUBSET Files
              BY <6>1
            <7> QED
              BY <7>1, <7>2 DEF Get
          <6>3. CASE VerifyScratch(f)
            BY <6>3 DEF VerifyScratch
          <6>4. CASE ClearDest(f)
            BY <6>4 DEF ClearDest
          <6>5. CASE Land(f) \/ FetchDies(f)
            BY <6>5 DEF Land, FetchDies
          <6> QED
            BY <1>4, <3>2, <6>2, <6>3, <6>4, <6>5 DEF FetchStep
        <5>2. fetch \in [Fetchers -> FetchState]
          BY DEF HostTyped, TypeOK
        <5> QED
          BY <5>1, <5>2 DEF NoFetch, FetchState
      <4> QED
        BY <4>1 DEF HostTyped, FetchInv
    <3> QED
      BY <3>1, <3>2
  <2> QED
    BY <2>1, <2>2, <2>3, <2>4 DEF HostTyped, FetchInv
<1> QED
  BY <1>1, <1>2, <1>3, <1>4 DEF Next

\* Every variable keeps its type.
THEOREM HostTypeCorrect == Spec => []TypeOK
<1>1. HostTyped => TypeOK
  BY DEF HostTyped
<1> QED
  BY <1>1, HostTypeInit, HostTypedStep, PTL DEF Spec

THEOREM HostTypedAlways == Spec => []HostTyped
BY HostTypeInit, HostTypedStep, PTL DEF Spec

(***************************************************************************)
(* Uploads.                                                                *)
(***************************************************************************)
\* Every corpus has one uploader.
OneUploaderEach == \A u, w \in Uploaders : u # w => Owns[u] \cap Owns[w] = {}

\* An uploader stages and sends what it owns; what it remembers to have sent is
\* on the host, so that a corpus the host has nothing of is sent whole.  What it
\* replaces it remembers nothing of.
Known(u) ==
  /\ up[u].entries \subseteq Owns[u] /\ up[u].todo \subseteq up[u].entries
  /\ up[u].pc = "check" /\ up[u].replace => ~Remembers(u, up[u].entries)
  /\ \A c \in Owns[u] : local[u][c] # Absent
  /\ \A c \in Corpora, f \in Files : stage[u][c][f] # Absent => c \in Owns[u]
  /\ \A x \in sent[u] : x[1] \in Owns[u] /\ host[x[1]][x[2]] # Absent

\* A corpus whose check is passed is not on the host; while it is sent it is staged
\* as it is locally, and what is remembered of it is on the host as it is staged.
UnderWay(u) ==
  /\ up[u].pc = "check" => \A c \in up[u].entries \ up[u].todo : ~OnHost(c)
  /\ up[u].pc = "send" =>
       \A c \in up[u].entries :
         /\ stage[u][c] = All(local[u][c])
         /\ \A f \in Files : <<c, f, local[u][c]>> \in sent[u] => host[c][f] = local[u][c]

Served(u) == up[u].pc = "ok" => \A c \in up[u].entries : Whole(host[c])

ServeInv == \A u \in Uploaders : Known(u) /\ UnderWay(u) /\ Served(u)

LEMMA ServeInit == Init => ServeInv
<1> SUFFICES ASSUME Init, NEW u \in Uploaders PROVE Known(u) /\ UnderWay(u) /\ Served(u)
  BY DEF ServeInv
<1>1. up[u] = Idle /\ sent[u] = {} /\ \A c \in Corpora, f \in Files : stage[u][c][f] = Absent
  BY DEF Init, Nothing
<1>2. \A c \in Owns[u] : local[u][c] # Absent
  BY HostAssumption DEF Init
<1> QED
  BY <1>1, <1>2 DEF Known, UnderWay, Served, Idle

\* What an uploader knows outlasts a step that changes neither its state nor what the
\* host has of its corpora.
LEMMA OthersServed ==
  ASSUME HostTyped, NEW w \in Uploaders, Known(w), UnderWay(w), Served(w),
         up'[w] = up[w], local'[w] = local[w], stage'[w] = stage[w], sent'[w] = sent[w],
         \A c \in Owns[w] : host'[c] = host[c]
  PROVE  Known(w)' /\ UnderWay(w)' /\ Served(w)'
BY DEF Known, UnderWay, Served, OnHost, Remembers

LEMMA RegenerateServes ==
  ASSUME HostTyped, NEW u \in Uploaders, Known(u), UnderWay(u), Served(u),
         NEW c \in Corpora, NEW v \in Versions, Regenerate(u, c, v)
  PROVE  Known(u)' /\ UnderWay(u)' /\ Served(u)'
<1>1. /\ up[u].pc \notin {"check", "send"} /\ up' = up /\ host' = host /\ sent' = sent
      /\ c \in Owns[u] /\ v # Absent
  BY HostAssumption DEF Regenerate, Uploading
<1>2. \A d \in Corpora : local'[u][d] = IF d = c THEN v ELSE local[u][d]
  BY DEF Regenerate, HostTyped, TypeOK
<1>3. \A d \in Corpora : d # c => stage'[u][d] = stage[u][d]
  BY DEF Regenerate, HostTyped, TypeOK, Snapshot
<1>4. \A d \in Owns[u] : local'[u][d] # Absent
  BY <1>1, <1>2, HostAssumption DEF Known
<1>5. Known(u)'
  BY <1>1, <1>3, <1>4 DEF Known
<1> QED
  BY <1>1, <1>5 DEF UnderWay, Served

LEMMA UploadServes ==
  ASSUME AllowReplace => ReplaceAfresh, HostTyped, NEW u \in Uploaders, Known(u),
         NEW entries \in SUBSET Corpora, NEW replace \in BOOLEAN, NEW keep \in BOOLEAN,
         NEW afresh \in BOOLEAN, Upload(u, entries, replace, keep, afresh)
  PROVE  Known(u)' /\ UnderWay(u)' /\ Served(u)' /\ host' = host
<1>1. /\ up'[u].pc = "check" /\ up'[u].entries = entries /\ up'[u].todo = entries
      /\ up'[u].replace = replace /\ entries \subseteq Owns[u]
  BY DEF Upload, StageDir, HostTyped, TypeOK
<1>2. /\ local' = local /\ host' = host
      /\ replace => afresh \/ ~Remembers(u, entries)
  BY DEF Upload, StageDir
<1>3. \/ stage'[u] = stage[u] /\ sent'[u] = sent[u] /\ ~afresh
      \/ sent'[u] = {} /\ \A c \in Corpora, f \in Files : stage'[u][c][f] = Absent
  BY DEF Upload, StageDir, Nothing, HostTyped, TypeOK
<1>4. replace => ~Remembers(u, entries)'
  BY <1>2, <1>3 DEF Remembers
<1> QED
  BY <1>1, <1>2, <1>3, <1>4 DEF Known, UnderWay, Served

LEMMA CheckServes ==
  ASSUME HostTyped, NEW u \in Uploaders, Known(u), UnderWay(u), NEW c \in Corpora, CheckRemote(u, c)
  PROVE  /\ Known(u)' /\ UnderWay(u)' /\ Served(u)'
         /\ c \in Owns[u] /\ \A d \in Corpora : d # c => host'[d] = host[d]
<1> USE HostFiles DEF HostTyped, TypeOK
<1>1. /\ local' = local /\ stage' = stage /\ sent' = sent
      /\ up[u].pc = "check" /\ c \in up[u].todo
      /\ up[u].entries \subseteq Owns[u] /\ up[u].todo \subseteq up[u].entries
  BY DEF CheckRemote, Known
<1>2. CASE OnHost(c) /\ ~up[u].replace
  <2>1. /\ up'[u].pc = "refused" /\ host' = host /\ up'[u].entries = up[u].entries
        /\ up'[u].todo = up[u].todo /\ up'[u].replace = up[u].replace
    BY <1>1, <1>2 DEF CheckRemote, UploadState
  <2> QED
    BY <1>1, <2>1 DEF Known, UnderWay, Served
<1>3. CASE ~(OnHost(c) /\ ~up[u].replace)
  <2>1. /\ up'[u].pc = "check" /\ up'[u].entries = up[u].entries
        /\ up'[u].todo = up[u].todo \ {c} /\ up'[u].replace = up[u].replace
    BY <1>1, <1>3 DEF CheckRemote, UploadState
  <2>2. \A d \in Corpora : host'[d] = IF d = c THEN Nothing ELSE host[d]
    BY <1>1, <1>3 DEF CheckRemote, Snapshot
  <2>3. \A x \in sent[u] : x[1] # c
    <3>1. CASE up[u].replace
      BY <1>1, <3>1 DEF Known, Remembers
    <3>2. CASE ~OnHost(c)
      BY <3>2 DEF Known, OnHost
    <3> QED
      BY <1>3, <3>1, <3>2
  <2>4. \A x \in sent[u] : x[1] \in Corpora
    OBVIOUS
  <2>5. \A x \in sent[u] : x[1] \in Owns[u] /\ host'[x[1]][x[2]] # Absent
    BY <2>2, <2>3, <2>4 DEF Known
  <2>6. Known(u)'
    BY <1>1, <2>1, <2>5 DEF Known, Remembers
  <2>7. \A d \in Corpora : ~OnHost(d) \/ d = c => ~OnHost(d)'
    BY <2>2 DEF OnHost, Nothing
  <2>8. UnderWay(u)'
    <3>1. up[u].entries \subseteq Corpora
      BY DEF UploadState
    <3> QED
      BY <1>1, <2>1, <2>7, <3>1 DEF UnderWay
  <2> QED
    BY <1>1, <2>1, <2>2, <2>6, <2>8 DEF Served
<1> QED
  BY <1>2, <1>3

LEMMA StageServes ==
  ASSUME HostTyped, NEW u \in Uploaders, Known(u), UnderWay(u), Stage(u)
  PROVE  Known(u)' /\ UnderWay(u)' /\ Served(u)'
<1> USE DEF HostTyped, TypeOK
<1>1. /\ local' = local /\ sent' = sent /\ host' = host
      /\ up[u].pc = "check" /\ up[u].todo = {}
      /\ up'[u].pc = "send" /\ up'[u].entries = up[u].entries
      /\ up'[u].todo = up[u].todo /\ up'[u].replace = up[u].replace
  BY DEF Stage, UploadState
<1>2. \A c \in Corpora : stage'[u][c] = IF c \in up[u].entries THEN All(local[u][c]) ELSE stage[u][c]
  BY DEF Stage
<1>3. \A c \in up[u].entries : ~OnHost(c) /\ c \in Corpora
  BY <1>1 DEF UnderWay, UploadState
<1>4. \A c \in up[u].entries, f \in Files, v \in Versions \cup {Absent} : <<c, f, v>> \notin sent[u]
  BY <1>3 DEF Known, OnHost
<1>5. \A c \in up[u].entries : local[u][c] \in Versions \cup {Absent}
  BY <1>3
<1>6. Known(u)'
  BY <1>1, <1>2 DEF Known
<1>7. UnderWay(u)'
  BY <1>1, <1>2, <1>3, <1>4, <1>5 DEF UnderWay
<1> QED
  BY <1>1, <1>6, <1>7 DEF Served

LEMMA SendServes ==
  ASSUME HostTyped, NEW u \in Uploaders, Known(u), UnderWay(u), NEW c \in Corpora, NEW f \in Files,
         Send(u, c, f)
  PROVE  /\ Known(u)' /\ UnderWay(u)' /\ Served(u)'
         /\ c \in Owns[u] /\ \A d \in Corpora : d # c => host'[d] = host[d]
<1> USE DEF HostTyped, TypeOK, Snapshot, Corpus
<1> DEFINE v == stage[u][c][f]
<1>1. /\ local' = local /\ stage' = stage /\ up' = up /\ up[u].pc = "send"
      /\ v # Absent /\ v \in Versions
  BY DEF Send, ToSend
<1>2. sent'[u] = sent[u] \cup {<<c, f, v>>}
  BY DEF Send
<1>3. \A d \in Corpora, g \in Files :
        host'[d][g] = IF d = c /\ g = f THEN v ELSE host[d][g]
  BY DEF Send
<1>4. \A d \in Corpora : d # c => host'[d] = host[d]
  BY DEF Send
<1>5. c \in Owns[u]
  BY <1>1 DEF Known
<1>6. Known(u)'
  <2>1. \A x \in sent'[u] : x[1] \in Owns[u] /\ host'[x[1]][x[2]] # Absent
    <3> SUFFICES ASSUME NEW x \in sent'[u] PROVE x[1] \in Owns[u] /\ host'[x[1]][x[2]] # Absent
      OBVIOUS
    <3>1. CASE x = <<c, f, v>>
      BY <1>1, <1>3, <1>5, <3>1
    <3>2. CASE x \in sent[u]
      <4>1. x[1] \in Corpora /\ x[2] \in Files /\ x[1] \in Owns[u] /\ host[x[1]][x[2]] # Absent
        BY <3>2 DEF Known
      <4> QED
        BY <1>1, <1>3, <4>1
    <3> QED
      BY <1>2, <3>1, <3>2
  <2> QED
    BY <1>1, <2>1 DEF Known
<1>7. UnderWay(u)'
  <2> SUFFICES ASSUME NEW d \in up[u].entries, NEW g \in Files, <<d, g, local[u][d]>> \in sent'[u]
               PROVE  host'[d][g] = local[u][d]
    BY <1>1 DEF UnderWay
  <2>1. d \in Corpora /\ stage[u][d] = All(local[u][d])
    BY <1>1 DEF UnderWay, UploadState
  <2>2. CASE d = c /\ g = f
    <3>1. v = local[u][d]
      BY <2>1, <2>2 DEF All
    <3> QED
      BY <1>3, <2>1, <2>2, <3>1
  <2>3. CASE ~(d = c /\ g = f)
    <3>1. <<d, g, local[u][d]>> \in sent[u]
      BY <1>2, <2>3
    <3>2. host[d][g] = local[u][d]
      BY <1>1, <3>1 DEF UnderWay
    <3> QED
      BY <1>3, <2>1, <2>3, <3>2
  <2> QED
    BY <2>2, <2>3
<1> QED
  BY <1>1, <1>4, <1>5, <1>6, <1>7 DEF Served

LEMMA PostCheckServes ==
  ASSUME HostTyped, NEW u \in Uploaders, Known(u), UnderWay(u), PostCheck(u)
  PROVE  Known(u)' /\ UnderWay(u)' /\ Served(u)'
<1> USE HostFiles DEF HostTyped, TypeOK
<1>1. /\ local' = local /\ host' = host /\ up[u].pc = "send" /\ ToSend(u) = {}
      /\ up'[u].pc \in {"failed", "ok"}
      /\ up'[u].entries = up[u].entries /\ up'[u].todo = up[u].todo
      /\ up'[u].replace = up[u].replace
  BY DEF PostCheck, UploadState
<1>2. \A c \in up[u].entries : Whole(host[c])
  <2> SUFFICES ASSUME NEW c \in up[u].entries PROVE Whole(host[c])
    OBVIOUS
  <2>1. c \in Owns[u] /\ c \in Corpora /\ local[u][c] # Absent
    BY DEF Known, UploadState
  <2>2. \A f \in Files : stage[u][c][f] = local[u][c]
    <3>1. stage[u][c] = All(local[u][c])
      BY <1>1 DEF UnderWay
    <3> QED
      BY <3>1 DEF All
  <2>3. \A f \in Files : <<c, f, local[u][c]>> \in sent[u]
    <3> SUFFICES ASSUME NEW f \in Files PROVE <<c, f, local[u][c]>> \in sent[u]
      OBVIOUS
    <3>1. <<c, f>> \notin ToSend(u) /\ <<c, f>> \in Corpora \X Files
      BY <1>1, <2>1
    <3> QED
      BY <2>1, <2>2, <3>1 DEF ToSend
  <2>4. \A f \in Files : host[c][f] = local[u][c]
    BY <1>1, <2>3 DEF UnderWay
  <2> QED
    BY <2>1, <2>4 DEF Whole, Verifies
<1>3. \/ stage' = stage /\ sent' = sent
      \/ sent'[u] = {} /\ \A c \in Corpora, f \in Files : stage'[u][c][f] = Absent
  BY DEF PostCheck, Nothing
<1>4. Known(u)'
  BY <1>1, <1>3 DEF Known
<1> QED
  BY <1>1, <1>2, <1>4 DEF UnderWay, Served

LEMMA DiesServes ==
  ASSUME HostTyped, NEW u \in Uploaders, Known(u), UploadDies(u)
  PROVE  Known(u)' /\ UnderWay(u)' /\ Served(u)'
<1>1. /\ local' = local /\ stage' = stage /\ sent' = sent /\ host' = host
      /\ up'[u].pc = "failed" /\ up'[u].entries = up[u].entries
      /\ up'[u].todo = up[u].todo /\ up'[u].replace = up[u].replace
  BY DEF UploadDies, HostTyped, TypeOK, UploadState
<1> QED
  BY <1>1 DEF Known, UnderWay, Served

LEMMA UploadKeepsServed ==
  ASSUME AllowReplace => ReplaceAfresh, OneUploaderEach, HostTyped, ServeInv, NEW u \in Uploaders, UploadStep(u)
  PROVE  ServeInv'
<1>1. Known(u) /\ UnderWay(u) /\ Served(u)
  BY DEF ServeInv
<1>2. /\ Known(u)' /\ UnderWay(u)' /\ Served(u)'
      /\ \A c \in Corpora \ Owns[u] : host'[c] = host[c]
  <2>1. CASE \E c \in Corpora, v \in Versions : Regenerate(u, c, v)
    BY <1>1, <2>1, RegenerateServes DEF Regenerate
  <2>2. CASE \E entries \in SUBSET Corpora, replace, keep, afresh \in BOOLEAN :
               Upload(u, entries, replace, keep, afresh)
    BY <1>1, <2>2, UploadServes
  <2>3. CASE \E c \in Corpora : CheckRemote(u, c)
    BY <1>1, <2>3, CheckServes
  <2>4. CASE Stage(u)
    BY <1>1, <2>4, StageServes DEF Stage
  <2>5. CASE \E c \in Corpora, f \in Files : Send(u, c, f)
    BY <1>1, <2>5, SendServes
  <2>6. CASE PostCheck(u)
    BY <1>1, <2>6, PostCheckServes DEF PostCheck
  <2>7. CASE UploadDies(u)
    BY <1>1, <2>7, DiesServes DEF UploadDies
  <2> QED
    BY <2>1, <2>2, <2>3, <2>4, <2>5, <2>6, <2>7 DEF UploadStep
<1>3. ASSUME NEW w \in Uploaders, w # u PROVE Known(w)' /\ UnderWay(w)' /\ Served(w)'
  <2>1. up'[w] = up[w] /\ local'[w] = local[w] /\ stage'[w] = stage[w] /\ sent'[w] = sent[w]
    BY <1>3 DEF UploadStep, Regenerate, Upload, StageDir, CheckRemote, Stage, Send, PostCheck, UploadDies,
       HostTyped, TypeOK
  <2>2. \A c \in Owns[w] : host'[c] = host[c]
    BY <1>2, <1>3, HostAssumption DEF OneUploaderEach
  <2> QED
    BY <2>1, <2>2, OthersServed DEF ServeInv
<1> QED
  BY <1>2, <1>3 DEF ServeInv

LEMMA ServeStep ==
  ASSUME AllowReplace => ReplaceAfresh, OneUploaderEach
  PROVE  HostTyped /\ ServeInv /\ [Next]_vars => ServeInv'
<1> SUFFICES ASSUME HostTyped, ServeInv, [Next]_vars PROVE ServeInv'
  OBVIOUS
<1>1. CASE \E u \in Uploaders : UploadStep(u)
  BY <1>1, UploadKeepsServed
<1>2. ASSUME up' = up, local' = local, stage' = stage, sent' = sent, host' = host
      PROVE  ServeInv'
  BY <1>2 DEF ServeInv, Known, UnderWay, Served, OnHost, Remembers
<1>3. CASE UNCHANGED vars
  BY <1>2, <1>3 DEF vars, upVars
<1>4. CASE ReleaseStep
  BY <1>2, <1>4 DEF ReleaseStep, Release, ReadManifest, VerifyHost, CreateTag, ReleaseDies, upVars
<1>5. CASE \E f \in Fetchers : FetchStep(f)
  BY <1>2, <1>5 DEF FetchStep, Fetch, Get, VerifyScratch, ClearDest, Land, FetchDies, upVars
<1> QED
  BY <1>1, <1>3, <1>4, <1>5 DEF Next

\* With every corpus uploaded from one place, an upload that ended well has put its
\* corpora whole on the host: also a resumed one, one from a kept stage whose files were
\* rewritten since, and one that replaces what an earlier upload left there in part, as
\* the refusal prescribes, from a stage that remembers nothing of it.  (From a stage
\* that does, the library skips what is remembered although the folder was deleted.)
THEOREM OkUploadsAreServed ==
  ASSUME AllowReplace => ReplaceAfresh, OneUploaderEach
  PROVE  Spec => []OkMeansServed
<1>1. HostTyped /\ ServeInv /\ [Next]_vars => ServeInv'
  BY ServeStep
<1>2. ServeInv => OkMeansServed
  BY DEF ServeInv, Served, OkMeansServed
<1> QED
  BY <1>1, <1>2, ServeInit, HostTypedAlways, PTL DEF Spec

(***************************************************************************)
(* Releases.                                                               *)
(***************************************************************************)
\* While a release is under way the host does not change, and what is about to
\* be tagged has been verified.
ReleaseInv ==
  /\ Releasing => /\ \A u \in Uploaders : ~Uploading(u)
                  /\ rel.tree = host /\ rel.tag \in Tags /\ tags[rel.tag] = None
  /\ rel.pc = "read" => \A c \in Listed(host) \ rel.todo : rel.read[c] = host[c][Manifest]
  /\ rel.pc = "tag" => \A c \in Listed(host) : Whole(host[c])

LEMMA ReleaseInit == Init => ReleaseInv /\ TagsVerify
BY DEF Init, ReleaseInv, TagsVerify, Releasing, NoRelease

LEMMA UploadKeepsRelease ==
  ASSUME ReleaseAlone, HostTyped, ReleaseInv, NEW u \in Uploaders, UploadStep(u)
  PROVE  ReleaseInv' /\ tags' = tags
<1>1. rel' = rel /\ tags' = tags
  BY DEF UploadStep, Regenerate, Upload, StageDir, CheckRemote, Stage, Send, PostCheck, UploadDies
<1>2. CASE ~Releasing
  BY <1>1, <1>2 DEF ReleaseInv, Releasing
<1>3. CASE Releasing
  <2>1. ~Uploading(u) /\ \A x \in Uploaders : ~Uploading(x)
    BY <1>3 DEF ReleaseInv
  <2>2. \E c \in Corpora, v \in Versions : Regenerate(u, c, v)
    BY <1>3, <2>1 DEF UploadStep, Upload, StageDir, CheckRemote, Stage, Send, PostCheck, UploadDies, Uploading
  <2>3. host' = host /\ up' = up
    BY <2>2 DEF Regenerate
  <2> QED
    BY <1>1, <2>1, <2>3 DEF ReleaseInv, Releasing, Uploading, Listed
<1> QED
  BY <1>1, <1>2, <1>3

LEMMA ReleaseKeeps ==
  ASSUME HashShown, ReleaseAlone, HostTyped, ReleaseInv, TagsVerify, ReleaseStep
  PROVE  ReleaseInv' /\ TagsVerify'
<1> USE HostAssumption
<1>1. CASE \E t \in Tags : Release(t)
  <2>1. PICK t \in Tags : Release(t)
    BY <1>1
  <2>2. rel' = [pc |-> "read", tag |-> t, tree |-> host,
                read |-> [c \in Corpora |-> Absent], todo |-> Listed(host)]
        /\ host' = host /\ tags' = tags /\ up' = up /\ tags[t] = None
        /\ \A u \in Uploaders : ~Uploading(u)
    BY <2>1 DEF Release, upVars
  <2> QED
    BY <2>2 DEF ReleaseInv, TagsVerify, Releasing, Uploading, Listed
<1>2. CASE \E c \in Corpora : ReadManifest(c)
  <2>1. PICK c \in Corpora : ReadManifest(c)
    BY <1>2
  <2>2. /\ rel.pc = "read" /\ host' = host /\ tags' = tags /\ up' = up
        /\ rel' = NoRelease \/ rel' = [rel EXCEPT !.read[c] = host[c][Manifest], !.todo = @ \ {c}]
    BY <2>1 DEF ReadManifest, upVars
  <2>3. CASE rel' = NoRelease
    BY <2>2, <2>3 DEF ReleaseInv, TagsVerify, Releasing, NoRelease
  <2>4. CASE rel' = [rel EXCEPT !.read[c] = host[c][Manifest], !.todo = @ \ {c}]
    <3>1. /\ rel'.pc = "read" /\ rel'.tree = rel.tree /\ rel'.tag = rel.tag
          /\ rel'.todo = rel.todo \ {c}
          /\ \A d \in Corpora : rel'.read[d] = IF d = c THEN host[c][Manifest] ELSE rel.read[d]
      BY <2>2, <2>4 DEF HostTyped, TypeOK, ReleaseState
    <3>2. \A d \in Listed(host) \ rel'.todo : rel'.read[d] = host[d][Manifest]
      BY <2>2, <3>1 DEF ReleaseInv, Listed
    <3> QED
      BY <2>2, <3>1, <3>2 DEF ReleaseInv, TagsVerify, Releasing, Uploading, Listed
  <2> QED
    BY <2>2, <2>3, <2>4
<1>3. CASE VerifyHost
  <2>1. /\ rel.pc = "read" /\ rel.todo = {} /\ host' = host /\ tags' = tags /\ up' = up
        /\ rel' = IF \A c \in Listed(rel.tree) : Matches(rel.tree, c, rel.read[c])
                  THEN [rel EXCEPT !.pc = "tag"] ELSE NoRelease
    BY <1>3 DEF VerifyHost, upVars
  <2>2. CASE \A c \in Listed(rel.tree) : Matches(rel.tree, c, rel.read[c])
    <3>1. rel.tree = host
      BY <2>1 DEF ReleaseInv, Releasing
    <3>2. \A c \in Listed(host) : Whole(host[c])
      BY <2>1, <2>2, <3>1 DEF ReleaseInv, Matches, Whole, Verifies, Listed
    <3>3. rel'.pc = "tag" /\ rel'.tree = rel.tree /\ rel'.tag = rel.tag
      BY <2>1, <2>2 DEF HostTyped, TypeOK, ReleaseState
    <3> QED
      BY <2>1, <3>2, <3>3 DEF ReleaseInv, TagsVerify, Releasing, Uploading, Listed
  <2>3. CASE ~\A c \in Listed(rel.tree) : Matches(rel.tree, c, rel.read[c])
    BY <2>1, <2>3 DEF ReleaseInv, TagsVerify, Releasing, NoRelease
  <2> QED
    BY <2>2, <2>3
<1>4. CASE CreateTag
  <2>1. /\ rel.pc = "tag" /\ host' = host /\ rel' = NoRelease
        /\ tags' = [tags EXCEPT ![rel.tag] = host]
    BY <1>4 DEF CreateTag
  <2>2. \A c \in Listed(host) : Whole(host[c])
    BY <2>1 DEF ReleaseInv
  <2>3. TagsVerify'
    BY <2>1, <2>2 DEF TagsVerify, HostTyped, TypeOK, Listed
  <2> QED
    BY <2>1, <2>3 DEF ReleaseInv, Releasing, NoRelease
<1>5. CASE ReleaseDies
  BY <1>5 DEF ReleaseDies, ReleaseInv, TagsVerify, Releasing, NoRelease
<1> QED
  BY <1>1, <1>2, <1>3, <1>4, <1>5 DEF ReleaseStep

LEMMA ReleaseInvStep ==
  ASSUME HashShown, ReleaseAlone
  PROVE  HostTyped /\ ReleaseInv /\ TagsVerify /\ [Next]_vars => ReleaseInv' /\ TagsVerify'
<1> SUFFICES ASSUME HostTyped, ReleaseInv, TagsVerify, [Next]_vars
             PROVE  ReleaseInv' /\ TagsVerify'
  OBVIOUS
<1>1. CASE UNCHANGED vars
  BY <1>1 DEF ReleaseInv, TagsVerify, Releasing, Uploading, Listed, vars, upVars
<1>2. ASSUME NEW u \in Uploaders, UploadStep(u) PROVE ReleaseInv' /\ TagsVerify'
  BY <1>2, UploadKeepsRelease DEF TagsVerify
<1>3. CASE ReleaseStep
  BY <1>3, ReleaseKeeps
<1>4. ASSUME NEW f \in Fetchers, FetchStep(f) PROVE ReleaseInv' /\ TagsVerify'
  <2>1. rel' = rel /\ tags' = tags /\ host' = host /\ up' = up
    BY <1>4 DEF FetchStep, Fetch, Get, VerifyScratch, ClearDest, Land, FetchDies, upVars
  <2> QED
    BY <2>1 DEF ReleaseInv, TagsVerify, Releasing, Uploading, Listed
<1> QED
  BY <1>1, <1>2, <1>3, <1>4 DEF Next

\* When no upload runs beside a release and the host shows hashes, every corpus
\* a tag names with its manifest is whole.
THEOREM TaggedCorporaVerify ==
  ASSUME HashShown, ReleaseAlone
  PROVE  Spec => []TagsVerify
<1>1. Init => ReleaseInv /\ TagsVerify
  BY ReleaseInit
<1>2. HostTyped /\ ReleaseInv /\ TagsVerify /\ [Next]_vars => ReleaseInv' /\ TagsVerify'
  BY ReleaseInvStep
<1> QED
  BY <1>1, <1>2, HostTypedAlways, PTL DEF Spec

(***************************************************************************)
(* Fetches.                                                                *)
(***************************************************************************)
\* What is about to land has been verified, and lands where nothing complete is.
LandInv ==
  /\ FetchedIsWhole
  /\ \A f \in Fetchers :
       /\ fetch[f].pc # "idle" => dest[fetch[f].key][Complete] = Absent
       /\ fetch[f].pc \in {"clear", "land"} => Whole(scratch[fetch[f].key])

LEMMA LandInit == Init => LandInv
BY HostAssumption DEF Init, LandInv, FetchedIsWhole, NoFetch

\* With one fetch at a time, each step keeps the invariant, and a complete corpus.
LEMMA FetchKeeps ==
  ASSUME \A f, g \in Fetchers : f = g, HostTyped, LandInv, NEW f \in Fetchers, FetchStep(f)
  PROVE  /\ LandInv'
         /\ \A c \in Corpora : dest[c][Complete] # Absent => dest'[c] = dest[c]
<1> DEFINE k == fetch[f].key
<1> USE HostFiles
<1>0. /\ \A g \in Fetchers : g = f
      /\ fetch \in [Fetchers -> FetchState] /\ dest \in Snapshot /\ scratch \in Snapshot
  BY DEF HostTyped, TypeOK
<1>k. fetch[f].pc # "idle" => k \in Corpora /\ dest[k][Complete] = Absent
  BY DEF LandInv, HostTyped, FetchInv
<1>1. CASE \E c \in Wanted, from \in Tags \cup {None} : Fetch(f, c, from)
  <2>1. PICK c \in Corpora, from \in Tags \cup {None} : Fetch(f, c, from)
    BY <1>1, HostAssumption
  <2>2. dest' = dest /\ fetch'[f].pc = "get" /\ fetch'[f].key = c /\ dest[c][Complete] = Absent
    BY <1>0, <2>1 DEF Fetch
  <2> QED
    BY <1>0, <2>2 DEF LandInv, FetchedIsWhole
<1>2. CASE \E x \in Files : Get(f, x)
  <2>1. PICK x \in Files : Get(f, x)
    BY <1>2
  <2>2. /\ dest' = dest /\ fetch[f].pc = "get"
        /\ \/ fetch' = [fetch EXCEPT ![f] = NoFetch]
           \/ fetch' = [fetch EXCEPT ![f].want = @ \ {x}]
    BY <2>1 DEF Get
  <2>3. fetch'[f].pc = "idle" \/ (fetch'[f].pc = "get" /\ fetch'[f].key = k)
    BY <1>0, <2>2 DEF NoFetch, FetchState
  <2> QED
    BY <1>0, <1>k, <2>2, <2>3 DEF LandInv, FetchedIsWhole
<1>3. CASE VerifyScratch(f)
  <2>1. /\ dest' = dest /\ fetch[f].pc = "get"
        /\ \/ fetch' = [fetch EXCEPT ![f] = NoFetch]
           \/ /\ fetch' = [fetch EXCEPT ![f].pc = "clear"] /\ scratch' = scratch
              /\ Whole(scratch[k])
    BY <1>3 DEF VerifyScratch
  <2>2. \/ fetch'[f].pc = "idle"
        \/ fetch'[f].pc = "clear" /\ fetch'[f].key = k /\ scratch' = scratch /\ Whole(scratch[k])
    BY <1>0, <2>1 DEF NoFetch, FetchState
  <2> QED
    BY <1>0, <1>k, <2>1, <2>2 DEF LandInv, FetchedIsWhole
<1>4. CASE ClearDest(f)
  <2>1. /\ fetch[f].pc = "clear" /\ scratch' = scratch
        /\ dest' = [dest EXCEPT ![k] = Nothing]
        /\ fetch' = [fetch EXCEPT ![f].pc = "land"]
    BY <1>4 DEF ClearDest
  <2>2. fetch'[f].pc = "land" /\ fetch'[f].key = k /\ Whole(scratch[k])
    BY <1>0, <2>1 DEF FetchState, LandInv
  <2>3. k \in Corpora /\ \A c \in Corpora : dest'[c] = IF c = k THEN Nothing ELSE dest[c]
    BY <1>0, <1>k, <2>1 DEF Snapshot
  <2>4. Nothing[Complete] = Absent
    BY DEF Nothing
  <2> QED
    BY <1>0, <1>k, <2>1, <2>2, <2>3, <2>4 DEF LandInv, FetchedIsWhole
<1>5. CASE Land(f)
  <2>1. /\ fetch[f].pc = "land"
        /\ dest' = [dest EXCEPT ![k] = IF @ = Nothing THEN scratch[k] ELSE @]
        /\ fetch'[f].pc = "idle"
    BY <1>0, <1>5 DEF Land, NoFetch
  <2>2. Whole(scratch[k])
    BY <2>1 DEF LandInv
  <2>3. /\ k \in Corpora
        /\ \A c \in Corpora : c # k => dest'[c] = dest[c]
        /\ dest'[k] = scratch[k] \/ dest'[k] = dest[k]
    BY <1>0, <1>k, <2>1 DEF Snapshot
  <2> QED
    BY <1>0, <1>k, <2>1, <2>2, <2>3 DEF LandInv, FetchedIsWhole
<1>6. CASE FetchDies(f)
  <2>1. dest' = dest /\ scratch' = scratch /\ fetch'[f].pc = "idle"
    BY <1>0, <1>6 DEF FetchDies, NoFetch
  <2> QED
    BY <1>0, <2>1 DEF LandInv, FetchedIsWhole
<1> QED
  BY <1>1, <1>2, <1>3, <1>4, <1>5, <1>6 DEF FetchStep

LEMMA LandStep ==
  ASSUME \A f, g \in Fetchers : f = g
  PROVE  HostTyped /\ LandInv /\ [Next]_vars =>
           LandInv' /\ \A c \in Corpora : dest[c][Complete] # Absent => dest'[c] = dest[c]
<1> SUFFICES ASSUME HostTyped, LandInv, [Next]_vars
             PROVE  LandInv' /\ \A c \in Corpora : dest[c][Complete] # Absent => dest'[c] = dest[c]
  OBVIOUS
<1>1. ASSUME dest' = dest, fetch' = fetch, scratch' = scratch
      PROVE  LandInv' /\ \A c \in Corpora : dest[c][Complete] # Absent => dest'[c] = dest[c]
  BY <1>1 DEF LandInv, FetchedIsWhole
<1>2. CASE UNCHANGED vars
  BY <1>1, <1>2 DEF vars, fetchVars
<1>3. ASSUME NEW u \in Uploaders, UploadStep(u)
      PROVE  dest' = dest /\ fetch' = fetch /\ scratch' = scratch
  BY <1>3 DEF UploadStep, Regenerate, Upload, StageDir, CheckRemote, Stage, Send, PostCheck, UploadDies,
     fetchVars
<1>4. ASSUME ReleaseStep PROVE dest' = dest /\ fetch' = fetch /\ scratch' = scratch
  BY <1>4 DEF ReleaseStep, Release, ReadManifest, VerifyHost, CreateTag, ReleaseDies, fetchVars
<1>5. ASSUME NEW f \in Fetchers, FetchStep(f)
      PROVE  LandInv' /\ \A c \in Corpora : dest[c][Complete] # Absent => dest'[c] = dest[c]
  BY <1>5, FetchKeeps
<1> QED
  BY <1>1, <1>2, <1>3, <1>4, <1>5 DEF Next

\* With one fetch at a time, what is fetched is whole, whatever uploads and
\* releases do meanwhile.
THEOREM FetchedCorporaAreWhole ==
  ASSUME \A f, g \in Fetchers : f = g
  PROVE  Spec => []FetchedIsWhole
<1>1. HostTyped /\ LandInv /\ [Next]_vars => LandInv'
  BY LandStep
<1>2. LandInv => FetchedIsWhole
  BY DEF LandInv
<1> QED
  BY <1>1, <1>2, LandInit, HostTypedAlways, PTL DEF Spec

\* With one fetch at a time, a fetch changes nothing of a complete corpus.
THEOREM CompleteCorporaStay ==
  ASSUME \A f, g \in Fetchers : f = g
  PROVE  Spec => CompleteStays
<1>1. HostTyped /\ LandInv /\ [Next]_vars => LandInv'
  BY LandStep
<1>2. HostTyped /\ LandInv /\ [Next]_vars
        => [\A c \in Corpora : dest[c][Complete] # Absent => dest'[c] = dest[c]]_vars
  BY LandStep
<1> QED
  BY <1>1, <1>2, LandInit, HostTypedAlways, PTL DEF Spec, CompleteStays
=============================================================================
