----------------------------- MODULE DatasetHost -----------------------------
(***************************************************************************)
(* Corpora on the dataset host: `publish upload`, `publish release` and    *)
(* `publish fetch`.                                                        *)
(*                                                                         *)
(* A corpus is a function from its files to what each holds: the version   *)
(* of the corpus it was generated with, or Absent.  Uploaders are machines *)
(* that each run one upload command at a time from their own corpora and   *)
(* stage; fetchers share an output root.                                   *)
(*                                                                         *)
(* The host (a branch, tags, a commit at a time) and the host library's    *)
(* upload_large_folder and snapshot_download are external: they are known  *)
(* from the calls publish.py makes and what it says of them.               *)
(***************************************************************************)
EXTENDS Integers, FiniteSets

CONSTANTS
  Corpora,       \* corpus keys
  Data,          \* files a manifest lists
  Manifest,      \* manifest.json
  Complete,      \* the COMPLETE marker
  Rewritten,     \* the files a command writes in place
  Versions,
  Absent,        \* what a file that is not there holds
  Uploaders, Owns,        \* Owns[u]: the corpora uploader u has
  Fetchers, Wanted,       \* the corpora fetchers ask for
  Leftovers,     \* what unfinished commands may have left in the fetchers' root
  Tags, None,
  HashShown,     \* whether the host shows the hashes of files
  ReleaseAlone,  \* whether the operator lets no upload run beside a release
  AllowReplace,  \* whether uploads may pass --replace
  ReplaceAfresh, \* whether the operator passes it only where the stage knows nothing of
                 \* what is replaced: from another machine, or with another --stage-dir
  AllowKeep,     \* whether they may pass --keep-stage
  MaxRegens,     \* bound: corpora generated anew, and uploads that replace
  MaxFaults      \* bound: commands that die

Files == Data \cup {Manifest, Complete}
Corpus == [Files -> Versions \cup {Absent}]
Nothing == [f \in Files |-> Absent]
All(v) == [f \in Files |-> v]
Snapshot == [Corpora -> Corpus]   \* what the host holds

ASSUME HostAssumption ==
  /\ Manifest \notin Data /\ Complete \notin Data /\ Manifest # Complete
  /\ Rewritten \subseteq Files
  /\ Absent \notin Versions
  /\ Owns \in [Uploaders -> SUBSET Corpora] /\ Wanted \subseteq Corpora
  /\ None \notin Tags \cup Corpora \cup Snapshot
  /\ Leftovers \subseteq {x \in Corpus : x[Complete] = Absent}
  /\ {HashShown, ReleaseAlone, AllowReplace, ReplaceAfresh, AllowKeep} \subseteq BOOLEAN
  /\ MaxRegens \in Nat /\ MaxFaults \in Nat

VARIABLES
  local,    \* local[u][c]: the version of c in u's corpus root
  stage,    \* stage[u][c]: c in u's staging tree
  sent,     \* sent[u]: what upload_large_folder knows, in the stage, to have committed
  up,       \* up[u]: u's upload command
  host,     \* host[c]: c on the default branch
  tags,     \* tags[t]: what the host held when it was tagged, or None
  rel,      \* the release command
  fetch,    \* fetch[f]: f's fetch command
  scratch,  \* scratch[c]: the scratch directory for c
  dest,     \* dest[c]: c in the fetchers' root
  regens, faults

upVars == <<local, stage, sent, up>>
fetchVars == <<fetch, scratch, dest>>
vars == <<upVars, host, tags, rel, fetchVars, regens, faults>>


\* verify_manifest: every file the manifest lists is as it says.
Verifies(x) == x[Manifest] # Absent /\ \A f \in Data : x[f] = x[Manifest]
Whole(x) == x[Complete] # Absent /\ Verifies(x)

Idle == [pc |-> "idle", entries |-> {}, replace |-> FALSE, keep |-> FALSE, todo |-> {}]
NoRelease == [pc |-> "idle", tag |-> None, tree |-> [c \in Corpora |-> Nothing],
              read |-> [c \in Corpora |-> Absent], todo |-> {}]
NoFetch == [pc |-> "idle", key |-> None, from |-> None, want |-> {}]

Uploading(u) == up[u].pc \in {"check", "send"}
Releasing == rel.pc # "idle"

Init ==
  /\ local \in {l \in [Uploaders -> [Corpora -> Versions \cup {Absent}]] :
                  \A u \in Uploaders, c \in Corpora : (l[u][c] # Absent) <=> (c \in Owns[u])}
  /\ stage = [u \in Uploaders |-> [c \in Corpora |-> Nothing]]
  /\ sent = [u \in Uploaders |-> {}]
  /\ up = [u \in Uploaders |-> Idle]
  /\ host = [c \in Corpora |-> Nothing]
  /\ tags = [t \in Tags |-> None]
  /\ rel = NoRelease
  /\ fetch = [f \in Fetchers |-> NoFetch]
  /\ scratch = [c \in Corpora |-> Nothing]
  /\ dest \in [Corpora -> Leftovers]
  /\ regens = 0 /\ faults = 0

(***************************************************************************)
(* Uploads.                                                                *)
(***************************************************************************)
\* A corpus is generated anew.  Its staged files are hard links, so that what a
\* command writes in place changes in the stage too.
Regenerate(u, c, v) ==
  /\ ~Uploading(u) /\ regens < MaxRegens
  /\ c \in Owns[u] /\ v # local[u][c]
  /\ local' = [local EXCEPT ![u][c] = v]
  /\ stage' = [stage EXCEPT ![u][c] =
       [f \in Files |-> IF f \in Rewritten /\ @[f] # Absent THEN v ELSE @[f]]]
  /\ regens' = regens + 1
  /\ UNCHANGED <<sent, up, host, tags, rel, fetchVars, faults>>

\* What the stage says was sent of these corpora.
Remembers(u, entries) == \E x \in sent[u] : x[1] \in entries

\* With another --stage-dir nothing is staged and nothing is remembered; the earlier
\* stage is left for good.
StageDir(u, afresh) ==
  IF afresh
  THEN /\ stage' = [stage EXCEPT ![u] = [c \in Corpora |-> Nothing]]
       /\ sent' = [sent EXCEPT ![u] = {}]
  ELSE UNCHANGED <<stage, sent>>

Upload(u, entries, replace, keep, afresh) ==
  /\ ~Uploading(u) /\ (ReleaseAlone => ~Releasing)
  /\ entries # {} /\ entries \subseteq Owns[u]
  /\ replace => AllowReplace /\ (ReplaceAfresh => afresh \/ ~Remembers(u, entries))
  /\ keep => AllowKeep
  /\ StageDir(u, afresh)
  /\ up' = [up EXCEPT ![u] = [pc |-> "check", entries |-> entries,
                              replace |-> replace, keep |-> keep, todo |-> entries]]
  /\ IF replace THEN regens < MaxRegens /\ regens' = regens + 1 ELSE UNCHANGED regens
  /\ UNCHANGED <<local, host, tags, rel, fetchVars, faults>>

OnHost(c) == \E f \in Files : host[c][f] # Absent

CheckRemote(u, c) ==
  /\ up[u].pc = "check" /\ c \in up[u].todo
  /\ IF OnHost(c) /\ ~up[u].replace
     THEN up' = [up EXCEPT ![u].pc = "refused"] /\ UNCHANGED host
     ELSE /\ up' = [up EXCEPT ![u].todo = @ \ {c}]
          /\ host' = [host EXCEPT ![c] = Nothing]
  /\ UNCHANGED <<local, stage, sent, tags, rel, fetchVars, regens, faults>>

\* Mutant: what is staged already is not linked again.
Stage_Keep(u) ==
  /\ up[u].pc = "check" /\ up[u].todo = {}
  /\ stage' = [stage EXCEPT ![u] =
       [c \in Corpora |-> IF c \in up[u].entries
                          THEN [f \in Files |-> IF @[c][f] = Absent THEN local[u][c] ELSE @[c][f]]
                          ELSE @[c]]]
  /\ up' = [up EXCEPT ![u].pc = "send"]
  /\ UNCHANGED <<local, sent, host, tags, rel, fetchVars, regens, faults>>

\* A resumed upload links again from the corpus.
Stage(u) ==
  /\ up[u].pc = "check" /\ up[u].todo = {}
  /\ stage' = [stage EXCEPT ![u] =
       [c \in Corpora |-> IF c \in up[u].entries THEN All(local[u][c]) ELSE @[c]]]
  /\ up' = [up EXCEPT ![u].pc = "send"]
  /\ UNCHANGED <<local, sent, host, tags, rel, fetchVars, regens, faults>>

\* Mutant: files that are not staged are sent too.
ToSend_Unstaged(u) ==
  {x \in Corpora \X Files : <<x[1], x[2], stage[u][x[1]][x[2]]>> \notin sent[u]}

\* upload_large_folder commits what is staged, file by file in any order,
\* except for what it has committed before.
ToSend(u) ==
  {x \in Corpora \X Files :
     stage[u][x[1]][x[2]] # Absent /\ <<x[1], x[2], stage[u][x[1]][x[2]]>> \notin sent[u]}

Send(u, c, f) ==
  /\ up[u].pc = "send" /\ <<c, f>> \in ToSend(u)
  /\ host' = [host EXCEPT ![c][f] = stage[u][c][f]]
  /\ sent' = [sent EXCEPT ![u] = @ \cup {<<c, f, stage[u][c][f]>>}]
  /\ UNCHANGED <<local, stage, up, tags, rel, fetchVars, regens, faults>>

\* The check after the upload looks for the manifests; a failed upload keeps
\* its stage.
PostCheck(u) ==
  /\ up[u].pc = "send" /\ ToSend(u) = {}
  /\ IF \E c \in up[u].entries : host[c][Manifest] = Absent
     THEN up' = [up EXCEPT ![u].pc = "failed"] /\ UNCHANGED <<stage, sent>>
     ELSE /\ up' = [up EXCEPT ![u].pc = "ok"]
          /\ IF up[u].keep
             THEN UNCHANGED <<stage, sent>>
             ELSE /\ stage' = [stage EXCEPT ![u] = [c \in Corpora |-> Nothing]]
                  /\ sent' = [sent EXCEPT ![u] = {}]
  /\ UNCHANGED <<local, host, tags, rel, fetchVars, regens, faults>>

\* The host refuses further calls, or the job is killed.
UploadDies(u) ==
  /\ Uploading(u) /\ faults < MaxFaults
  /\ up' = [up EXCEPT ![u].pc = "failed"]
  /\ faults' = faults + 1
  /\ UNCHANGED <<local, stage, sent, host, tags, rel, fetchVars, regens>>

(***************************************************************************)
(* Releases.                                                               *)
(***************************************************************************)
Listed(tree) == {c \in Corpora : tree[c][Manifest] # Absent}

Release(t) ==
  /\ ~Releasing /\ (ReleaseAlone => \A u \in Uploaders : ~Uploading(u))
  /\ tags[t] = None /\ Listed(host) # {}
  /\ rel' = [pc |-> "read", tag |-> t, tree |-> host,
             read |-> [c \in Corpora |-> Absent], todo |-> Listed(host)]
  /\ UNCHANGED <<upVars, host, tags, fetchVars, regens, faults>>

\* The manifests are downloaded one by one.
ReadManifest(c) ==
  /\ rel.pc = "read" /\ c \in rel.todo
  /\ rel' = IF host[c][Manifest] = Absent
            THEN NoRelease
            ELSE [rel EXCEPT !.read[c] = host[c][Manifest], !.todo = @ \ {c}]
  /\ UNCHANGED <<upVars, host, tags, fetchVars, regens, faults>>

\* Mutant: the marker is not looked for.
Matches_NoMarker(tree, c, v) ==
  \A f \in Data : tree[c][f] # Absent /\ (HashShown => tree[c][f] = v)

\* Versions of a file may be of the same size: without hashes a file is
\* compared by size alone.
Matches(tree, c, v) ==
  /\ tree[c][Complete] # Absent
  /\ \A f \in Data : tree[c][f] # Absent /\ (HashShown => tree[c][f] = v)

VerifyHost ==
  /\ rel.pc = "read" /\ rel.todo = {}
  /\ rel' = IF \A c \in Listed(rel.tree) : Matches(rel.tree, c, rel.read[c])
            THEN [rel EXCEPT !.pc = "tag"]
            ELSE NoRelease
  /\ UNCHANGED <<upVars, host, tags, fetchVars, regens, faults>>

CreateTag ==
  /\ rel.pc = "tag"
  /\ tags' = [tags EXCEPT ![rel.tag] = host]
  /\ rel' = NoRelease
  /\ UNCHANGED <<upVars, host, fetchVars, regens, faults>>

ReleaseDies ==
  /\ Releasing /\ faults < MaxFaults
  /\ rel' = NoRelease
  /\ faults' = faults + 1
  /\ UNCHANGED <<upVars, host, tags, fetchVars, regens>>

(***************************************************************************)
(* Fetches.                                                                *)
(***************************************************************************)
Source(from) == IF from = None THEN host ELSE tags[from]

Fetch(f, c, from) ==
  /\ fetch[f].pc = "idle" /\ (from # None => tags[from] # None)
  /\ dest[c][Complete] = Absent
  /\ scratch' = [scratch EXCEPT ![c] = Nothing]
  /\ fetch' = [fetch EXCEPT ![f] =
       [pc |-> "get", key |-> c, from |-> from,
        want |-> {x \in Files : Source(from)[c][x] # Absent}]]
  /\ UNCHANGED <<upVars, host, tags, rel, dest, regens, faults>>

\* snapshot_download, file by file; a branch may change meanwhile.
Get(f, x) ==
  LET c == fetch[f].key
      y == Source(fetch[f].from)[c][x]
  IN /\ fetch[f].pc = "get" /\ x \in fetch[f].want
     /\ IF y = Absent
        THEN fetch' = [fetch EXCEPT ![f] = NoFetch] /\ UNCHANGED scratch
        ELSE /\ scratch' = [scratch EXCEPT ![c][x] = y]
             /\ fetch' = [fetch EXCEPT ![f].want = @ \ {x}]
     /\ UNCHANGED <<upVars, host, tags, rel, dest, regens, faults>>

\* Mutant: the marker and the manifest are looked for, the files are not.
VerifyScratch_MarkerOnly(f) ==
  LET c == fetch[f].key
  IN /\ fetch[f].pc = "get" /\ fetch[f].want = {}
     /\ IF scratch[c][Complete] # Absent /\ scratch[c][Manifest] # Absent
        THEN fetch' = [fetch EXCEPT ![f].pc = "clear"] /\ UNCHANGED scratch
        ELSE /\ fetch' = [fetch EXCEPT ![f] = NoFetch]
             /\ scratch' = [scratch EXCEPT ![c] = Nothing]
     /\ UNCHANGED <<upVars, host, tags, rel, dest, regens, faults>>

\* What does not verify is removed.
VerifyScratch(f) ==
  LET c == fetch[f].key
  IN /\ fetch[f].pc = "get" /\ fetch[f].want = {}
     /\ IF Whole(scratch[c])
        THEN fetch' = [fetch EXCEPT ![f].pc = "clear"] /\ UNCHANGED scratch
        ELSE /\ fetch' = [fetch EXCEPT ![f] = NoFetch]
             /\ scratch' = [scratch EXCEPT ![c] = Nothing]
     /\ UNCHANGED <<upVars, host, tags, rel, dest, regens, faults>>

\* An incomplete earlier attempt is removed.
ClearDest(f) ==
  /\ fetch[f].pc = "clear"
  /\ dest' = [dest EXCEPT ![fetch[f].key] = Nothing]
  /\ fetch' = [fetch EXCEPT ![f].pc = "land"]
  /\ UNCHANGED <<upVars, host, tags, rel, scratch, regens, faults>>

\* When another fetch has just landed there, the move puts the corpus inside it:
\* nothing of what is listed changes.
Land(f) ==
  LET c == fetch[f].key
  IN /\ fetch[f].pc = "land"
     /\ dest' = [dest EXCEPT ![c] = IF @ = Nothing THEN scratch[c] ELSE @]
     /\ scratch' = [scratch EXCEPT ![c] = Nothing]
     /\ fetch' = [fetch EXCEPT ![f] = NoFetch]
     /\ UNCHANGED <<upVars, host, tags, rel, regens, faults>>

\* Killed: the scratch directory stays.
FetchDies(f) ==
  /\ fetch[f].pc # "idle" /\ faults < MaxFaults
  /\ fetch' = [fetch EXCEPT ![f] = NoFetch]
  /\ faults' = faults + 1
  /\ UNCHANGED <<upVars, host, tags, rel, scratch, dest, regens>>

UploadStep(u) ==
  \/ \E c \in Corpora, v \in Versions : Regenerate(u, c, v)
  \/ \E entries \in SUBSET Corpora, replace, keep, afresh \in BOOLEAN :
       Upload(u, entries, replace, keep, afresh)
  \/ \E c \in Corpora : CheckRemote(u, c)
  \/ Stage(u)
  \/ \E c \in Corpora, f \in Files : Send(u, c, f)
  \/ PostCheck(u)
  \/ UploadDies(u)

ReleaseStep ==
  \/ \E t \in Tags : Release(t)
  \/ \E c \in Corpora : ReadManifest(c)
  \/ VerifyHost
  \/ CreateTag
  \/ ReleaseDies

FetchStep(f) ==
  \/ \E c \in Wanted, from \in Tags \cup {None} : Fetch(f, c, from)
  \/ \E x \in Files : Get(f, x)
  \/ VerifyScratch(f)
  \/ ClearDest(f)
  \/ Land(f)
  \/ FetchDies(f)

Next == (\E u \in Uploaders : UploadStep(u)) \/ ReleaseStep \/ \E f \in Fetchers : FetchStep(f)

Spec == Init /\ [][Next]_vars

(***************************************************************************)
(* The properties.                                                         *)
(***************************************************************************)
UploadState ==
  [pc : {"idle", "check", "send", "ok", "refused", "failed"}, entries : SUBSET Corpora,
   replace : BOOLEAN, keep : BOOLEAN, todo : SUBSET Corpora]
ReleaseState ==
  [pc : {"idle", "read", "tag"}, tag : Tags \cup {None}, tree : Snapshot,
   read : [Corpora -> Versions \cup {Absent}], todo : SUBSET Corpora]
FetchState ==
  [pc : {"idle", "get", "clear", "land"}, key : Corpora \cup {None},
   from : Tags \cup {None}, want : SUBSET Files]

TypeOK ==
  /\ local \in [Uploaders -> [Corpora -> Versions \cup {Absent}]]
  /\ stage \in [Uploaders -> Snapshot]
  /\ sent \in [Uploaders -> SUBSET (Corpora \X Files \X Versions)]
  /\ up \in [Uploaders -> UploadState]
  /\ host \in Snapshot
  /\ tags \in [Tags -> Snapshot \cup {None}]
  /\ rel \in ReleaseState
  /\ fetch \in [Fetchers -> FetchState]
  /\ scratch \in Snapshot /\ dest \in Snapshot
  /\ regens \in 0 .. MaxRegens /\ faults \in 0 .. MaxFaults

\* An upload that ended well has put its corpora whole on the host, although it
\* looks for their manifests alone.
OkMeansServed ==
  \A u \in Uploaders : up[u].pc = "ok" => \A c \in up[u].entries : Whole(host[c])

\* "Refuses a path that already exists": an upload is refused only where a whole
\* corpus is; a failed one is resumed by running it again.
RefusedOnlyWhenServed ==
  \A u \in Uploaders : up[u].pc = "refused" => \E c \in up[u].entries : Whole(host[c])

\* What a tag names with a manifest is whole and of one version.
TagsVerify ==
  \A t \in Tags : tags[t] # None => \A c \in Listed(tags[t]) : Whole(tags[t][c])

\* A corpus that was fetched is whole, whatever happened to the branch meanwhile.
FetchedIsWhole == \A c \in Corpora : dest[c][Complete] # Absent => Whole(dest[c])

\* A fetch changes nothing of a complete corpus.
CompleteStays == [][\A c \in Corpora : dest[c][Complete] # Absent => dest'[c] = dest[c]]_vars

=============================================================================
