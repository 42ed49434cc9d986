----------------------------- MODULE Publisher ------------------------------
(***************************************************************************)
(* Publication of a container's environments to a static tree:             *)
(* FilesystemCDN.publish_environment (distribution/publisher.py) over      *)
(* build_published_config (distribution/public_config.py).                 *)
(*                                                                         *)
(* A publisher reads the control plane and the tree before it takes the    *)
(* publish lock, and decides on what it read once it has it.  Under the    *)
(* lock it replaces one file after another, each by an atomic rename; an   *)
(* error or the death of the process releases the lock (a flock) and       *)
(* leaves the files written so far.  A document is its revision, its       *)
(* environment and its publication time; a checksum stands for the         *)
(* document it was computed from.  Nobody but a publisher writes into the  *)
(* tree, so an existing artefact parses and verifies.                      *)
(***************************************************************************)
EXTENDS Naturals, FiniteSets

CONSTANTS
  Publishers,     \* processes that publish
  Environments,   \* the container's environments
  Slugs,          \* environment_slug's results
  Slug,           \* [Environments -> Slugs]: environment_slug
  Revisions,      \* config_version of every valid revision
  Stamps,         \* published_at, also everything else an operator chooses per publication
  Assets,         \* contents the SDK file of one sdk_version may have
  Absent,         \* no file, no revision
  Nobody,         \* the publish lock is free
  MaxActivations, \* bound: activations in the control plane
  MaxReleases,    \* bound: rebuilds of the SDK file under the same version
  MaxStops        \* bound: publishers that stop half-way

Document == [rev : Revisions, env : Environments, at : Stamps]

\* latest.json: where it points, with the checksums of the file and of the document.
Pointer == [rev : Revisions, env : Environments, file : Document, integrity : Document]

\* One line of a manifest's revision history.
Entry == [rev : Revisions, file : Document, integrity : Document]

Manifest == [current : Revisions, env : Environments, revisions : SUBSET Entry]

ASSUME PublisherAssumption ==
  /\ Slug \in [Environments -> Slugs]
  /\ Absent \notin Revisions \cup Assets \cup Document \cup Pointer
  /\ Absent \notin Manifest
  /\ Nobody \notin Publishers
  /\ MaxActivations \in Nat /\ MaxReleases \in Nat /\ MaxStops \in Nat

VARIABLES
  current,    \* the control plane: current_config_version per environment
  asset,      \* the SDK file in the package
  config,     \* revisions/<config_version>/config.json
  configSum,  \* its .sha256
  sdk,        \* sdk/web/<version>/pytagmanager.js
  sdkSum,     \* its .sha256
  latest,     \* environments/<slug>/latest.json
  latestSum,  \* its .sha256
  manifest,   \* environments/<slug>/manifest.json
  headers,    \* _headers.json: the revisions and slugs it has an entry for
  index,      \* index.json: the revision listed per slug
  holder,     \* the publish lock
  pub,        \* what every publisher has read and where it is
  activations, releases, stops,
  \* Read by properties only.
  torn,       \* slugs whose last publication stopped between its pointer and its index
  acked       \* [Slugs -> revisions whose publication returned a result]

tree == <<config, configSum, sdk, sdkSum, latest, latestSum, manifest, headers, index>>
bounds == <<activations, releases, stops>>
ghosts == <<torn, acked>>
vars == <<current, asset, tree, holder, pub, bounds, ghosts>>

\* The order in which publish_environment gets to its files.
Locked == {"config", "configSum", "sdk", "sdkSum", "latest", "latestSum", "manifest",
           "headers", "index"}

Stage == {"idle", "built", "checked", "ready"} \cup Locked

\* A publisher's local variables; those not assigned yet are Absent.
Publisher ==
  [stage : Stage, env : Environments \cup {Absent}, doc : Document \cup {Absent},
   bytes : Document \cup {Absent}, sdk : Assets \cup {Absent}]

Idle == [stage |-> "idle", env |-> Absent, doc |-> Absent, bytes |-> Absent, sdk |-> Absent]

Init ==
  /\ current = [e \in Environments |-> Absent]
  /\ asset \in Assets
  /\ config = [r \in Revisions |-> Absent]
  /\ configSum = [r \in Revisions |-> Absent]
  /\ sdk = Absent /\ sdkSum = Absent
  /\ latest = [s \in Slugs |-> Absent]
  /\ latestSum = [s \in Slugs |-> Absent]
  /\ manifest = [s \in Slugs |-> Absent]
  /\ headers = {}
  /\ index = [s \in Slugs |-> Absent]
  /\ holder = Nobody
  /\ pub = [p \in Publishers |-> Idle]
  /\ activations = 0 /\ releases = 0 /\ stops = 0
  /\ torn = {} /\ acked = [s \in Slugs |-> {}]

-----------------------------------------------------------------------------
(* The control plane and the package, as a publisher sees them.            *)

\* An activation or a rollback (ControlPlane) makes r the environment's revision.
Activate(e, r) ==
  /\ activations < MaxActivations
  /\ current[e] # r
  /\ current' = [current EXCEPT ![e] = r]
  /\ activations' = activations + 1
  /\ UNCHANGED <<asset, tree, holder, pub, releases, stops, ghosts>>

\* The package is rebuilt and the SDK file differs although sdk_version does not.
Rebuild(a) ==
  /\ releases < MaxReleases
  /\ asset # a
  /\ asset' = a
  /\ releases' = releases + 1
  /\ UNCHANGED <<current, tree, holder, pub, activations, stops, ghosts>>

-----------------------------------------------------------------------------
(* Before the lock.                                                        *)

To(p, stage) == [pub EXCEPT ![p].stage = stage]

\* build_published_config: the environment's revision is read, found valid
\* and wrapped in a document.  An environment without one is refused.
BuildPublishedConfig(p, e) ==
  /\ pub[p].stage = "idle"
  /\ current[e] # Absent
  /\ \E at \in Stamps :
       pub' = [pub EXCEPT ![p] =
                 [stage |-> "built", env |-> e, bytes |-> Absent, sdk |-> Absent,
                  doc |-> [rev |-> current[e], env |-> e, at |-> at]]]
  /\ UNCHANGED <<current, asset, tree, holder, bounds, ghosts>>

\* If the revision has an artefact already, its document takes the place of
\* the one just built: its environment and publication time too.
ReuseExisting(p) ==
  /\ pub[p].stage = "built"
  /\ LET existing == config[pub[p].doc.rev] IN
       pub' = [pub EXCEPT ![p].stage = "checked",
                          ![p].doc = IF existing = Absent THEN @ ELSE existing]
  /\ UNCHANGED <<current, asset, tree, holder, bounds, ghosts>>

\* The bytes to write are read from the tree by a second look at the same
\* file, or made from the document; the SDK file is read as well.
ReadBytes(p) ==
  /\ pub[p].stage = "checked"
  /\ LET existing == config[pub[p].doc.rev] IN
       pub' = [pub EXCEPT ![p].stage = "ready",
                          ![p].bytes = IF existing = Absent THEN pub[p].doc ELSE existing,
                          ![p].sdk = asset]
  /\ UNCHANGED <<current, asset, tree, holder, bounds, ghosts>>

AcquireLock(p) ==
  /\ pub[p].stage = "ready"
  /\ holder = Nobody
  /\ holder' = p
  /\ pub' = To(p, "config")
  /\ UNCHANGED <<current, asset, tree, bounds, ghosts>>

-----------------------------------------------------------------------------
(* Under the lock.                                                         *)

Release(p) == holder' = IF holder = p THEN Nobody ELSE holder

\* _write_immutable: a file that is there must have the same contents, or
\* ConflictError ends the publication.
Writable(file, data) == file \in {Absent, data}

\* Mutant of WriteConfig: an existing file is replaced.
WriteConfigAnyway(p) ==
  /\ pub[p].stage = "config"
  /\ config' = [config EXCEPT ![pub[p].doc.rev] = pub[p].bytes]
  /\ pub' = To(p, "configSum")
  /\ UNCHANGED <<current, asset, configSum, sdk, sdkSum, latest, latestSum, manifest,
                 headers, index, holder, bounds, ghosts>>

WriteConfig(p) ==
  /\ pub[p].stage = "config"
  /\ Writable(config[pub[p].doc.rev], pub[p].bytes)
  /\ config' = [config EXCEPT ![pub[p].doc.rev] = pub[p].bytes]
  /\ pub' = To(p, "configSum")
  /\ UNCHANGED <<current, asset, configSum, sdk, sdkSum, latest, latestSum, manifest,
                 headers, index, holder, bounds, ghosts>>

WriteConfigSum(p) ==
  /\ pub[p].stage = "configSum"
  /\ Writable(configSum[pub[p].doc.rev], pub[p].bytes)
  /\ configSum' = [configSum EXCEPT ![pub[p].doc.rev] = pub[p].bytes]
  /\ pub' = To(p, "sdk")
  /\ UNCHANGED <<current, asset, config, sdk, sdkSum, latest, latestSum, manifest,
                 headers, index, holder, bounds, ghosts>>

WriteSdk(p) ==
  /\ pub[p].stage = "sdk"
  /\ Writable(sdk, pub[p].sdk)
  /\ sdk' = pub[p].sdk
  /\ pub' = To(p, "sdkSum")
  /\ UNCHANGED <<current, asset, config, configSum, sdkSum, latest, latestSum, manifest,
                 headers, index, holder, bounds, ghosts>>

WriteSdkSum(p) ==
  /\ pub[p].stage = "sdkSum"
  /\ Writable(sdkSum, pub[p].sdk)
  /\ sdkSum' = pub[p].sdk
  /\ pub' = To(p, "latest")
  /\ UNCHANGED <<current, asset, config, configSum, sdk, latest, latestSum, manifest,
                 headers, index, holder, bounds, ghosts>>

\* ConflictError: the file is there with other contents.  A checksum file
\* follows its file, so it is the configuration or the SDK that differs.
Conflict(p) ==
  /\ \/ /\ pub[p].stage = "config"
        /\ ~ Writable(config[pub[p].doc.rev], pub[p].bytes)
     \/ /\ pub[p].stage = "sdk"
        /\ ~ Writable(sdk, pub[p].sdk)
  /\ pub' = [pub EXCEPT ![p] = Idle]
  /\ Release(p)
  /\ UNCHANGED <<current, asset, tree, bounds, ghosts>>

\* The pointer goes to the slug of the environment that was asked for; what it
\* says of the environment comes from the document in hand.
WriteLatest(p) ==
  /\ pub[p].stage = "latest"
  /\ latest' = [latest EXCEPT ![Slug[pub[p].env]] =
                  [rev |-> pub[p].doc.rev, env |-> pub[p].doc.env,
                   file |-> pub[p].bytes, integrity |-> pub[p].doc]]
  /\ pub' = To(p, "latestSum")
  /\ UNCHANGED <<current, asset, config, configSum, sdk, sdkSum, latestSum, manifest,
                 headers, index, holder, bounds, ghosts>>

WriteLatestSum(p) ==
  /\ pub[p].stage = "latestSum"
  /\ LET s == Slug[pub[p].env] IN latestSum' = [latestSum EXCEPT ![s] = latest[s]]
  /\ pub' = To(p, "manifest")
  /\ UNCHANGED <<current, asset, config, configSum, sdk, sdkSum, latest, manifest,
                 headers, index, holder, bounds, ghosts>>

\* The revision history of a manifest, empty where there is none.
History(m) == IF m = Absent THEN {} ELSE m.revisions

\* Mutant of BuildManifest: the history starts anew.
BuildManifestAfresh(m, doc, bytes) ==
  [current |-> doc.rev, env |-> doc.env,
   revisions |-> {[rev |-> doc.rev, file |-> bytes, integrity |-> doc]}]

\* _build_manifest: the entry of this revision replaces an earlier one of the
\* same revision; the others stay.
BuildManifest(m, doc, bytes) ==
  [current |-> doc.rev, env |-> doc.env,
   revisions |-> {h \in History(m) : h.rev # doc.rev}
                   \cup {[rev |-> doc.rev, file |-> bytes, integrity |-> doc]}]

WriteManifest(p) ==
  /\ pub[p].stage = "manifest"
  /\ manifest' = [manifest EXCEPT ![Slug[pub[p].env]] =
                    BuildManifest(@, pub[p].doc, pub[p].bytes)]
  /\ pub' = To(p, "headers")
  /\ UNCHANGED <<current, asset, config, configSum, sdk, sdkSum, latest, latestSum,
                 headers, index, holder, bounds, ghosts>>

\* Mutant of UpdateHeaders: the immutable artefact gets no entry.
UpdateHeadersOfPointer(p) ==
  /\ pub[p].stage = "headers"
  /\ headers' = headers \cup {<<"slug", Slug[pub[p].env]>>}
  /\ pub' = To(p, "index")
  /\ UNCHANGED <<current, asset, config, configSum, sdk, sdkSum, latest, latestSum,
                 manifest, index, holder, bounds, ghosts>>

\* _update_headers: entries are added to what the file has.
UpdateHeaders(p) ==
  /\ pub[p].stage = "headers"
  /\ headers' = headers \cup {<<"revision", pub[p].doc.rev>>, <<"slug", Slug[pub[p].env]>>}
  /\ pub' = To(p, "index")
  /\ UNCHANGED <<current, asset, config, configSum, sdk, sdkSum, latest, latestSum,
                 manifest, index, holder, bounds, ghosts>>

\* _build_index lists every pointer in the tree.
BuildIndex == [s \in Slugs |-> IF latest[s] = Absent THEN Absent ELSE latest[s].rev]

\* The last file; the lock is released and the result returned.
WriteIndex(p) ==
  /\ pub[p].stage = "index"
  /\ index' = BuildIndex
  /\ LET s == Slug[pub[p].env] IN
       /\ torn' = torn \ {s}
       /\ acked' = [acked EXCEPT ![s] = @ \cup {pub[p].doc.rev}]
  /\ pub' = [pub EXCEPT ![p] = Idle]
  /\ Release(p)
  /\ UNCHANGED <<current, asset, config, configSum, sdk, sdkSum, latest, latestSum,
                 manifest, headers, bounds>>

\* An error in a write (the temporary file is removed) or the end of the
\* process: the lock is released, the files stay as they are.
Stop(p) ==
  /\ pub[p].stage # "idle"
  /\ stops < MaxStops
  /\ stops' = stops + 1
  /\ torn' = IF pub[p].stage \in {"latestSum", "manifest", "headers", "index"}
               THEN torn \cup {Slug[pub[p].env]} ELSE torn
  /\ pub' = [pub EXCEPT ![p] = Idle]
  /\ Release(p)
  /\ UNCHANGED <<current, asset, tree, activations, releases, acked>>

Publish(p) ==
  \/ \E e \in Environments : BuildPublishedConfig(p, e)
  \/ ReuseExisting(p)
  \/ ReadBytes(p)
  \/ AcquireLock(p)
  \/ WriteConfig(p)
  \/ WriteConfigSum(p)
  \/ WriteSdk(p)
  \/ WriteSdkSum(p)
  \/ Conflict(p)
  \/ WriteLatest(p)
  \/ WriteLatestSum(p)
  \/ WriteManifest(p)
  \/ UpdateHeaders(p)
  \/ WriteIndex(p)
  \/ Stop(p)

Next ==
  \/ \E e \in Environments, r \in Revisions : Activate(e, r)
  \/ \E a \in Assets : Rebuild(a)
  \/ \E p \in Publishers : Publish(p)

Spec == Init /\ [][Next]_vars

-----------------------------------------------------------------------------
(* Properties.                                                             *)

TypeOK ==
  /\ current \in [Environments -> Revisions \cup {Absent}]
  /\ asset \in Assets
  /\ config \in [Revisions -> Document \cup {Absent}]
  /\ configSum \in [Revisions -> Document \cup {Absent}]
  /\ sdk \in Assets \cup {Absent} /\ sdkSum \in Assets \cup {Absent}
  /\ latest \in [Slugs -> Pointer \cup {Absent}]
  /\ latestSum \in [Slugs -> Pointer \cup {Absent}]
  /\ manifest \in [Slugs -> Manifest \cup {Absent}]
  /\ headers \subseteq ({"revision"} \X Revisions) \cup ({"slug"} \X Slugs)
  /\ index \in [Slugs -> Revisions \cup {Absent}]
  /\ holder \in Publishers \cup {Nobody}
  /\ pub \in [Publishers -> Publisher]
  /\ torn \subseteq Slugs
  /\ acked \in [Slugs -> SUBSET Revisions]

\* verify(): what the publisher's own audit of one environment reports.
Verify(s) ==
  IF manifest[s] = Absent THEN {}
  ELSE {"missing" : h \in {h \in manifest[s].revisions : config[h.rev] = Absent}}
       \cup {"checksum" : h \in {h \in manifest[s].revisions :
                                    config[h.rev] \notin {Absent, h.file}}}
       \cup {"identity" : h \in {h \in manifest[s].revisions :
                                    config[h.rev] # Absent /\ config[h.rev].rev # h.rev}}
       \cup {"pointer" : l \in {l \in {latest[s]} : l # Absent /\ l.rev # manifest[s].current}}

\* verify() finds nothing wrong with an environment while nobody publishes,
\* unless its last publication stopped half-way: two publishers never leave the
\* pointer of one with the manifest of the other.
VerifyClean ==
  holder = Nobody => \A s \in Slugs \ torn : Verify(s) = {}

\* A publication that returned a result stays in the history of its
\* environment, whatever publications, conflicts and stops come after it.
PublicationsRecorded ==
  \A s \in Slugs : acked[s] \subseteq {h.rev : h \in History(manifest[s])}

\* While nobody publishes, and no publication stopped half-way, the index, the
\* cache headers and the checksum file agree with every pointer.
TreeConsistent ==
  holder = Nobody /\ torn = {} =>
    /\ index = BuildIndex
    /\ \A s \in Slugs : latest[s] # Absent =>
         /\ latestSum[s] = latest[s]
         /\ configSum[latest[s].rev] = latest[s].file
         /\ {<<"slug", s>>, <<"revision", latest[s].rev>>} \subseteq headers

\* A checksum file never disagrees with the artefact beside it, also when a
\* publication stopped between the two: clients that check it never reject an
\* artefact for good.
ChecksumsAgree ==
  /\ \A r \in Revisions : configSum[r] \in {Absent, config[r]}
  /\ sdkSum \in {Absent, sdk}

\* The publications of a container are sound: verify() finds nothing wrong with what
\* publications that ended left behind, and one that returned stays in the history.
PublicationsSound == VerifyClean /\ PublicationsRecorded

\* The files of the tree agree, whatever order publishers and stops come in: the
\* index, the headers and the checksum files with the pointers and the artefacts.
TreeSound == TypeOK /\ TreeConsistent /\ ChecksumsAgree

\* To readers the tree is immutable artefacts with pointers that resolve.
Pointers == [s \in Slugs |-> IF latest[s] = Absent THEN Absent
                             ELSE [rev |-> latest[s].rev, sum |-> latest[s].file]]

Cdn == INSTANCE ImmutableCdn
         WITH Documents <- Document, artefact <- config, pointer <- Pointers

ReadersSeeImmutableCdn == Cdn!Spec

\* Claimed by docs/architecture/multiplatform-extension.md ("CDN publication is
\* immutable, verifiable"): the integrity digest a pointer carries is the one of
\* the configuration it points at.
PointerVerifiable ==
  \A s \in Slugs : latest[s] # Absent => latest[s].integrity = config[latest[s].rev]

\* read_manifest: the manifests that may be returned for an environment whose
\* name is its slug but for case; the first one the directory listing has wins.
Candidates(e) ==
  {s \in Slugs : manifest[s] # Absent /\ (manifest[s].env = e \/ s = Slug[e])}

\* Claimed by the command cdn status (cli.py, "Show the locally published state of
\* one environment"): the manifest it reads is the environment's own.
StatusShowsItsEnvironment ==
  \A e \in Environments : Candidates(e) \subseteq {Slug[e]}
=============================================================================
