--------------------------- MODULE PublisherProofs --------------------------
(***************************************************************************)
(* Proofs about Publisher, for every set of publishers, environments,      *)
(* revisions and stamps and every bound.                                   *)
(*                                                                         *)
(* A publisher decides what to write before it has the lock, so nothing    *)
(* follows from what it has in hand alone.  The invariant says what the    *)
(* tree holds for a publisher at each of its files (Written, Moving),      *)
(* which rests on the lock (LockHeld), and that a slug nobody is moving,   *)
(* and no stopped publication left half-way, is settled (SlugsSettled).    *)
(***************************************************************************)
EXTENDS Publisher, TLAPS

\* A publisher at one of its files holds the lock.
LockHeld == \A p \in Publishers : pub[p].stage \in Locked => holder = p

\* What a publisher has read by each stage.
Equipped ==
  \A p \in Publishers :
    /\ pub[p].stage # "idle" => pub[p].env \in Environments /\ pub[p].doc \in Document
    /\ pub[p].stage \in {"ready"} \cup Locked =>
         pub[p].bytes \in Document /\ pub[p].bytes.rev = pub[p].doc.rev /\ pub[p].sdk \in Assets

\* An artefact is filed under its own revision.
Filed == \A r \in Revisions : config[r] # Absent => config[r].rev = r

AfterConfig == Locked \ {"config"}
AfterConfigSum == AfterConfig \ {"configSum"}
Pointed == {"latestSum", "manifest", "headers", "index"}
Recorded == {"headers", "index"}

\* The artefacts a publisher has behind it are in the tree.
Written ==
  \A p \in Publishers :
    /\ pub[p].stage \in AfterConfig => config[pub[p].doc.rev] = pub[p].bytes
    /\ pub[p].stage \in AfterConfigSum => configSum[pub[p].doc.rev] = pub[p].bytes
    /\ pub[p].stage = "sdkSum" => sdk = pub[p].sdk

\* The history of a slug lists artefacts that are there.
HistoryFiled ==
  \A s \in Slugs : \A h \in History(manifest[s]) :
    h.rev \in Revisions /\ h.file # Absent /\ config[h.rev] = h.file

\* A pointer names an artefact that is there, with its checksum.
PointersFiled ==
  \A s \in Slugs : latest[s] # Absent =>
    /\ latest[s].file # Absent /\ config[latest[s].rev] = latest[s].file
    /\ configSum[latest[s].rev] = latest[s].file

\* The pointer, its checksum file, its manifest and its headers, where a publisher
\* has written them.
Moving ==
  \A p \in Publishers :
    LET s == Slug[pub[p].env] IN
    /\ pub[p].stage \in Pointed =>
         latest[s] # Absent /\ latest[s].rev = pub[p].doc.rev
    /\ pub[p].stage \in Pointed \ {"latestSum"} => latestSum[s] = latest[s]
    /\ pub[p].stage \in Recorded =>
         /\ manifest[s] # Absent /\ manifest[s].current = pub[p].doc.rev
         /\ \E h \in manifest[s].revisions : h.rev = pub[p].doc.rev
    /\ pub[p].stage = "index" =>
         {<<"revision", pub[p].doc.rev>>, <<"slug", s>>} \subseteq headers

\* What the files of a slug agree on.
Settled(s) ==
  /\ index[s] = BuildIndex[s]
  /\ latest[s] # Absent =>
       /\ latestSum[s] = latest[s]
       /\ manifest[s] # Absent /\ manifest[s].current = latest[s].rev
       /\ {<<"slug", s>>, <<"revision", latest[s].rev>>} \subseteq headers
  /\ manifest[s] # Absent => latest[s] # Absent

\* A slug is settled unless somebody is moving it or left it half-way.
SlugsSettled ==
  \A s \in Slugs \ torn :
    (\A p \in Publishers : pub[p].stage \in Pointed => Slug[pub[p].env] # s) => Settled(s)

Inv ==
  /\ TypeOK
  /\ LockHeld
  /\ Equipped
  /\ Filed
  /\ Written
  /\ HistoryFiled
  /\ PointersFiled
  /\ Moving
  /\ SlugsSettled
  /\ PublicationsRecorded
  /\ ChecksumsAgree

-----------------------------------------------------------------------------
\* A publisher gets on to its next file: its other local variables and the
\* other publishers stay as they are.
LEMMA StageMoves ==
  ASSUME TypeOK, NEW p \in Publishers, NEW st \in Stage, pub' = To(p, st)
  PROVE  /\ pub' \in [Publishers -> Publisher]
         /\ pub'[p].stage = st
         /\ pub'[p].env = pub[p].env /\ pub'[p].doc = pub[p].doc
         /\ pub'[p].bytes = pub[p].bytes /\ pub'[p].sdk = pub[p].sdk
         /\ \A q \in Publishers \ {p} : pub'[q] = pub[q]
<1>1. pub' = [pub EXCEPT ![p] = [pub[p] EXCEPT !.stage = st]]
  BY DEF To
<1>2. ASSUME NEW x \in Publisher PROVE [x EXCEPT !.stage = st] \in Publisher
  BY DEF Publisher
<1>3. pub \in [Publishers -> Publisher]
  BY DEF TypeOK
<1>4. pub' \in [Publishers -> Publisher] /\ pub'[p] = [pub[p] EXCEPT !.stage = st]
  BY <1>1, <1>2, <1>3
<1>5. \A q \in Publishers \ {p} : pub'[q] = pub[q]
  BY <1>1, <1>3
<1>6. pub[p] \in Publisher
  BY <1>3
<1> HIDE DEF Publisher
<1> QED BY <1>4, <1>5, <1>6 DEF Publisher

\* What is said of a publisher that moves a slug holds of the ones that do not move
\* while nothing is written.
LEMMA MovingKept ==
  ASSUME Moving, NEW p \in Publishers, pub'[p].stage \notin Pointed,
         \A q \in Publishers \ {p} : pub'[q] = pub[q],
         UNCHANGED <<latest, latestSum, manifest, headers>>
  PROVE  Moving'
<1> DEFINE Is(q) ==
      LET s == Slug[pub[q].env] IN
      /\ pub[q].stage \in Pointed => latest[s] # Absent /\ latest[s].rev = pub[q].doc.rev
      /\ pub[q].stage \in Pointed \ {"latestSum"} => latestSum[s] = latest[s]
      /\ pub[q].stage \in Recorded =>
           /\ manifest[s] # Absent /\ manifest[s].current = pub[q].doc.rev
           /\ \E h \in manifest[s].revisions : h.rev = pub[q].doc.rev
      /\ pub[q].stage = "index" =>
           {<<"revision", pub[q].doc.rev>>, <<"slug", s>>} \subseteq headers
<1>1. \A q \in Publishers : Is(q)
  BY DEF Moving
<1>2. ASSUME NEW q \in Publishers PROVE Is(q)'
  <2>1. CASE q = p
    BY <2>1 DEF Pointed, Recorded
  <2>2. CASE q # p
    <3>1. Is(q) /\ pub'[q] = pub[q]
      BY <1>1, <2>2
    <3> QED BY <3>1
  <2> QED BY <2>1, <2>2
<1> QED BY <1>2 DEF Moving

-----------------------------------------------------------------------------
(* Every step keeps the invariant. *)

\* A new configuration is made, before the lock is taken.
LEMMA BuildPublishedConfigKeeps ==
  ASSUME Inv, NEW p \in Publishers, NEW e \in Environments, BuildPublishedConfig(p, e)
  PROVE  Inv'
<1>a. PICK at \in Stamps :
        pub' = [pub EXCEPT ![p] = [stage |-> "built", env |-> e, bytes |-> Absent, sdk |-> Absent,
                                   doc |-> [rev |-> current[e], env |-> e, at |-> at]]]
  BY DEF BuildPublishedConfig
<1>1. TypeOK'
  <2>1. [rev |-> current[e], env |-> e, at |-> at] \in Document
    BY DEF BuildPublishedConfig, Inv, TypeOK, Document
  <2>2. pub' \in [Publishers -> Publisher]
    BY <1>a, <2>1 DEF Inv, TypeOK, Publisher, Stage
  <2> QED BY <2>2 DEF Inv, BuildPublishedConfig, TypeOK, tree, ghosts
<1>2. LockHeld'
  BY DEF Inv, BuildPublishedConfig, LockHeld, Locked
<1>3. Equipped'
  BY DEF Inv, BuildPublishedConfig, TypeOK, Equipped, Locked, Document
<1>4. Filed'
  BY DEF Inv, BuildPublishedConfig, tree, Filed
<1>5. Written'
  BY DEF Inv, BuildPublishedConfig, tree, Written, AfterConfig, AfterConfigSum, Locked
<1>6. HistoryFiled'
  BY DEF Inv, BuildPublishedConfig, tree, HistoryFiled
<1>7. PointersFiled'
  BY DEF Inv, BuildPublishedConfig, tree, PointersFiled
<1>8. Moving'
  <2>1. pub'[p].stage \notin Pointed /\ \A q \in Publishers \ {p} : pub'[q] = pub[q]
    BY <1>a DEF Inv, TypeOK, Pointed
  <2>2. UNCHANGED <<latest, latestSum, manifest, headers>>
    BY DEF BuildPublishedConfig, tree
  <2> QED BY <2>1, <2>2, MovingKept DEF Inv
<1>9. SlugsSettled'
  BY DEF Inv, BuildPublishedConfig, tree, ghosts, SlugsSettled, Settled, BuildIndex, Pointed
<1>10. PublicationsRecorded'
  BY DEF Inv, BuildPublishedConfig, tree, ghosts, PublicationsRecorded
<1>11. ChecksumsAgree'
  BY DEF Inv, BuildPublishedConfig, tree, ChecksumsAgree
<1> QED BY <1>1, <1>2, <1>3, <1>4, <1>5, <1>6, <1>7, <1>8, <1>9, <1>10, <1>11 DEF Inv

\* The stored configuration of the revision is read, before the lock is taken.
LEMMA ReuseExistingKeeps ==
  ASSUME Inv, NEW p \in Publishers, ReuseExisting(p)
  PROVE  Inv'
<1> DEFINE d == IF config[pub[p].doc.rev] = Absent THEN pub[p].doc ELSE config[pub[p].doc.rev]
<1>a. pub' = [pub EXCEPT ![p] = [pub[p] EXCEPT !.stage = "checked", !.doc = d]]
  BY DEF ReuseExisting
<1>1. TypeOK'
  <2>1. d \in Document
    BY DEF ReuseExisting, Inv, TypeOK, Equipped, Document
  <2>2. ASSUME NEW x \in Publisher PROVE [x EXCEPT !.stage = "checked", !.doc = d] \in Publisher
    BY <2>1 DEF Publisher, Stage
  <2>3. pub' \in [Publishers -> Publisher]
    BY <1>a, <2>2 DEF Inv, TypeOK
  <2> QED BY <2>3 DEF Inv, ReuseExisting, TypeOK, tree, ghosts
<1>2. LockHeld'
  BY DEF Inv, ReuseExisting, TypeOK, LockHeld, Locked
<1>3. Equipped'
  BY DEF Inv, ReuseExisting, TypeOK, Equipped, Publisher, Locked
<1>4. Filed'
  BY DEF Inv, ReuseExisting, tree, Filed
<1>5. Written'
  BY DEF Inv, ReuseExisting, tree, TypeOK, Written, AfterConfig, AfterConfigSum, Locked
<1>6. HistoryFiled'
  BY DEF Inv, ReuseExisting, tree, HistoryFiled
<1>7. PointersFiled'
  BY DEF Inv, ReuseExisting, tree, PointersFiled
<1>8. Moving'
  <2>1. pub'[p].stage = "checked" /\ \A q \in Publishers \ {p} : pub'[q] = pub[q]
    BY <1>a DEF Inv, TypeOK
  <2>2. pub'[p].stage \notin Pointed
    BY <2>1 DEF Pointed
  <2>3. UNCHANGED <<latest, latestSum, manifest, headers>>
    BY DEF ReuseExisting, tree
  <2> QED BY <2>1, <2>2, <2>3, MovingKept DEF Inv
<1>9. SlugsSettled'
  BY DEF Inv, ReuseExisting, tree, ghosts, TypeOK, SlugsSettled, Settled, BuildIndex, Pointed
<1>10. PublicationsRecorded'
  BY DEF Inv, ReuseExisting, tree, ghosts, PublicationsRecorded
<1>11. ChecksumsAgree'
  BY DEF Inv, ReuseExisting, tree, ChecksumsAgree
<1> QED BY <1>1, <1>2, <1>3, <1>4, <1>5, <1>6, <1>7, <1>8, <1>9, <1>10, <1>11 DEF Inv

\* The bytes to publish are read, before the lock is taken.
LEMMA ReadBytesKeeps ==
  ASSUME Inv, NEW p \in Publishers, ReadBytes(p)
  PROVE  Inv'
<1> DEFINE b == IF config[pub[p].doc.rev] = Absent THEN pub[p].doc ELSE config[pub[p].doc.rev]
<1>a. /\ b \in Document /\ asset \in Assets
      /\ pub' = [pub EXCEPT ![p] = [pub[p] EXCEPT !.stage = "ready", !.bytes = b, !.sdk = asset]]
  BY DEF ReadBytes, Inv, TypeOK, Equipped, Document
<1>b. pub'[p].stage = "ready" /\ \A q \in Publishers \ {p} : pub'[q] = pub[q]
  BY <1>a DEF Inv, TypeOK
<1>1. TypeOK'
  <2>1. ASSUME NEW x \in Publisher
        PROVE  [x EXCEPT !.stage = "ready", !.bytes = b, !.sdk = asset] \in Publisher
    BY <1>a DEF Publisher, Stage
  <2>2. pub' \in [Publishers -> Publisher]
    BY <1>a, <2>1 DEF Inv, TypeOK
  <2> QED BY <2>2 DEF Inv, ReadBytes, TypeOK, tree, ghosts
<1>2. LockHeld'
  BY DEF Inv, ReadBytes, TypeOK, LockHeld, Locked
<1>3. Equipped'
  <2>1. /\ pub'[p].env = pub[p].env /\ pub'[p].doc = pub[p].doc
        /\ pub'[p].bytes = b /\ pub'[p].sdk = asset
    BY <1>a DEF Inv, TypeOK, Publisher
  <2>2. pub[p].env \in Environments /\ pub[p].doc \in Document
    BY DEF Inv, Equipped, ReadBytes
  <2>3. b.rev = pub[p].doc.rev
    BY <2>2 DEF Inv, Filed, Document
  <2> HIDE DEF b
  <2> QED BY <1>a, <1>b, <2>1, <2>2, <2>3 DEF Inv, Equipped
<1>4. Filed'
  BY DEF Inv, ReadBytes, tree, Filed
<1>5. Written'
  <2>1. pub'[p].stage \notin AfterConfig \cup AfterConfigSum \cup {"sdkSum"}
    BY <1>b DEF AfterConfig, AfterConfigSum, Locked
  <2>2. UNCHANGED <<config, configSum, sdk>>
    BY DEF ReadBytes, tree
  <2>3. ASSUME NEW q \in Publishers \ {p}, pub'[q] = pub[q]
        PROVE  /\ pub'[q].stage \in AfterConfig => config'[pub'[q].doc.rev] = pub'[q].bytes
               /\ pub'[q].stage \in AfterConfigSum => configSum'[pub'[q].doc.rev] = pub'[q].bytes
               /\ pub'[q].stage = "sdkSum" => sdk' = pub'[q].sdk
    BY <2>2, <2>3 DEF Inv, Written
  <2> QED BY <1>b, <2>1, <2>3 DEF Written
<1>6. HistoryFiled'
  BY DEF Inv, ReadBytes, tree, HistoryFiled
<1>7. PointersFiled'
  BY DEF Inv, ReadBytes, tree, PointersFiled
<1>8. Moving'
  <2>1. pub'[p].stage \notin Pointed
    BY <1>b DEF Pointed
  <2>2. UNCHANGED <<latest, latestSum, manifest, headers>>
    BY DEF ReadBytes, tree
  <2> QED BY <1>b, <2>1, <2>2, MovingKept DEF Inv
<1>9. SlugsSettled'
  BY DEF Inv, ReadBytes, tree, ghosts, TypeOK, SlugsSettled, Settled, BuildIndex, Pointed
<1>10. PublicationsRecorded'
  BY DEF Inv, ReadBytes, tree, ghosts, PublicationsRecorded
<1>11. ChecksumsAgree'
  BY DEF Inv, ReadBytes, tree, ChecksumsAgree
<1> QED BY <1>1, <1>2, <1>3, <1>4, <1>5, <1>6, <1>7, <1>8, <1>9, <1>10, <1>11 DEF Inv

\* The publisher gets the lock, with what it read before.
LEMMA AcquireLockKeeps ==
  ASSUME Inv, NEW p \in Publishers, AcquireLock(p)
  PROVE  Inv'
<1>m. /\ pub' \in [Publishers -> Publisher]
      /\ pub'[p].stage = "config"
      /\ pub'[p].env = pub[p].env /\ pub'[p].doc = pub[p].doc
      /\ pub'[p].bytes = pub[p].bytes /\ pub'[p].sdk = pub[p].sdk
      /\ \A q \in Publishers \ {p} : pub'[q] = pub[q]
  <2>1. "config" \in Stage
    BY DEF Stage, Locked
  <2> QED BY <2>1, StageMoves DEF AcquireLock, Inv
<1>1. TypeOK'
  BY <1>m DEF Inv, AcquireLock, TypeOK, tree, ghosts
<1>2. LockHeld'
  BY PublisherAssumption DEF Inv, AcquireLock, To, LockHeld
<1>3. Equipped'
  BY DEF Inv, AcquireLock, To, Equipped
<1>4. Filed'
  BY DEF Inv, AcquireLock, tree, Filed
<1>5. Written'
  BY DEF Inv, AcquireLock, To, tree, Written, AfterConfig, AfterConfigSum
<1>6. HistoryFiled'
  BY DEF Inv, AcquireLock, tree, HistoryFiled
<1>7. PointersFiled'
  BY DEF Inv, AcquireLock, tree, PointersFiled
<1>8. Moving'
  <2>1. pub'[p].stage \notin Pointed
    BY <1>m DEF Pointed
  <2>2. UNCHANGED <<latest, latestSum, manifest, headers>>
    BY DEF AcquireLock, tree
  <2> QED BY <1>m, <2>1, <2>2, MovingKept DEF Inv
<1>9. SlugsSettled'
  BY DEF Inv, AcquireLock, To, tree, ghosts, SlugsSettled, Settled, BuildIndex, Pointed
<1>10. PublicationsRecorded'
  BY DEF Inv, AcquireLock, tree, ghosts, PublicationsRecorded
<1>11. ChecksumsAgree'
  BY DEF Inv, AcquireLock, tree, ChecksumsAgree
<1> QED BY <1>1, <1>2, <1>3, <1>4, <1>5, <1>6, <1>7, <1>8, <1>9, <1>10, <1>11 DEF Inv

\* The configuration is written, or found as it should be.
LEMMA WriteConfigKeeps ==
  ASSUME Inv, NEW p \in Publishers, WriteConfig(p)
  PROVE  Inv'
<1>m. /\ pub' \in [Publishers -> Publisher]
      /\ pub'[p].stage = "configSum"
      /\ pub'[p].env = pub[p].env /\ pub'[p].doc = pub[p].doc
      /\ pub'[p].bytes = pub[p].bytes /\ pub'[p].sdk = pub[p].sdk
      /\ \A q \in Publishers \ {p} : pub'[q] = pub[q]
  <2>1. "configSum" \in Stage
    BY DEF Stage, Locked
  <2> QED BY <2>1, StageMoves DEF WriteConfig, Inv
<1>1. TypeOK'
  <2>1. pub[p].doc.rev \in Revisions /\ pub[p].bytes \in Document
    BY DEF Inv, Equipped, WriteConfig, Locked, Document
  <2>2. config' \in [Revisions -> Document \cup {Absent}]
    BY <2>1 DEF Inv, TypeOK, WriteConfig
  <2> QED BY <1>m, <2>2 DEF Inv, WriteConfig, TypeOK, ghosts
<1>2. LockHeld'
  BY DEF Inv, WriteConfig, To, LockHeld, Locked
<1>3. Equipped'
  BY DEF Inv, WriteConfig, To, Equipped, Locked
<1>4. Filed'
  BY DEF Inv, WriteConfig, Filed, Equipped, Locked
<1>5. Written'
  BY DEF Inv, WriteConfig, To, TypeOK, Written, Equipped, LockHeld, AfterConfig, AfterConfigSum,
       Locked, Document
<1>6. HistoryFiled'
  BY DEF Inv, WriteConfig, Writable, HistoryFiled
<1>7. PointersFiled'
  BY DEF Inv, WriteConfig, Writable, PointersFiled
<1>8. Moving'
  <2>1. pub'[p].stage \notin Pointed
    BY <1>m DEF Pointed
  <2>2. UNCHANGED <<latest, latestSum, manifest, headers>>
    BY DEF WriteConfig
  <2> QED BY <1>m, <2>1, <2>2, MovingKept DEF Inv
<1>9. SlugsSettled'
  BY DEF Inv, WriteConfig, To, ghosts, SlugsSettled, Settled, BuildIndex, Pointed
<1>10. PublicationsRecorded'
  BY DEF Inv, WriteConfig, ghosts, PublicationsRecorded
<1>11. ChecksumsAgree'
  BY DEF Inv, WriteConfig, Writable, ChecksumsAgree
<1> QED BY <1>1, <1>2, <1>3, <1>4, <1>5, <1>6, <1>7, <1>8, <1>9, <1>10, <1>11 DEF Inv

\* The configuration's checksum file is written.
LEMMA WriteConfigSumKeeps ==
  ASSUME Inv, NEW p \in Publishers, WriteConfigSum(p)
  PROVE  Inv'
<1>m. /\ pub' \in [Publishers -> Publisher]
      /\ pub'[p].stage = "sdk"
      /\ pub'[p].env = pub[p].env /\ pub'[p].doc = pub[p].doc
      /\ pub'[p].bytes = pub[p].bytes /\ pub'[p].sdk = pub[p].sdk
      /\ \A q \in Publishers \ {p} : pub'[q] = pub[q]
  <2>1. "sdk" \in Stage
    BY DEF Stage, Locked
  <2> QED BY <2>1, StageMoves DEF WriteConfigSum, Inv
<1>1. TypeOK'
  <2>1. pub[p].doc.rev \in Revisions /\ pub[p].bytes \in Document
    BY DEF Inv, Equipped, WriteConfigSum, Locked, Document
  <2>2. configSum' \in [Revisions -> Document \cup {Absent}]
    BY <2>1 DEF Inv, TypeOK, WriteConfigSum
  <2> QED BY <1>m, <2>2 DEF Inv, WriteConfigSum, TypeOK, ghosts
<1>2. LockHeld'
  BY DEF Inv, WriteConfigSum, To, LockHeld, Locked
<1>3. Equipped'
  BY DEF Inv, WriteConfigSum, To, Equipped, Locked
<1>4. Filed'
  BY DEF Inv, WriteConfigSum, Filed
<1>5. Written'
  BY DEF Inv, WriteConfigSum, To, TypeOK, Written, Equipped, AfterConfig, AfterConfigSum, Locked,
       Document
<1>6. HistoryFiled'
  BY DEF Inv, WriteConfigSum, HistoryFiled
<1>7. PointersFiled'
  BY DEF Inv, WriteConfigSum, Writable, PointersFiled
<1>8. Moving'
  <2>1. pub'[p].stage \notin Pointed
    BY <1>m DEF Pointed
  <2>2. UNCHANGED <<latest, latestSum, manifest, headers>>
    BY DEF WriteConfigSum
  <2> QED BY <1>m, <2>1, <2>2, MovingKept DEF Inv
<1>9. SlugsSettled'
  BY DEF Inv, WriteConfigSum, To, ghosts, SlugsSettled, Settled, BuildIndex, Pointed
<1>10. PublicationsRecorded'
  BY DEF Inv, WriteConfigSum, ghosts, PublicationsRecorded
<1>11. ChecksumsAgree'
  BY DEF Inv, WriteConfigSum, ChecksumsAgree, Written, AfterConfig, Locked
<1> QED BY <1>1, <1>2, <1>3, <1>4, <1>5, <1>6, <1>7, <1>8, <1>9, <1>10, <1>11 DEF Inv

\* The SDK file is written, or found as it should be.
LEMMA WriteSdkKeeps ==
  ASSUME Inv, NEW p \in Publishers, WriteSdk(p)
  PROVE  Inv'
<1>m. /\ pub' \in [Publishers -> Publisher]
      /\ pub'[p].stage = "sdkSum"
      /\ pub'[p].env = pub[p].env /\ pub'[p].doc = pub[p].doc
      /\ pub'[p].bytes = pub[p].bytes /\ pub'[p].sdk = pub[p].sdk
      /\ \A q \in Publishers \ {p} : pub'[q] = pub[q]
  <2>1. "sdkSum" \in Stage
    BY DEF Stage, Locked
  <2> QED BY <2>1, StageMoves DEF WriteSdk, Inv
<1>1. TypeOK'
  <2>1. pub[p].sdk \in Assets
    BY DEF Inv, Equipped, WriteSdk, Locked
  <2> QED BY <1>m, <2>1 DEF Inv, WriteSdk, TypeOK, ghosts
<1>2. LockHeld'
  BY DEF Inv, WriteSdk, To, LockHeld, Locked
<1>3. Equipped'
  BY DEF Inv, WriteSdk, To, Equipped, Locked
<1>4. Filed'
  BY DEF Inv, WriteSdk, Filed
<1>5. Written'
  BY DEF Inv, WriteSdk, To, Written, LockHeld, AfterConfig, AfterConfigSum, Locked
<1>6. HistoryFiled'
  BY DEF Inv, WriteSdk, HistoryFiled
<1>7. PointersFiled'
  BY DEF Inv, WriteSdk, PointersFiled
<1>8. Moving'
  <2>1. pub'[p].stage \notin Pointed
    BY <1>m DEF Pointed
  <2>2. UNCHANGED <<latest, latestSum, manifest, headers>>
    BY DEF WriteSdk
  <2> QED BY <1>m, <2>1, <2>2, MovingKept DEF Inv
<1>9. SlugsSettled'
  BY DEF Inv, WriteSdk, To, ghosts, SlugsSettled, Settled, BuildIndex, Pointed
<1>10. PublicationsRecorded'
  BY DEF Inv, WriteSdk, ghosts, PublicationsRecorded
<1>11. ChecksumsAgree'
  BY DEF Inv, WriteSdk, Writable, ChecksumsAgree
<1> QED BY <1>1, <1>2, <1>3, <1>4, <1>5, <1>6, <1>7, <1>8, <1>9, <1>10, <1>11 DEF Inv

\* The SDK file's checksum file is written.
LEMMA WriteSdkSumKeeps ==
  ASSUME Inv, NEW p \in Publishers, WriteSdkSum(p)
  PROVE  Inv'
<1>m. /\ pub' \in [Publishers -> Publisher]
      /\ pub'[p].stage = "latest"
      /\ pub'[p].env = pub[p].env /\ pub'[p].doc = pub[p].doc
      /\ pub'[p].bytes = pub[p].bytes /\ pub'[p].sdk = pub[p].sdk
      /\ \A q \in Publishers \ {p} : pub'[q] = pub[q]
  <2>1. "latest" \in Stage
    BY DEF Stage, Locked
  <2> QED BY <2>1, StageMoves DEF WriteSdkSum, Inv
<1>1. TypeOK'
  <2>1. pub[p].sdk \in Assets
    BY DEF Inv, Equipped, WriteSdkSum, Locked
  <2> QED BY <1>m, <2>1 DEF Inv, WriteSdkSum, TypeOK, ghosts
<1>2. LockHeld'
  BY DEF Inv, WriteSdkSum, To, LockHeld, Locked
<1>3. Equipped'
  BY DEF Inv, WriteSdkSum, To, Equipped, Locked
<1>4. Filed'
  BY DEF Inv, WriteSdkSum, Filed
<1>5. Written'
  BY DEF Inv, WriteSdkSum, To, Written, AfterConfig, AfterConfigSum, Locked
<1>6. HistoryFiled'
  BY DEF Inv, WriteSdkSum, HistoryFiled
<1>7. PointersFiled'
  BY DEF Inv, WriteSdkSum, PointersFiled
<1>8. Moving'
  <2>1. pub'[p].stage \notin Pointed
    BY <1>m DEF Pointed
  <2>2. UNCHANGED <<latest, latestSum, manifest, headers>>
    BY DEF WriteSdkSum
  <2> QED BY <1>m, <2>1, <2>2, MovingKept DEF Inv
<1>9. SlugsSettled'
  BY DEF Inv, WriteSdkSum, To, ghosts, SlugsSettled, Settled, BuildIndex, Pointed
<1>10. PublicationsRecorded'
  BY DEF Inv, WriteSdkSum, ghosts, PublicationsRecorded
<1>11. ChecksumsAgree'
  BY DEF Inv, WriteSdkSum, ChecksumsAgree, Written
<1> QED BY <1>1, <1>2, <1>3, <1>4, <1>5, <1>6, <1>7, <1>8, <1>9, <1>10, <1>11 DEF Inv

\* An artefact that differs ends the publication.
LEMMA ConflictKeeps ==
  ASSUME Inv, NEW p \in Publishers, Conflict(p)
  PROVE  Inv'
<1>1. TypeOK'
  BY DEF Inv, Conflict, tree, ghosts, Release, TypeOK, Publisher, Stage, Idle
<1>2. LockHeld'
  BY DEF Inv, Conflict, TypeOK, LockHeld, Locked, Idle
<1>3. Equipped'
  BY DEF Inv, Conflict, Equipped, Locked, Idle
<1>4. Filed'
  BY DEF Inv, Conflict, tree, Filed
<1>5. Written'
  BY DEF Inv, Conflict, TypeOK, Written, LockHeld, AfterConfig, AfterConfigSum, Locked, Idle
<1>6. HistoryFiled'
  BY DEF Inv, Conflict, tree, HistoryFiled
<1>7. PointersFiled'
  BY DEF Inv, Conflict, tree, PointersFiled
<1>8. Moving'
  <2>1. pub'[p].stage \notin Pointed /\ \A q \in Publishers \ {p} : pub'[q] = pub[q]
    BY DEF Inv, TypeOK, Conflict, Idle, Pointed
  <2>2. UNCHANGED <<latest, latestSum, manifest, headers>>
    BY DEF Conflict, tree
  <2> QED BY <2>1, <2>2, MovingKept DEF Inv
<1>9. SlugsSettled'
  BY DEF Inv, Conflict, tree, ghosts, SlugsSettled, Settled, BuildIndex, Pointed
<1>10. PublicationsRecorded'
  BY DEF Inv, Conflict, tree, ghosts, PublicationsRecorded
<1>11. ChecksumsAgree'
  BY DEF Inv, Conflict, tree, ChecksumsAgree
<1> QED BY <1>1, <1>2, <1>3, <1>4, <1>5, <1>6, <1>7, <1>8, <1>9, <1>10, <1>11 DEF Inv

\* latest.json is moved: its environment is on the way.
LEMMA WriteLatestKeeps ==
  ASSUME Inv, NEW p \in Publishers, WriteLatest(p)
  PROVE  Inv'
<1>m. /\ pub' \in [Publishers -> Publisher]
      /\ pub'[p].stage = "latestSum"
      /\ pub'[p].env = pub[p].env /\ pub'[p].doc = pub[p].doc
      /\ pub'[p].bytes = pub[p].bytes /\ pub'[p].sdk = pub[p].sdk
      /\ \A q \in Publishers \ {p} : pub'[q] = pub[q]
  <2>1. "latestSum" \in Stage
    BY DEF Stage, Locked
  <2> QED BY <2>1, StageMoves DEF WriteLatest, Inv
<1>1. TypeOK'
  <2>1. Slug[pub[p].env] \in Slugs /\ pub[p].doc \in Document /\ pub[p].bytes \in Document
    BY PublisherAssumption DEF Inv, Equipped, WriteLatest, Locked
  <2>2. [rev |-> pub[p].doc.rev, env |-> pub[p].doc.env, file |-> pub[p].bytes,
         integrity |-> pub[p].doc] \in Pointer
    BY <2>1 DEF Pointer, Document
  <2>3. latest' \in [Slugs -> Pointer \cup {Absent}]
    BY <2>1, <2>2 DEF Inv, TypeOK, WriteLatest
  <2> QED BY <1>m, <2>3 DEF Inv, WriteLatest, TypeOK, ghosts
<1>2. LockHeld'
  BY DEF Inv, WriteLatest, To, LockHeld, Locked
<1>3. Equipped'
  BY DEF Inv, WriteLatest, To, Equipped, Locked
<1>4. Filed'
  BY DEF Inv, WriteLatest, Filed
<1>5. Written'
  BY DEF Inv, WriteLatest, To, Written, AfterConfig, AfterConfigSum, Locked
<1>6. HistoryFiled'
  BY DEF Inv, WriteLatest, HistoryFiled
<1>7. PointersFiled'
  BY PublisherAssumption DEF Inv, WriteLatest, PointersFiled, Equipped, Written, AfterConfig,
       AfterConfigSum, Locked
<1>8. Moving'
  <2>a. \A q \in Publishers \ {p} : pub[q].stage \notin Locked
    BY DEF Inv, LockHeld, WriteLatest, Locked
  <2>b. \A q \in Publishers \ {p} : pub'[q].stage \notin Pointed \cup Recorded
    BY <1>m, <2>a DEF Pointed, Recorded, Locked
  <2>1. Slug[pub[p].env] \in Slugs /\ pub[p].doc \in Document /\ pub[p].bytes \in Document
    BY PublisherAssumption DEF Inv, Equipped, WriteLatest, Locked
  <2>2. [rev |-> pub[p].doc.rev, env |-> pub[p].doc.env, file |-> pub[p].bytes,
         integrity |-> pub[p].doc] \in Pointer
    BY <2>1 DEF Pointer, Document
  <2>3. latest'[Slug[pub[p].env]] # Absent /\ latest'[Slug[pub[p].env]].rev = pub[p].doc.rev
    BY <2>1, <2>2, PublisherAssumption DEF Inv, TypeOK, WriteLatest
  <2> QED BY <1>m, <2>b, <2>3 DEF Moving, Pointed, Recorded
<1>9. SlugsSettled'
  <2> SUFFICES ASSUME NEW s \in Slugs \ torn,
                      \A q \in Publishers : pub'[q].stage \in Pointed => Slug[pub'[q].env] # s
               PROVE  Settled(s)'
    BY DEF SlugsSettled, WriteLatest, ghosts
  <2>1. s # Slug[pub[p].env] /\ latest'[s] = latest[s]
    BY DEF Inv, TypeOK, WriteLatest, To, Pointed
  <2>2. \A q \in Publishers : pub[q].stage \in Pointed => Slug[pub[q].env] # s
    BY <2>1 DEF WriteLatest, To
  <2> QED BY <2>1, <2>2 DEF Inv, SlugsSettled, Settled, BuildIndex, WriteLatest
<1>10. PublicationsRecorded'
  BY DEF Inv, WriteLatest, ghosts, PublicationsRecorded
<1>11. ChecksumsAgree'
  BY DEF Inv, WriteLatest, ChecksumsAgree
<1> QED BY <1>1, <1>2, <1>3, <1>4, <1>5, <1>6, <1>7, <1>8, <1>9, <1>10, <1>11 DEF Inv

\* latest.json's checksum file follows.
LEMMA WriteLatestSumKeeps ==
  ASSUME Inv, NEW p \in Publishers, WriteLatestSum(p)
  PROVE  Inv'
<1>m. /\ pub' \in [Publishers -> Publisher]
      /\ pub'[p].stage = "manifest"
      /\ pub'[p].env = pub[p].env /\ pub'[p].doc = pub[p].doc
      /\ pub'[p].bytes = pub[p].bytes /\ pub'[p].sdk = pub[p].sdk
      /\ \A q \in Publishers \ {p} : pub'[q] = pub[q]
  <2>1. "manifest" \in Stage
    BY DEF Stage, Locked
  <2> QED BY <2>1, StageMoves DEF WriteLatestSum, Inv
<1>1. TypeOK'
  <2>1. Slug[pub[p].env] \in Slugs
    BY PublisherAssumption DEF Inv, Equipped, WriteLatestSum
  <2>2. latestSum' \in [Slugs -> Pointer \cup {Absent}]
    BY <2>1 DEF Inv, TypeOK, WriteLatestSum
  <2> QED BY <1>m, <2>2 DEF Inv, WriteLatestSum, TypeOK, ghosts
<1>2. LockHeld'
  BY DEF Inv, WriteLatestSum, To, LockHeld, Locked
<1>3. Equipped'
  BY DEF Inv, WriteLatestSum, To, Equipped, Locked
<1>4. Filed'
  BY DEF Inv, WriteLatestSum, Filed
<1>5. Written'
  BY DEF Inv, WriteLatestSum, To, Written, AfterConfig, AfterConfigSum, Locked
<1>6. HistoryFiled'
  BY DEF Inv, WriteLatestSum, HistoryFiled
<1>7. PointersFiled'
  BY DEF Inv, WriteLatestSum, PointersFiled
<1>8. Moving'
  <2>a. \A q \in Publishers \ {p} : pub[q].stage \notin Locked
    BY DEF Inv, LockHeld, WriteLatestSum, Locked
  <2>b. \A q \in Publishers \ {p} : pub'[q].stage \notin Pointed \cup Recorded
    BY <1>m, <2>a DEF Pointed, Recorded, Locked
  <2> DEFINE t == Slug[pub[p].env]
  <2>1. t \in Slugs /\ latest[t] # Absent /\ latest[t].rev = pub[p].doc.rev
    BY PublisherAssumption DEF Inv, Equipped, Moving, WriteLatestSum, Pointed
  <2>2. latest' = latest /\ latestSum'[t] = latest[t]
    BY <2>1 DEF Inv, TypeOK, WriteLatestSum
  <2> QED BY <1>m, <2>b, <2>1, <2>2 DEF Moving, Pointed, Recorded
<1>9. SlugsSettled'
  <2> SUFFICES ASSUME NEW s \in Slugs \ torn,
                      \A q \in Publishers : pub'[q].stage \in Pointed => Slug[pub'[q].env] # s
               PROVE  Settled(s)'
    BY DEF SlugsSettled, WriteLatestSum, ghosts
  <2>1. s # Slug[pub[p].env] /\ latestSum'[s] = latestSum[s]
    BY DEF WriteLatestSum, To, Pointed
  <2>2. \A q \in Publishers : pub[q].stage \in Pointed => Slug[pub[q].env] # s
    BY <2>1 DEF WriteLatestSum, To
  <2> QED BY <2>1, <2>2 DEF Inv, SlugsSettled, Settled, BuildIndex, WriteLatestSum
<1>10. PublicationsRecorded'
  BY DEF Inv, WriteLatestSum, ghosts, PublicationsRecorded
<1>11. ChecksumsAgree'
  BY DEF Inv, WriteLatestSum, ChecksumsAgree
<1> QED BY <1>1, <1>2, <1>3, <1>4, <1>5, <1>6, <1>7, <1>8, <1>9, <1>10, <1>11 DEF Inv

\* The manifest of the environment gets its entry.
LEMMA WriteManifestKeeps ==
  ASSUME Inv, NEW p \in Publishers, WriteManifest(p)
  PROVE  Inv'
<1> DEFINE t == Slug[pub[p].env]
           new == BuildManifest(manifest[t], pub[p].doc, pub[p].bytes)
<1>a. /\ t \in Slugs /\ new \in Manifest /\ new # Absent
      /\ manifest' = [manifest EXCEPT ![t] = new]
  <2>1. t \in Slugs /\ pub[p].doc \in Document /\ pub[p].bytes \in Document
    BY PublisherAssumption DEF Inv, Equipped, WriteManifest, Locked
  <2>2. new \in Manifest
    BY <2>1 DEF Inv, TypeOK, BuildManifest, History, Manifest, Entry, Document
  <2> QED BY <2>1, <2>2, PublisherAssumption DEF WriteManifest
<1>b. /\ \A q \in Publishers \ {p} : pub'[q] = pub[q] /\ pub[q].stage \notin Locked
       /\ pub'[p] = [pub[p] EXCEPT !.stage = "headers"]
  BY DEF Inv, TypeOK, LockHeld, WriteManifest, To, Locked
<1>c. /\ new.current = pub[p].doc.rev /\ \E h \in new.revisions : h.rev = pub[p].doc.rev
      /\ \A h \in History(manifest[t]) : h.rev # pub[p].doc.rev => h \in new.revisions
  <2>1. [rev |-> pub[p].doc.rev, file |-> pub[p].bytes, integrity |-> pub[p].doc] \in new.revisions
    BY DEF BuildManifest
  <2> QED BY <2>1 DEF BuildManifest
<1>m. /\ pub' \in [Publishers -> Publisher]
      /\ pub'[p].stage = "headers"
      /\ pub'[p].env = pub[p].env /\ pub'[p].doc = pub[p].doc
      /\ pub'[p].bytes = pub[p].bytes /\ pub'[p].sdk = pub[p].sdk
      /\ \A q \in Publishers \ {p} : pub'[q] = pub[q]
  <2>1. "headers" \in Stage
    BY DEF Stage, Locked
  <2> QED BY <2>1, StageMoves DEF WriteManifest, Inv
<1>1. TypeOK'
  <2>1. manifest' \in [Slugs -> Manifest \cup {Absent}]
    BY <1>a DEF Inv, TypeOK
  <2> QED BY <1>m, <2>1 DEF Inv, WriteManifest, TypeOK, ghosts
<1>2. LockHeld'
  BY DEF Inv, WriteManifest, To, LockHeld, Locked
<1>3. Equipped'
  BY DEF Inv, WriteManifest, To, Equipped, Locked
<1>4. Filed'
  BY DEF Inv, WriteManifest, Filed
<1>5. Written'
  BY DEF Inv, WriteManifest, To, Written, AfterConfig, AfterConfigSum, Locked
<1>6. HistoryFiled'
  <2> SUFFICES ASSUME NEW s \in Slugs, NEW h \in History(manifest'[s])
               PROVE  h.rev \in Revisions /\ h.file # Absent /\ config[h.rev] = h.file
    BY DEF HistoryFiled, WriteManifest
  <2>1. CASE h \in History(manifest[s])
    BY <2>1 DEF Inv, HistoryFiled
  <2>2. CASE h \notin History(manifest[s])
    <3>1. s = t
      BY <1>a, <2>2 DEF Inv, TypeOK
    <3>2. h \in new.revisions
      BY <1>a, <3>1 DEF Inv, TypeOK, History
    <3>3. h = [rev |-> pub[p].doc.rev, file |-> pub[p].bytes, integrity |-> pub[p].doc]
      BY <2>2, <3>1, <3>2 DEF BuildManifest
    <3>4. /\ pub[p].doc.rev \in Revisions /\ pub[p].bytes \in Document
          /\ config[pub[p].doc.rev] = pub[p].bytes
      BY DEF Inv, Equipped, Written, WriteManifest, AfterConfig, Locked, Document
    <3> QED BY <3>3, <3>4, PublisherAssumption
  <2> QED BY <2>1, <2>2
<1>7. PointersFiled'
  BY DEF Inv, WriteManifest, PointersFiled
<1>8. Moving'
  <2>1. /\ manifest'[t] = new /\ latestSum[t] = latest[t]
        /\ latest[t] # Absent /\ latest[t].rev = pub[p].doc.rev
    BY <1>a DEF Inv, TypeOK, Moving, WriteManifest, Pointed
  <2>2. \A q \in Publishers \ {p} : pub'[q].stage \notin Pointed \cup Recorded
    BY <1>b DEF Pointed, Recorded, Locked
  <2>3. latest' = latest /\ latestSum' = latestSum /\ Slug[pub'[p].env] = t
    BY <1>m DEF WriteManifest
  <2> HIDE DEF t, new
  <2> QED BY <1>a, <1>c, <1>m, <2>1, <2>2, <2>3 DEF Moving, Pointed, Recorded
<1>9. SlugsSettled'
  BY DEF Inv, WriteManifest, To, ghosts, SlugsSettled, Settled, BuildIndex, LockHeld, Pointed,
       Locked
<1>10. PublicationsRecorded'
  <2> SUFFICES ASSUME NEW s \in Slugs, NEW r \in acked[s]
               PROVE  \E h \in History(manifest'[s]) : h.rev = r
    BY DEF PublicationsRecorded, WriteManifest, ghosts
  <2>1. PICK h \in History(manifest[s]) : h.rev = r
    BY DEF Inv, PublicationsRecorded
  <2>2. CASE s # t
    BY <1>a, <2>1, <2>2 DEF Inv
  <2>3. CASE s = t
    <3>1. History(manifest'[t]) = new.revisions
      BY <1>a DEF Inv, TypeOK, History
    <3> QED BY <1>c, <2>1, <2>3, <3>1
  <2> QED BY <2>2, <2>3
<1>11. ChecksumsAgree'
  BY DEF Inv, WriteManifest, ChecksumsAgree
<1> QED BY <1>1, <1>2, <1>3, <1>4, <1>5, <1>6, <1>7, <1>8, <1>9, <1>10, <1>11 DEF Inv

\* The cache headers are brought up to date.
LEMMA UpdateHeadersKeeps ==
  ASSUME Inv, NEW p \in Publishers, UpdateHeaders(p)
  PROVE  Inv'
<1>m. /\ pub' \in [Publishers -> Publisher]
      /\ pub'[p].stage = "index"
      /\ pub'[p].env = pub[p].env /\ pub'[p].doc = pub[p].doc
      /\ pub'[p].bytes = pub[p].bytes /\ pub'[p].sdk = pub[p].sdk
      /\ \A q \in Publishers \ {p} : pub'[q] = pub[q]
  <2>1. "index" \in Stage
    BY DEF Stage, Locked
  <2> QED BY <2>1, StageMoves DEF UpdateHeaders, Inv
<1>1. TypeOK'
  <2>1. headers' \subseteq ({"revision"} \X Revisions) \cup ({"slug"} \X Slugs)
    BY PublisherAssumption DEF Inv, Equipped, UpdateHeaders, TypeOK, Document
  <2> QED BY <1>m, <2>1 DEF Inv, UpdateHeaders, TypeOK, ghosts
<1>2. LockHeld'
  BY DEF Inv, UpdateHeaders, To, LockHeld, Locked
<1>3. Equipped'
  BY DEF Inv, UpdateHeaders, To, Equipped, Locked
<1>4. Filed'
  BY DEF Inv, UpdateHeaders, Filed
<1>5. Written'
  BY DEF Inv, UpdateHeaders, To, Written, AfterConfig, AfterConfigSum, Locked
<1>6. HistoryFiled'
  BY DEF Inv, UpdateHeaders, HistoryFiled
<1>7. PointersFiled'
  BY DEF Inv, UpdateHeaders, PointersFiled
<1>8. Moving'
  <2>a. \A q \in Publishers \ {p} : pub[q].stage \notin Locked
    BY DEF Inv, LockHeld, UpdateHeaders, Locked
  <2>b. \A q \in Publishers \ {p} : pub'[q].stage \notin Pointed \cup Recorded
    BY <1>m, <2>a DEF Pointed, Recorded, Locked
  <2> DEFINE t == Slug[pub[p].env]
  <2>1. /\ latest[t] # Absent /\ latest[t].rev = pub[p].doc.rev /\ latestSum[t] = latest[t]
        /\ manifest[t] # Absent /\ manifest[t].current = pub[p].doc.rev
        /\ \E h \in manifest[t].revisions : h.rev = pub[p].doc.rev
    BY DEF Inv, Moving, UpdateHeaders, Pointed, Recorded
  <2>2. {<<"revision", pub[p].doc.rev>>, <<"slug", t>>} \subseteq headers'
    BY DEF UpdateHeaders
  <2>3. latest' = latest /\ latestSum' = latestSum /\ manifest' = manifest
    BY DEF UpdateHeaders
  <2> QED BY <1>m, <2>b, <2>1, <2>2, <2>3 DEF Moving, Pointed, Recorded
<1>9. SlugsSettled'
  BY DEF Inv, UpdateHeaders, To, ghosts, SlugsSettled, Settled, BuildIndex, LockHeld, Pointed
<1>10. PublicationsRecorded'
  BY DEF Inv, UpdateHeaders, ghosts, PublicationsRecorded
<1>11. ChecksumsAgree'
  BY DEF Inv, UpdateHeaders, ChecksumsAgree
<1> QED BY <1>1, <1>2, <1>3, <1>4, <1>5, <1>6, <1>7, <1>8, <1>9, <1>10, <1>11 DEF Inv

\* The index is written and the environment is settled.
LEMMA WriteIndexKeeps ==
  ASSUME Inv, NEW p \in Publishers, WriteIndex(p)
  PROVE  Inv'
<1> DEFINE t == Slug[pub[p].env]
<1>a. /\ t \in Slugs /\ pub[p].doc.rev \in Revisions /\ pub[p].stage = "index"
      /\ torn' = torn \ {t} /\ index' = BuildIndex
      /\ acked' = [acked EXCEPT ![t] = @ \cup {pub[p].doc.rev}]
  BY PublisherAssumption DEF Inv, Equipped, Document, WriteIndex
<1>1. TypeOK'
  <2>1. index' \in [Slugs -> Revisions \cup {Absent}]
    BY <1>a DEF Inv, TypeOK, BuildIndex, Pointer
  <2>2. torn' \subseteq Slugs /\ acked' \in [Slugs -> SUBSET Revisions]
    BY <1>a DEF Inv, TypeOK
  <2>3. pub' \in [Publishers -> Publisher] /\ holder' \in Publishers \cup {Nobody}
    BY DEF Inv, TypeOK, WriteIndex, Release, Publisher, Stage, Idle
  <2> QED BY <2>1, <2>2, <2>3 DEF Inv, TypeOK, WriteIndex
<1>2. LockHeld'
  BY DEF Inv, WriteIndex, TypeOK, LockHeld, Locked, Idle
<1>3. Equipped'
  BY DEF Inv, WriteIndex, Equipped, Locked, Idle
<1>4. Filed'
  BY DEF Inv, WriteIndex, Filed
<1>5. Written'
  BY DEF Inv, WriteIndex, Written, AfterConfig, AfterConfigSum, Locked, Idle
<1>6. HistoryFiled'
  BY DEF Inv, WriteIndex, HistoryFiled
<1>7. PointersFiled'
  BY DEF Inv, WriteIndex, PointersFiled
<1>8. Moving'
  <2>1. pub'[p].stage \notin Pointed /\ \A q \in Publishers \ {p} : pub'[q] = pub[q]
    BY DEF Inv, TypeOK, WriteIndex, Idle, Pointed
  <2>2. UNCHANGED <<latest, latestSum, manifest, headers>>
    BY DEF WriteIndex
  <2> QED BY <2>1, <2>2, MovingKept DEF Inv
<1>9. SlugsSettled'
  <2> SUFFICES ASSUME NEW s \in Slugs \ torn' PROVE Settled(s)'
    BY DEF SlugsSettled
  <2>1. index'[s] = BuildIndex'[s]
    BY <1>a DEF WriteIndex, BuildIndex
  <2>2. CASE s = t
    <3>1. /\ latest[t] # Absent /\ latest[t].rev = pub[p].doc.rev /\ latestSum[t] = latest[t]
          /\ manifest[t] # Absent /\ manifest[t].current = pub[p].doc.rev
          /\ {<<"revision", pub[p].doc.rev>>, <<"slug", t>>} \subseteq headers
      BY <1>a DEF Inv, Moving, Pointed, Recorded
    <3> QED BY <2>1, <2>2, <3>1 DEF Settled, WriteIndex
  <2>3. CASE s # t
    <3>1. \A q \in Publishers : pub[q].stage \in Pointed => Slug[pub[q].env] # s
      BY <1>a, <2>3 DEF Inv, LockHeld, Locked, Pointed
    <3> QED BY <1>a, <2>1, <2>3, <3>1 DEF Inv, SlugsSettled, Settled, WriteIndex
  <2> QED BY <2>2, <2>3
<1>10. PublicationsRecorded'
  <2>1. \E h \in History(manifest[t]) : h.rev = pub[p].doc.rev
    BY <1>a DEF Inv, Moving, Recorded, History
  <2> QED BY <1>a, <2>1 DEF Inv, TypeOK, PublicationsRecorded, WriteIndex
<1>11. ChecksumsAgree'
  BY DEF Inv, WriteIndex, ChecksumsAgree
<1> QED BY <1>1, <1>2, <1>3, <1>4, <1>5, <1>6, <1>7, <1>8, <1>9, <1>10, <1>11 DEF Inv

\* A publication stops at any file: its environment is torn.
LEMMA StopKeeps ==
  ASSUME Inv, NEW p \in Publishers, Stop(p)
  PROVE  Inv'
<1>1. TypeOK'
  BY PublisherAssumption DEF Inv, Stop, tree, Release, TypeOK, Equipped, Publisher, Stage, Idle
<1>2. LockHeld'
  BY DEF Inv, Stop, Release, TypeOK, LockHeld, Locked, Idle
<1>3. Equipped'
  BY DEF Inv, Stop, Equipped, Locked, Idle
<1>4. Filed'
  BY DEF Inv, Stop, tree, Filed
<1>5. Written'
  BY DEF Inv, Stop, tree, Written, AfterConfig, AfterConfigSum, Locked, Idle
<1>6. HistoryFiled'
  BY DEF Inv, Stop, tree, HistoryFiled
<1>7. PointersFiled'
  BY DEF Inv, Stop, tree, PointersFiled
<1>8. Moving'
  <2>1. pub'[p].stage \notin Pointed /\ \A q \in Publishers \ {p} : pub'[q] = pub[q]
    BY DEF Inv, TypeOK, Stop, Idle, Pointed
  <2>2. UNCHANGED <<latest, latestSum, manifest, headers>>
    BY DEF Stop, tree
  <2> QED BY <2>1, <2>2, MovingKept DEF Inv
<1>9. SlugsSettled'
  BY DEF Inv, Stop, tree, SlugsSettled, Settled, BuildIndex, Pointed
<1>10. PublicationsRecorded'
  BY DEF Inv, Stop, tree, PublicationsRecorded
<1>11. ChecksumsAgree'
  BY DEF Inv, Stop, tree, ChecksumsAgree
<1> QED BY <1>1, <1>2, <1>3, <1>4, <1>5, <1>6, <1>7, <1>8, <1>9, <1>10, <1>11 DEF Inv

\* The control plane and the package are not the publisher's to protect.
LEMMA ActivateKeeps ==
  ASSUME Inv, NEW e \in Environments, NEW r \in Revisions, Activate(e, r)
  PROVE  Inv'
<1> USE DEF Inv, Activate, tree, ghosts
<1>1. TypeOK'
  BY DEF TypeOK
<1>2. LockHeld' /\ Equipped' /\ Filed' /\ Written'
  BY DEF LockHeld, Equipped, Filed, Written
<1>3. HistoryFiled' /\ PointersFiled' /\ PublicationsRecorded' /\ ChecksumsAgree'
  BY DEF HistoryFiled, PointersFiled, PublicationsRecorded, ChecksumsAgree
<1>4. Moving' /\ SlugsSettled'
  BY DEF Moving, SlugsSettled, Settled, BuildIndex
<1> QED BY <1>1, <1>2, <1>3, <1>4

\* The SDK is built anew.
LEMMA RebuildKeeps ==
  ASSUME Inv, NEW a \in Assets, Rebuild(a)
  PROVE  Inv'
<1> USE DEF Inv, Rebuild, tree, ghosts
<1>1. TypeOK'
  BY DEF TypeOK
<1>2. LockHeld' /\ Equipped' /\ Filed' /\ Written'
  BY DEF LockHeld, Equipped, Filed, Written
<1>3. HistoryFiled' /\ PointersFiled' /\ PublicationsRecorded' /\ ChecksumsAgree'
  BY DEF HistoryFiled, PointersFiled, PublicationsRecorded, ChecksumsAgree
<1>4. Moving' /\ SlugsSettled'
  BY DEF Moving, SlugsSettled, Settled, BuildIndex
<1> QED BY <1>1, <1>2, <1>3, <1>4

-----------------------------------------------------------------------------
LEMMA InitInv == Init => Inv
<1> SUFFICES ASSUME Init PROVE Inv
  OBVIOUS
<1> USE DEF Init, Idle
<1>1. TypeOK
  BY DEF TypeOK, Publisher, Stage
<1>2. LockHeld /\ Equipped /\ Filed /\ Written
  BY DEF LockHeld, Equipped, Filed, Written, Locked, AfterConfig, AfterConfigSum
<1>3. HistoryFiled /\ PointersFiled /\ PublicationsRecorded /\ ChecksumsAgree
  BY DEF HistoryFiled, PointersFiled, PublicationsRecorded, ChecksumsAgree, History
<1>4. Moving /\ SlugsSettled
  BY DEF Moving, SlugsSettled, Settled, BuildIndex, Pointed, Recorded
<1> QED BY <1>1, <1>2, <1>3, <1>4 DEF Inv

\* Nothing happens.
LEMMA StutterKeeps == Inv /\ UNCHANGED vars => Inv'
<1> SUFFICES ASSUME Inv, UNCHANGED vars PROVE Inv'
  OBVIOUS
<1> USE DEF Inv, vars, tree, bounds, ghosts
<1>1. TypeOK'
  BY DEF TypeOK
<1>2. LockHeld' /\ Equipped' /\ Filed' /\ Written'
  BY DEF LockHeld, Equipped, Filed, Written
<1>3. HistoryFiled' /\ PointersFiled' /\ PublicationsRecorded' /\ ChecksumsAgree'
  BY DEF HistoryFiled, PointersFiled, PublicationsRecorded, ChecksumsAgree
<1>4. Moving' /\ SlugsSettled'
  BY DEF Moving, SlugsSettled, Settled, BuildIndex
<1> QED BY <1>1, <1>2, <1>3, <1>4

\* Every step keeps the invariant.
LEMMA NextKeeps == Inv /\ [Next]_vars => Inv'
<1> SUFFICES ASSUME Inv, Next PROVE Inv'
  BY StutterKeeps
<1>1. CASE \E e \in Environments, r \in Revisions : Activate(e, r)
  BY <1>1, ActivateKeeps
<1>2. CASE \E a \in Assets : Rebuild(a)
  BY <1>2, RebuildKeeps
<1>3. ASSUME NEW p \in Publishers, Publish(p) PROVE Inv'
  <2>1. CASE \E e \in Environments : BuildPublishedConfig(p, e)
    BY <2>1, BuildPublishedConfigKeeps
  <2>2. CASE ReuseExisting(p) \/ ReadBytes(p) \/ AcquireLock(p)
    BY <2>2, ReuseExistingKeeps, ReadBytesKeeps, AcquireLockKeeps
  <2>3. CASE WriteConfig(p) \/ WriteConfigSum(p) \/ WriteSdk(p) \/ WriteSdkSum(p)
    BY <2>3, WriteConfigKeeps, WriteConfigSumKeeps, WriteSdkKeeps, WriteSdkSumKeeps
  <2>4. CASE WriteLatest(p) \/ WriteLatestSum(p) \/ WriteManifest(p)
    BY <2>4, WriteLatestKeeps, WriteLatestSumKeeps, WriteManifestKeeps
  <2>5. CASE UpdateHeaders(p) \/ WriteIndex(p)
    BY <2>5, UpdateHeadersKeeps, WriteIndexKeeps
  <2>6. CASE Conflict(p) \/ Stop(p)
    BY <2>6, ConflictKeeps, StopKeeps
  <2> QED BY <1>3, <2>1, <2>2, <2>3, <2>4, <2>5, <2>6 DEF Publish
<1> QED BY <1>1, <1>2, <1>3 DEF Next

\* The invariant holds throughout.
LEMMA InvHolds == Spec => []Inv
BY InitInv, NextKeeps, PTL DEF Spec

-----------------------------------------------------------------------------
LEMMA InvVerifies == Inv => VerifyClean
<1> SUFFICES ASSUME Inv, holder = Nobody, NEW s \in Slugs \ torn, manifest[s] # Absent
             PROVE  Verify(s) = {}
  BY DEF VerifyClean, Verify
<1>1. \A p \in Publishers : pub[p].stage \notin Pointed
  BY PublisherAssumption DEF Inv, LockHeld, Locked, Pointed
<1>2. Settled(s)
  BY <1>1 DEF Inv, SlugsSettled
<1>3. latest[s] # Absent => latest[s].rev = manifest[s].current
  BY <1>2 DEF Settled
<1>4. \A h \in manifest[s].revisions :
        config[h.rev] # Absent /\ config[h.rev] = h.file /\ config[h.rev].rev = h.rev
  BY DEF Inv, HistoryFiled, History, Filed
<1> QED BY <1>3, <1>4 DEF Verify

\* The invariant makes the tree consistent.
LEMMA InvConsistent == Inv => TreeConsistent
<1> SUFFICES ASSUME Inv, holder = Nobody, torn = {} PROVE TreeConsistent
  BY DEF TreeConsistent
<1>1. \A p \in Publishers : pub[p].stage \notin Pointed
  BY PublisherAssumption DEF Inv, LockHeld, Locked, Pointed
<1>2. \A s \in Slugs : Settled(s)
  BY <1>1 DEF Inv, SlugsSettled
<1>3. index = BuildIndex
  BY <1>2 DEF Settled, Inv, TypeOK, BuildIndex
<1> QED BY <1>2, <1>3 DEF Settled, TreeConsistent, Inv, PointersFiled

\* publish_environment, for any publishers, environments and revisions and wherever
\* publications stop: verify() finds nothing wrong with what publications that ended
\* left behind, and one that returned stays in its environment's history.
THEOREM PublicationsSoundHolds == Spec => []PublicationsSound
<1>1. Inv => PublicationsSound
  BY InvVerifies DEF Inv, PublicationsSound
<1> QED BY <1>1, InvHolds, PTL

\* The files publish_environment writes one by one agree whenever nobody is
\* publishing and nobody stopped half-way, and a checksum file always agrees with
\* the artefact beside it.
THEOREM TreeSoundHolds == Spec => []TreeSound
<1>1. Inv => TreeSound
  BY InvConsistent DEF Inv, TreeSound
<1> QED BY <1>1, InvHolds, PTL

-----------------------------------------------------------------------------
LEMMA RefinesInit == Init => Cdn!Init
BY DEF Init, Cdn!Init, Pointers

\* Every step is one of the immutable CDN or leaves it alone.
LEMMA RefinesStep ==
  ASSUME Inv, [Next]_vars
  PROVE  [Cdn!Next]_<<config, Pointers>>
<1> DEFINE Goal == [Cdn!Next]_<<config, Pointers>>
<1>a. ASSUME UNCHANGED <<config, latest>> PROVE Goal
  BY <1>a DEF Pointers
<1>1. CASE UNCHANGED vars
  BY <1>a, <1>1 DEF vars, tree
<1>2. CASE \E e \in Environments, r \in Revisions : Activate(e, r)
  BY <1>a, <1>2 DEF Activate, tree
<1>3. CASE \E a \in Assets : Rebuild(a)
  BY <1>a, <1>3 DEF Rebuild, tree
<1>4. ASSUME NEW p \in Publishers, Publish(p) PROVE Goal
  <2> DEFINE r == pub[p].doc.rev
             s == Slug[pub[p].env]
  <2>1. CASE \E e \in Environments : BuildPublishedConfig(p, e)
    BY <1>a, <2>1 DEF BuildPublishedConfig, tree
  <2>2. CASE ReuseExisting(p) \/ ReadBytes(p) \/ AcquireLock(p) \/ Conflict(p) \/ Stop(p)
    BY <1>a, <2>2 DEF ReuseExisting, ReadBytes, AcquireLock, Conflict, Stop, tree
  <2>3. CASE WriteConfigSum(p) \/ WriteSdk(p) \/ WriteSdkSum(p)
    BY <1>a, <2>3 DEF WriteConfigSum, WriteSdk, WriteSdkSum
  <2>4. CASE WriteLatestSum(p) \/ WriteManifest(p) \/ UpdateHeaders(p) \/ WriteIndex(p)
    BY <1>a, <2>4 DEF WriteLatestSum, WriteManifest, UpdateHeaders, WriteIndex
  <2>5. CASE WriteConfig(p)
    \* An artefact appears, or the one that is there is written again.
    <3>1. r \in Revisions /\ pub[p].bytes \in Document
      BY <2>5 DEF WriteConfig, Inv, Equipped, Locked, Document
    <3>2. Pointers' = Pointers
      BY <2>5 DEF WriteConfig, Pointers
    <3>3. CASE config[r] = Absent
      <4>1. config' = [config EXCEPT ![r] = pub[p].bytes]
        BY <2>5 DEF WriteConfig
      <4> QED BY <3>1, <3>2, <3>3, <4>1 DEF Cdn!Next, Cdn!Store
    <3>4. CASE config[r] = pub[p].bytes
      <4>1. config' = config
        BY <2>5, <3>1, <3>4 DEF WriteConfig, Inv, TypeOK
      <4> QED BY <3>2, <4>1
    <3> QED BY <2>5, <3>3, <3>4 DEF WriteConfig, Writable
  <2>6. CASE WriteLatest(p)
    \* A pointer moves to an artefact that is there.
    <3>1. r \in Revisions /\ s \in Slugs /\ config[r] = pub[p].bytes /\ pub[p].bytes \in Document
      BY <2>6, PublisherAssumption
      DEF WriteLatest, Inv, Equipped, Written, AfterConfig, Locked, Document
    <3>2. config[r] # Absent /\ config' = config
      BY <2>6, <3>1, PublisherAssumption DEF WriteLatest
    <3>3. latest' = [latest EXCEPT ![s] = [rev |-> r, env |-> pub[p].doc.env,
                                           file |-> pub[p].bytes, integrity |-> pub[p].doc]]
      BY <2>6 DEF WriteLatest
    <3>4. latest'[s] # Absent
      <4>1. latest'[s] \in Pointer
        BY <2>6, <3>1, <3>3 DEF WriteLatest, Inv, TypeOK, Equipped, Document, Pointer
      <4> QED BY <4>1, PublisherAssumption
    <3>5. Pointers' = [Pointers EXCEPT ![s] = [rev |-> r, sum |-> config[r]]]
      BY <3>1, <3>3, <3>4 DEF Inv, TypeOK, Pointers
    <3> QED BY <3>1, <3>2, <3>5 DEF Cdn!Next, Cdn!Point
  <2> QED BY <1>4, <2>1, <2>2, <2>3, <2>4, <2>5, <2>6 DEF Publish
<1> QED BY <1>1, <1>2, <1>3, <1>4 DEF Next

\* To its readers the tree publish_environment writes is an immutable CDN, for any
\* number of publishers that stop anywhere: artefacts never change or vanish, and a
\* pointer always carries the checksum of an artefact that is there.
THEOREM ReadersSeeImmutableCdnHolds == Spec => ReadersSeeImmutableCdn
BY InvHolds, RefinesInit, RefinesStep, PTL DEF Spec, ReadersSeeImmutableCdn, Cdn!Spec
=============================================================================
