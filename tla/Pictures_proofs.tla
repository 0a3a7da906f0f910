--------------------------- MODULE Pictures_proofs ---------------------------
(***************************************************************************)
(* Theorems about the pictures of the CDN, for any number of requests,     *)
(* domains, pictures and owners.                                           *)
(***************************************************************************)
EXTENDS Pictures, TLAPS

Records == Pictures \cup {None, Invalid}
Images == Pictures \cup {None}
Contents == [image : Images, label : {"none", "old", "new"}]

\* Between the first look at the bucket and the last upload.
Working == {"base?", "overlay?", "fetch", "image", "stored", "plain", "over"}

\* Where the code of each program lets it be.
Places(c) ==
    Working \cup (CASE c \in Requests -> {"idle", "find", "generate", "answered"}
                   [] c = Worker -> {"idle", "save"}
                   [] c = Script -> {"idle", "label?"})

Generated == {"default", "none", "animal", "error", "on chain", "off chain"}

Task ==
    [pc : Working \cup {"idle", "find", "generate", "answered", "save", "label?"},
     domain : Domains \cup {None}, owner : Addresses \cup {None}, record : Records,
     picture : Records, overlay : BOOLEAN, base : BOOLEAN, over : BOOLEAN,
     image : Images, again : BOOLEAN, sure : BOOLEAN, answer : Images \cup Generated]

\* An owner of the domain has had the NFT, where that is asked.
Verified(H, t) ==
    t.picture \in EthPictures \/ Owners[t.domain] \cap H[t.picture] # {}

\* What a task t of program c knows of the files S of the bucket and of those who
\* have owned the NFTs, H.  Nothing is deleted: what it saw stored is still there,
\* and so is the picture with the old label that the script goes on with.
Knows(S, H, c, t) ==
    /\ t.pc # "idle" => t.domain \in Domains
    /\ t.pc \in Working \cup {"find", "save", "label?"} =>
         /\ t.owner \in Owners[t.domain]
         /\ t.picture \in Named[t.domain] \cup {None}
         /\ t.record = t.picture
    /\ t.pc \in Working \cup {"find"} => t.picture \in Pictures
    /\ t.pc \in Working =>
         /\ ~t.sure
         /\ t.base => Plain(t.picture) \in S
         /\ t.over => Overlaid(t.picture, t.domain) \in S
         /\ c = Script => Overlaid(t.picture, t.domain) \in S
    /\ t.pc \in {"plain", "over"} \/ (t.pc = "image" /\ t.image # None) =>
         t.image = t.picture /\ Verified(H, t)
    /\ t.pc \in {"find", "label?", "base?", "overlay?", "fetch", "stored"} => t.image = None
    /\ t.pc = "stored" => c = Script
    /\ t.pc \in {"find", "label?", "base?"} => ~t.base /\ ~t.over
    /\ t.pc = "over" => Plain(t.picture) \in S
    /\ t.pc = "find" /\ t.sure => Wanted(t) \in S
    /\ t.pc \in {"label?", "generate"} => ~t.sure
    /\ t.pc = "answered" /\ t.sure => t.answer \in {t.picture, "error"}

TaskOK(S, H, c, t) == t \in Task /\ t.pc \in Places(c) /\ Knows(S, H, c, t)

StoredFiles == {f \in FileNames : Stored(f)}

OwnersOK ==
    /\ holder \in [Pictures -> Addresses]
    /\ held \in [Pictures -> SUBSET Addresses]
    /\ \A p \in Pictures : holder[p] \in Holders[p] /\ holder[p] \in held[p]

RowsOK ==
    /\ rows \in [Domains -> [owner : Addresses, record : Records]]
    /\ \A d \in Domains :
          rows[d].owner \in Owners[d] /\ rows[d].record \in Named[d] \cup {None}

\* The invariants that the runs check, and the names and contents of files.
FilesOK ==
    /\ files \in [FileNames -> Contents]
    /\ \A f \in FileNames : Stored(f) => files[f].image = f[1]
    /\ \A f \in FileNames : files[f].label # "none" => f[2] # None /\ Stored(f)
    /\ PlainWithOverlaid
    /\ StoredVerified

TasksOK ==
    /\ task \in [Programs -> Task]
    /\ \A c \in Programs : TaskOK(StoredFiles, held, c, task[c])

PicturesInv == OwnersOK /\ RowsOK /\ FilesOK /\ TasksOK

-----------------------------------------------------------------------------
(* Lemmas about files and tasks *)

LEMMA FileParts ==
    ASSUME NEW p \in Pictures, NEW d \in Domains
    PROVE  /\ Plain(p) \in FileNames /\ Plain(p)[1] = p /\ Plain(p)[2] = None
           /\ Overlaid(p, d) \in FileNames
           /\ Overlaid(p, d)[1] = p /\ Overlaid(p, d)[2] = d
           /\ p # None /\ d # None
BY PicturesAssumption DEF Plain, Overlaid, FileNames

\* A file of the bucket is a picture, with the name of a domain or without.
LEMMA FileKinds ==
    ASSUME NEW f \in FileNames
    PROVE  \/ f[1] \in Pictures /\ f[2] = None /\ f = Plain(f[1])
           \/ f[1] \in Pictures /\ f[2] \in Domains /\ f = Overlaid(f[1], f[2])
BY DEF Plain, Overlaid, FileNames

\* What a program knows stays true, for no file and no former owner is forgotten.
LEMMA KnowsStill ==
    ASSUME NEW S, NEW S2, S \subseteq S2, NEW H, NEW H2,
           \A p \in Pictures : H[p] \subseteq H2[p],
           NEW c, NEW t, TaskOK(S, H, c, t)
    PROVE  TaskOK(S2, H2, c, t)
<1>1. t.picture \in Pictures /\ Verified(H, t) => Verified(H2, t)
  BY DEF Verified
<1>2. t.pc \in {"plain", "over", "image"} => t.picture \in Pictures
  BY DEF TaskOK, Knows, Working
<1> QED
  BY <1>1, <1>2 DEF TaskOK, Knows

\* A step of program c that only moves its own task.
LEMMA TaskStep ==
    ASSUME PicturesInv, NEW c \in Programs, NEW u,
           task' = [task EXCEPT ![c] = u], UNCHANGED <<holder, held, rows, files>>,
           TaskOK(StoredFiles, held, c, u)
    PROVE  PicturesInv'
<1>1. OwnersOK' /\ RowsOK'
  BY DEF PicturesInv, OwnersOK, RowsOK
<1>2. FilesOK'
  BY DEF PicturesInv, FilesOK, PlainWithOverlaid, StoredVerified, Stored
<1>3. StoredFiles' = StoredFiles
  BY DEF StoredFiles, Stored
<1>4. task' \in [Programs -> Task]
  BY DEF PicturesInv, TasksOK, TaskOK
<1>5. \A b \in Programs : TaskOK(StoredFiles, held, b, task'[b])
  BY DEF PicturesInv, TasksOK
<1> QED
  BY <1>1, <1>2, <1>3, <1>4, <1>5 DEF PicturesInv, TasksOK

LEMMA IdleOK ==
    ASSUME NEW S, NEW H, NEW c \in Programs
    PROVE  TaskOK(S, H, c, Idle)
BY DEF TaskOK, Task, Knows, Idle, Places, Programs, Working, Images, Records, Generated

\* A task for a row.
LEMMA AnswerOK ==
    ASSUME NEW S, NEW H, NEW c \in Requests, NEW t \in Task, t.domain \in Domains,
           NEW answer \in Images \cup Generated,
           t.sure => answer \in {t.picture, "error"}
    PROVE  TaskOK(S, H, c, Answer(t, answer))
<1> DEFINE u == Answer(t, answer)
<1>1. u \in Task
  BY ZenonT(60) DEF Answer, Task, Idle, Images, Records
<1>2. /\ u.pc = "answered" /\ u.domain = t.domain /\ u.picture = t.picture
      /\ u.sure = t.sure /\ u.answer = answer
  BY DEF Answer, Idle
<1> HIDE DEF u
<1>3. u.pc \in Places(c)
  BY <1>2, PicturesAssumption DEF Places
<1>4. Knows(S, H, c, u)
  BY <1>2 DEF Knows, Working
<1> QED
  BY <1>1, <1>3, <1>4 DEF TaskOK, u

\* What a program does after cacheSocialPictureInCDN.
LEMMA CachedOK ==
    ASSUME NEW S, NEW H, NEW c \in Programs, NEW t \in Task,
           t.domain \in Domains, t.owner \in Owners[t.domain],
           t.picture \in Named[t.domain], t.record = t.picture, t.picture \in Pictures,
           t.sure => Wanted(t) \in S
    PROVE  TaskOK(S, H, c, Cached(c, t))
<1> DEFINE u == [t EXCEPT !.base = FALSE, !.over = FALSE, !.image = None]
<1>1. u \in Task
  BY DEF Task, Images
<1>2. CASE c \in Requests
  <2>1. Cached(c, t) = [u EXCEPT !.pc = "find", !.again = TRUE]
    BY <1>2, PicturesAssumption DEF Cached
  <2> QED
    <3>1. Cached(c, t) \in Task
      BY <1>1, <2>1 DEF Task
    <3>2. /\ Cached(c, t).pc = "find" /\ Cached(c, t).domain = t.domain
          /\ Cached(c, t).owner = t.owner /\ Cached(c, t).record = t.record
          /\ Cached(c, t).picture = t.picture /\ Cached(c, t).sure = t.sure
          /\ Cached(c, t).overlay = t.overlay /\ Cached(c, t).image = None
          /\ Cached(c, t).base = FALSE /\ Cached(c, t).over = FALSE
      BY <1>1, <2>1 DEF Task
    <3>3. "find" \in Places(c)
      BY <1>2, PicturesAssumption DEF Places
    <3>4. Knows(S, H, c, Cached(c, t))
      BY <3>2 DEF Knows, Working, Wanted
    <3> QED
      BY <3>1, <3>2, <3>3, <3>4 DEF TaskOK
<1>3. CASE c = Worker
  <2>1. Cached(c, t) = [u EXCEPT !.pc = "save"]
    BY <1>3, PicturesAssumption DEF Cached
  <2> QED
    <3>1. Cached(c, t) \in Task
      BY <1>1, <2>1 DEF Task
    <3>2. /\ Cached(c, t).pc = "save" /\ Cached(c, t).domain = t.domain
          /\ Cached(c, t).owner = t.owner /\ Cached(c, t).record = t.record
          /\ Cached(c, t).picture = t.picture
      BY <1>1, <2>1 DEF Task
    <3>3. "save" \in Places(c)
      BY <1>3, PicturesAssumption DEF Places
    <3>4. Knows(S, H, c, Cached(c, t))
      BY <3>2 DEF Knows, Working
    <3> QED
      BY <3>1, <3>2, <3>3, <3>4 DEF TaskOK
<1>4. CASE c = Script
  <2>1. Cached(c, t) = Idle
    BY <1>4, PicturesAssumption DEF Cached
  <2> QED
    BY <2>1, IdleOK
<1> QED
  BY <1>2, <1>3, <1>4 DEF Programs

\* A task between the first look and the last upload.
LEMMA AtWork ==
    ASSUME PicturesInv, NEW c \in Programs, task[c].pc \in Working
    PROVE  /\ task[c] \in Task /\ ~task[c].sure
           /\ task[c].domain \in Domains /\ task[c].owner \in Owners[task[c].domain]
           /\ task[c].picture \in Pictures /\ task[c].picture \in Named[task[c].domain]
           /\ task[c].record = task[c].picture
           /\ task[c].base => Plain(task[c].picture) \in StoredFiles
           /\ task[c].over => Overlaid(task[c].picture, task[c].domain) \in StoredFiles
           /\ c = Script => Overlaid(task[c].picture, task[c].domain) \in StoredFiles
           /\ task[c].pc \in {"base?", "overlay?", "fetch", "stored"} => task[c].image = None
           /\ task[c].pc = "stored" => c = Script
           /\ task[c].pc = "over" => Plain(task[c].picture) \in StoredFiles
           /\ task[c].pc \in {"plain", "over"} \/ (task[c].pc = "image" /\ task[c].image # None) =>
                 task[c].image = task[c].picture /\ Verified(held, task[c])
<1>1. TaskOK(StoredFiles, held, c, task[c])
  BY DEF PicturesInv, TasksOK
<1> QED
  BY <1>1, PicturesAssumption DEF TaskOK, Knows, Working

\* The same of a task that is made from it.
LEMMA WorksOn ==
    ASSUME NEW S, NEW H, NEW c \in Programs, NEW u \in Task, u.pc \in Working, ~u.sure,
           u.domain \in Domains, u.owner \in Owners[u.domain],
           u.picture \in Named[u.domain], u.picture \in Pictures, u.record = u.picture,
           u.base => Plain(u.picture) \in S,
           u.over => Overlaid(u.picture, u.domain) \in S,
           c = Script => Overlaid(u.picture, u.domain) \in S,
           u.pc \in {"base?", "overlay?", "fetch", "stored"} => u.image = None,
           u.pc = "stored" => c = Script,
           u.pc = "base?" => ~u.base /\ ~u.over,
           u.pc = "over" => Plain(u.picture) \in S,
           u.pc \in {"plain", "over"} \/ (u.pc = "image" /\ u.image # None) =>
                 u.image = u.picture /\ Verified(H, u)
    PROVE  TaskOK(S, H, c, u)
<1>1. u.pc \in Places(c)
  BY DEF Places
<1>2. Knows(S, H, c, u)
  BY DEF Knows, Working
<1> QED
  BY <1>1, <1>2 DEF TaskOK

\* A program that gives up, also before it began to store the picture.
LEMMA FailedOK ==
    ASSUME PicturesInv, NEW c \in Programs, task[c].pc \in Working \cup {"find", "label?"}
    PROVE  TaskOK(StoredFiles, held, c, Failed(c, task[c]))
<1>1. TaskOK(StoredFiles, held, c, task[c])
  BY DEF PicturesInv, TasksOK
<1>2. CASE c \in Requests
  <2>1. task[c] \in Task /\ task[c].domain \in Domains
    BY <1>1 DEF TaskOK, Knows, Working
  <2> QED
    BY <1>2, <2>1, AnswerOK DEF Failed, Generated
<1>3. CASE c = Worker
  <2>1. c \notin Requests /\ task[c].pc \in Working
    BY <1>1, <1>3, PicturesAssumption DEF TaskOK, Places, Working
  <2> QED
    BY <2>1, AtWork, CachedOK DEF Failed
<1>4. CASE c = Script
  <2>1. Failed(c, task[c]) = Idle
    BY <1>4, PicturesAssumption DEF Failed, Cached
  <2> QED
    BY <2>1, IdleOK
<1> QED
  BY <1>2, <1>3, <1>4 DEF Programs

\* Both files are there: a request will find what it wants.
LEMMA CompleteOK ==
    ASSUME NEW S, NEW H, NEW c \in Programs, NEW t \in Task,
           t.domain \in Domains, t.owner \in Owners[t.domain],
           t.picture \in Named[t.domain], t.record = t.picture, t.picture \in Pictures,
           Plain(t.picture) \in S, Overlaid(t.picture, t.domain) \in S
    PROVE  TaskOK(S, H, c, Complete(c, t))
<1>0. SUFFICES ASSUME NEW b \in BOOLEAN
               PROVE  TaskOK(S, H, c, Cached(c, [t EXCEPT !.sure = b]))
  <2>1. (c \in Requests) \in BOOLEAN
    OBVIOUS
  <2> QED
    BY <2>1, Zenon DEF Complete
<1> DEFINE u == [t EXCEPT !.sure = b]
<1>1. u \in Task
  BY DEF Task
<1>2. /\ u.domain = t.domain /\ u.owner = t.owner /\ u.picture = t.picture
      /\ u.record = t.record /\ u.overlay = t.overlay
  BY DEF Task
<1> HIDE DEF u
<1>3. Wanted(u) \in S
  BY <1>2 DEF Wanted
<1>4. TaskOK(S, H, c, Cached(c, u))
  BY <1>1, <1>2, <1>3, CachedOK
<1> QED
  BY <1>4 DEF u

-----------------------------------------------------------------------------
(* Each step of cacheSocialPictureInCDN keeps the invariant *)

LEMMA CheckBaseInv ==
    ASSUME PicturesInv, NEW c \in Programs, CheckBase(c)
    PROVE  PicturesInv'
<1> DEFINE t == task[c]
           u == [t EXCEPT !.pc = "overlay?", !.base = Stored(Plain(t.picture))]
<1>1. task' = [task EXCEPT ![c] = u] /\ UNCHANGED <<holder, held, rows, files>>
  BY DEF CheckBase, PicturesInv, TasksOK
<1>2. t.pc \in Working
  BY DEF CheckBase, Working
<1>3. Stored(Plain(t.picture)) \in BOOLEAN
      /\ (Stored(Plain(t.picture)) <=> Plain(t.picture) \in StoredFiles)
  BY <1>2, AtWork, FileParts DEF Stored, StoredFiles
<1>4. t \in Task
  BY <1>2, AtWork
<1>5. u \in Task
  BY <1>3, <1>4 DEF Task, Working
<1>6. /\ u.pc = "overlay?" /\ (u.base <=> Stored(Plain(t.picture))) /\ u.over = t.over
      /\ u.domain = t.domain /\ u.owner = t.owner /\ u.picture = t.picture
      /\ u.record = t.record /\ u.sure = t.sure /\ u.image = t.image
  BY <1>4 DEF Task
<1> HIDE DEF u
<1>7. TaskOK(StoredFiles, held, c, u)
  <2>1. t.pc = "base?"
    BY DEF CheckBase
  <2> QED
    BY <1>2, <1>3, <1>5, <1>6, <2>1, AtWork, WorksOn DEF Working
<1> QED
  BY <1>1, <1>7, TaskStep

LEMMA CheckOverlayInv ==
    ASSUME PicturesInv, NEW c \in Programs, CheckOverlay(c)
    PROVE  PicturesInv'
<1> DEFINE over == Stored(Overlaid(task[c].picture, task[c].domain))
           u == [task[c] EXCEPT !.pc = "fetch", !.over = over]
<1>1. task[c].pc \in Working /\ task[c].pc = "overlay?"
  BY DEF CheckOverlay, Working
<1>2. over \in BOOLEAN
      /\ (over <=> Overlaid(task[c].picture, task[c].domain) \in StoredFiles)
  BY <1>1, AtWork, FileParts DEF Stored, StoredFiles
<1> HIDE DEF over
<1>3. u \in Task
  <2>1. task[c] \in Task
    BY <1>1, AtWork
  <2> QED
    BY <1>2, <2>1 DEF Task, Working
<1>4. /\ u.pc = "fetch" /\ u.base = task[c].base /\ u.over = over
      /\ u.domain = task[c].domain /\ u.owner = task[c].owner
      /\ u.picture = task[c].picture /\ u.record = task[c].record
      /\ u.sure = task[c].sure /\ u.image = task[c].image
  <2>1. task[c] \in Task
    BY <1>1, AtWork
  <2> QED
    BY <2>1 DEF Task
<1>5. /\ task' = [task EXCEPT ![c] =
                    IF u.base /\ ~WritesOverlay(c, u) THEN Complete(c, u) ELSE u]
      /\ UNCHANGED <<holder, held, rows, files>>
  BY DEF CheckOverlay, over
<1> HIDE DEF u
<1>6. CASE u.base /\ ~WritesOverlay(c, u)
  <2>1. Plain(u.picture) \in StoredFiles /\ Overlaid(u.picture, u.domain) \in StoredFiles
    BY <1>1, <1>2, <1>4, <1>6, AtWork DEF WritesOverlay
  <2>2. TaskOK(StoredFiles, held, c, Complete(c, u))
    BY <1>1, <1>3, <1>4, <2>1, AtWork, CompleteOK
  <2> QED
    BY <1>5, <1>6, <2>2, TaskStep
<1>7. CASE ~(u.base /\ ~WritesOverlay(c, u))
  <2>1. TaskOK(StoredFiles, held, c, u)
    BY <1>1, <1>2, <1>3, <1>4, AtWork, WorksOn DEF Working
  <2> QED
    BY <1>5, <1>7, <2>1, TaskStep
<1> QED
  BY <1>6, <1>7

\* The image that a record names is verified.
LEMMA ImageVerified ==
    ASSUME PicturesInv, NEW c \in Programs, task[c].pc \in Working,
           ImageOf(task[c]) # None
    PROVE  ImageOf(task[c]) = task[c].picture /\ Verified(held, task[c])
<1> DEFINE t == task[c]
<1>1. t.record = t.picture /\ t.picture \in Pictures /\ t.owner \in Owners[t.domain]
  BY AtWork
<1>2. ImageOf(t) = t.picture /\ Matches(t)
  BY <1>1 DEF ImageOf
<1>3. holder[t.picture] \in held[t.picture]
  BY <1>1 DEF PicturesInv, OwnersOK
<1> QED
  BY <1>1, <1>2, <1>3 DEF Verified, Matches

LEMMA FetchMetadataInv ==
    ASSUME PicturesInv, NEW c \in Programs, FetchMetadata(c)
    PROVE  PicturesInv'
<1>1. task[c].pc \in Working
  BY DEF FetchMetadata, Working
<1>2. PICK image \in {None, ImageOf(task[c])} :
        task' = [task EXCEPT ![c].pc = "image", ![c].image = image]
  BY DEF FetchMetadata
<1> DEFINE u == [task[c] EXCEPT !.pc = "image", !.image = image]
<1>3. task' = [task EXCEPT ![c] = u] /\ UNCHANGED <<holder, held, rows, files>>
  BY <1>2 DEF FetchMetadata, PicturesInv, TasksOK
<1>4. image # None => image = task[c].picture /\ Verified(held, task[c])
  BY <1>1, ImageVerified
<1>5. image \in Images
  BY <1>1, <1>4, AtWork DEF Images
<1>6. u \in Task
  <2>1. task[c] \in Task
    BY <1>1, AtWork
  <2> QED
    BY <1>5, <2>1 DEF Task, Working
<1>7. /\ u.pc = "image" /\ u.image = image /\ u.base = task[c].base
      /\ u.over = task[c].over /\ u.domain = task[c].domain
      /\ u.owner = task[c].owner /\ u.picture = task[c].picture
      /\ u.record = task[c].record /\ u.sure = task[c].sure
  <2>1. task[c] \in Task
    BY <1>1, AtWork
  <2> QED
    BY <2>1 DEF Task
<1> HIDE DEF u
<1>8. Verified(held, u) <=> Verified(held, task[c])
  BY <1>7 DEF Verified
<1>9. TaskOK(StoredFiles, held, c, u)
  BY <1>1, <1>4, <1>6, <1>7, <1>8, AtWork, WorksOn DEF Working
<1> QED
  BY <1>3, <1>9, TaskStep

LEMMA FailureInv ==
    ASSUME PicturesInv, NEW c \in Programs,
           TokenUriFails(c) \/ UploadFails(c) \/ BucketFails(c)
    PROVE  PicturesInv'
<1>1. /\ task[c].pc \in Working \cup {"find", "label?"}
      /\ task' = [task EXCEPT ![c] = Failed(c, task[c])]
      /\ UNCHANGED <<holder, held, rows, files>>
  BY DEF TokenUriFails, UploadFails, BucketFails, Working
<1> QED
  BY <1>1, FailedOK, TaskStep

LEMMA TimeOutInv ==
    ASSUME PicturesInv, NEW c \in Programs, TimeOut(c)
    PROVE  PicturesInv'
<1> DEFINE u == [task[c] EXCEPT !.pc = "image"]
<1>1. task[c].pc \in Working
  BY DEF TimeOut, Working
<1>2. task' = [task EXCEPT ![c] = u] /\ UNCHANGED <<holder, held, rows, files>>
  BY DEF TimeOut, PicturesInv, TasksOK
<1>3. u \in Task
  <2>1. task[c] \in Task
    BY <1>1, AtWork
  <2> QED
    BY <2>1 DEF Task, Working
<1>4. /\ u.pc = "image" /\ u.image = task[c].image /\ u.base = task[c].base
      /\ u.over = task[c].over /\ u.domain = task[c].domain
      /\ u.owner = task[c].owner /\ u.picture = task[c].picture
      /\ u.record = task[c].record /\ u.sure = task[c].sure
  <2>1. task[c] \in Task
    BY <1>1, AtWork
  <2> QED
    BY <2>1 DEF Task
<1>5. task[c].image = None
  BY <1>1, AtWork DEF TimeOut
<1> HIDE DEF u
<1>6. TaskOK(StoredFiles, held, c, u)
  BY <1>1, <1>3, <1>4, <1>5, AtWork, WorksOn DEF Working
<1> QED
  BY <1>2, <1>6, TaskStep

\* With the image of its picture a program goes on to the uploads.
LEMMA WithImageOK ==
    ASSUME PicturesInv, NEW c \in Programs, task[c].pc \in Working,
           Verified(held, task[c])
    PROVE  TaskOK(StoredFiles, held, c, WithImage(task[c], task[c].picture))
<1> DEFINE where == IF task[c].base THEN "over" ELSE "plain"
           u == [task[c] EXCEPT !.image = task[c].picture, !.pc = where]
<1>1. WithImage(task[c], task[c].picture) = u
  BY DEF WithImage
<1>2. /\ where \in {"over", "plain"}
      /\ where = "over" => Plain(task[c].picture) \in StoredFiles
  BY AtWork
<1> HIDE DEF where
<1>3. u \in Task
  <2>1. task[c] \in Task /\ task[c].picture \in Images
    BY AtWork DEF Images
  <2> QED
    BY <1>2, <2>1 DEF Task, Working
<1>4. /\ u.pc = where /\ u.image = task[c].picture /\ u.base = task[c].base
      /\ u.over = task[c].over /\ u.domain = task[c].domain
      /\ u.owner = task[c].owner /\ u.picture = task[c].picture
      /\ u.record = task[c].record /\ u.sure = task[c].sure
  <2>1. task[c] \in Task
    BY AtWork
  <2> QED
    BY <2>1 DEF Task
<1> HIDE DEF u
<1>5. Verified(held, u)
  BY <1>4 DEF Verified
<1>6. TaskOK(StoredFiles, held, c, u)
  BY <1>2, <1>3, <1>4, <1>5, AtWork, WorksOn DEF Working
<1> QED
  BY <1>1, <1>6

LEMMA FetchImageInv ==
    ASSUME PicturesInv, NEW c \in Programs, FetchImage(c)
    PROVE  PicturesInv'
<1>1. task[c].pc \in Working /\ task[c].pc = "image" /\ task[c].image # None
  BY DEF FetchImage, Working
<1>2. task[c].image = task[c].picture /\ Verified(held, task[c])
  BY <1>1, AtWork
<1>3. /\ task' = [task EXCEPT ![c] = WithImage(task[c], task[c].picture)]
      /\ UNCHANGED <<holder, held, rows, files>>
  BY <1>2 DEF FetchImage
<1> QED
  BY <1>1, <1>2, <1>3, WithImageOK, TaskStep

\* Without an image the script turns to the stored file, and the others are done.
LEMMA ImageFailsInv ==
    ASSUME PicturesInv, NEW c \in Programs, ImageFails(c)
    PROVE  PicturesInv'
<1>1. task[c].pc \in Working
  BY DEF ImageFails, Working
<1>2. /\ task' = [task EXCEPT ![c] = Fallback(c, task[c])]
      /\ UNCHANGED <<holder, held, rows, files>>
  BY DEF ImageFails
<1>3. CASE c = Script
  <2> DEFINE u == [task[c] EXCEPT !.pc = "stored", !.image = None]
  <2>1. Fallback(c, task[c]) = u
    BY <1>3 DEF Fallback, Overrides
  <2>2. task[c] \in Task
    BY <1>1, AtWork
  <2>3. u \in Task
    BY <2>2 DEF Task, Working, Images
  <2>4. /\ u.pc = "stored" /\ u.image = None /\ u.base = task[c].base
        /\ u.over = task[c].over /\ u.domain = task[c].domain
        /\ u.owner = task[c].owner /\ u.picture = task[c].picture
        /\ u.record = task[c].record /\ u.sure = task[c].sure
    BY <2>2 DEF Task
  <2> HIDE DEF u
  <2>5. TaskOK(StoredFiles, held, c, u)
    BY <1>1, <1>3, <2>3, <2>4, AtWork, WorksOn DEF Working
  <2> QED
    BY <1>2, <2>1, <2>5, TaskStep
<1>4. CASE c # Script
  <2>1. Fallback(c, task[c]) = Cached(c, task[c])
    BY <1>4 DEF Fallback, Overrides
  <2>2. TaskOK(StoredFiles, held, c, Cached(c, task[c]))
    BY <1>1, AtWork, CachedOK
  <2> QED
    BY <1>2, <2>1, <2>2, TaskStep
<1> QED
  BY <1>3, <1>4

LEMMA ImageIsEmptyInv ==
    ASSUME PicturesInv, NEW c \in Programs, ImageIsEmpty(c)
    PROVE  PicturesInv'
<1>1. /\ task[c].pc \in Working
      /\ task' = [task EXCEPT ![c] = Cached(c, task[c])]
      /\ UNCHANGED <<holder, held, rows, files>>
  BY DEF ImageIsEmpty, Working
<1>2. TaskOK(StoredFiles, held, c, Cached(c, task[c]))
  BY <1>1, AtWork, CachedOK
<1> QED
  BY <1>1, <1>2, TaskStep

\* The stored file has the image of the picture, and the picture with the old label
\* that the script looks at is verified.
LEMMA ReadStoredInv ==
    ASSUME PicturesInv, NEW c \in Programs, ReadStored(c)
    PROVE  PicturesInv'
<1> DEFINE p == task[c].picture
           d == task[c].domain
<1>1. task[c].pc \in Working /\ task[c].pc = "stored" /\ Stored(Plain(p))
  BY DEF ReadStored, Working
<1>2. p \in Pictures /\ d \in Domains /\ Stored(Overlaid(p, d))
  BY <1>1, AtWork DEF StoredFiles
<1>3. files[Plain(p)].image = p
  BY <1>1, <1>2, FileParts DEF PicturesInv, FilesOK
<1>4. Verified(held, task[c])
  BY <1>2 DEF PicturesInv, FilesOK, StoredVerified, Verified
<1>5. /\ task' = [task EXCEPT ![c] = WithImage(task[c], p)]
      /\ UNCHANGED <<holder, held, rows, files>>
  BY <1>3 DEF ReadStored
<1> QED
  BY <1>1, <1>4, <1>5, WithImageOK, TaskStep

\* What an upload does to the bucket.
LEMMA UploadKeepsFiles ==
    ASSUME PicturesInv, NEW c \in Programs, task[c].pc \in {"plain", "over"},
           NEW f, NEW l,
           \/ f = Plain(task[c].picture) /\ l = "none"
           \/ /\ f = Overlaid(task[c].picture, task[c].domain) /\ l = "new"
              /\ task[c].pc = "over",
           files' = [files EXCEPT ![f] = Content(task[c].image, l)], held' = held
    PROVE  FilesOK' /\ StoredFiles' = StoredFiles \cup {f}
<1> DEFINE p0 == task[c].picture
           d0 == task[c].domain
<1>1. /\ p0 \in Pictures /\ d0 \in Domains /\ p0 \in Named[d0]
      /\ task[c].image = p0 /\ Verified(held, task[c])
      /\ task[c].pc = "over" => Plain(p0) \in StoredFiles
  BY AtWork DEF Working
<1>2. f \in FileNames /\ f[1] = p0 /\ (l # "none" => f[2] # None)
      /\ l \in {"none", "new"}
  BY <1>1, FileParts
<1>3. Content(p0, l) \in Contents /\ Content(p0, l) # Absent
      /\ Content(p0, l).image = p0 /\ Content(p0, l).label = l
  BY <1>1, <1>2, PicturesAssumption DEF Content, Contents, Absent, Images
<1>4. files \in [FileNames -> Contents]
  BY DEF PicturesInv, FilesOK
<1>5. /\ files' \in [FileNames -> Contents]
      /\ \A g \in FileNames : files'[g] = IF g = f THEN Content(p0, l) ELSE files[g]
  BY <1>1, <1>2, <1>3, <1>4
<1>6. \A g \in FileNames : Stored(g)' <=> g = f \/ Stored(g)
  BY <1>3, <1>5 DEF Stored
<1>7. StoredFiles' = StoredFiles \cup {f}
  BY <1>2, <1>6 DEF StoredFiles
<1>8. \A g \in FileNames : Stored(g)' => files'[g].image = g[1]
  BY <1>2, <1>3, <1>5, <1>6 DEF PicturesInv, FilesOK
<1>9. \A g \in FileNames : files'[g].label # "none" => g[2] # None /\ Stored(g)'
  BY <1>2, <1>3, <1>5, <1>6 DEF PicturesInv, FilesOK
<1>10. ASSUME NEW p \in Pictures, NEW d \in Domains, Stored(Overlaid(p, d))'
       PROVE  Stored(Plain(p))'
  <2>1. Overlaid(p, d) \in FileNames /\ Plain(p) \in FileNames
    BY FileParts
  <2>2. CASE Stored(Overlaid(p, d))
    BY <1>6, <2>1, <2>2 DEF PicturesInv, FilesOK, PlainWithOverlaid
  <2>3. CASE Overlaid(p, d) = f
    <3>1. p = p0 /\ Plain(p0) \in StoredFiles
      BY <1>1, <1>2, <2>3, FileParts
    <3> QED
      BY <1>6, <2>1, <3>1 DEF StoredFiles
  <2> QED
    BY <1>6, <1>10, <2>1, <2>2, <2>3
<1>11. ASSUME NEW p \in Pictures \ EthPictures, NEW d \in Domains,
              Stored(Overlaid(p, d))'
       PROVE  Owners[d] \cap held[p] # {}
  <2>1. Overlaid(p, d) \in FileNames
    BY FileParts
  <2>2. CASE Stored(Overlaid(p, d))
    BY <2>2 DEF PicturesInv, FilesOK, StoredVerified
  <2>3. CASE Overlaid(p, d) = f
    <3>1. p = p0 /\ d = d0
      BY <1>1, <2>3, FileParts
    <3> QED
      BY <1>1, <3>1 DEF Verified
  <2> QED
    BY <1>6, <1>11, <2>1, <2>2, <2>3
<1>12. ASSUME NEW p \in Pictures \ EthPictures, Stored(Plain(p))'
       PROVE  \E d \in Domains : p \in Named[d] /\ Owners[d] \cap held[p] # {}
  <2>1. Plain(p) \in FileNames
    BY <1>1, FileParts
  <2>2. CASE Stored(Plain(p))
    BY <2>2 DEF PicturesInv, FilesOK, StoredVerified
  <2>3. CASE Plain(p) = f
    <3>1. p = p0
      BY <1>1, <1>2, <2>3, FileParts
    <3> QED
      BY <1>1, <3>1 DEF Verified
  <2> QED
    BY <1>6, <1>12, <2>1, <2>2, <2>3
<1>13. PlainWithOverlaid'
  BY <1>10 DEF PlainWithOverlaid
<1>14. StoredVerified'
  BY <1>11, <1>12 DEF StoredVerified
<1> QED
  BY <1>5, <1>7, <1>8, <1>9, <1>13, <1>14 DEF FilesOK

\* A step of program c that stores a file.
LEMMA UploadStep ==
    ASSUME PicturesInv, NEW c \in Programs, NEW u,
           task' = [task EXCEPT ![c] = u], UNCHANGED <<holder, held, rows>>,
           FilesOK', StoredFiles \subseteq StoredFiles',
           TaskOK(StoredFiles', held, c, u)
    PROVE  PicturesInv'
<1>1. OwnersOK' /\ RowsOK'
  BY DEF PicturesInv, OwnersOK, RowsOK
<1>2. task' \in [Programs -> Task]
  BY DEF PicturesInv, TasksOK, TaskOK
<1>3. \A b \in Programs : TaskOK(StoredFiles', held, b, task[b])
  BY KnowsStill DEF PicturesInv, TasksOK
<1>4. \A b \in Programs : TaskOK(StoredFiles', held', b, task'[b])
  BY <1>3 DEF PicturesInv, TasksOK
<1> QED
  BY <1>1, <1>2, <1>4 DEF PicturesInv, TasksOK

LEMMA UploadPlainInv ==
    ASSUME PicturesInv, NEW c \in Programs, UploadPlain(c)
    PROVE  PicturesInv'
<1> DEFINE f == Plain(task[c].picture)
           u == [task[c] EXCEPT !.pc = "over"]
<1>1. task[c].pc \in Working /\ task[c].pc = "plain"
  BY DEF UploadPlain, Working
<1>2. /\ UNCHANGED <<holder, held, rows>>
      /\ files' = [files EXCEPT ![f] = Content(task[c].image, "none")]
      /\ task' = [task EXCEPT ![c] = IF WritesOverlay(c, task[c]) THEN u
                                     ELSE Complete(c, task[c])]
  BY DEF UploadPlain
<1> HIDE DEF u
<1>3. FilesOK' /\ StoredFiles' = StoredFiles \cup {f}
  <2>1. \A g, l : g = f /\ l = "none"
           /\ files' = [files EXCEPT ![g] = Content(task[c].image, l)] =>
           FilesOK' /\ StoredFiles' = StoredFiles \cup {g}
    BY <1>1, <1>2, UploadKeepsFiles
  <2> QED
    BY <1>2, <2>1
<1>4. CASE WritesOverlay(c, task[c])
  <2>1. task[c] \in Task
    BY <1>1, AtWork
  <2>2. u \in Task
    BY <2>1 DEF u, Task, Working
  <2>3. /\ u.pc = "over" /\ u.image = task[c].image /\ u.base = task[c].base
        /\ u.over = task[c].over /\ u.domain = task[c].domain
        /\ u.owner = task[c].owner /\ u.picture = task[c].picture
        /\ u.record = task[c].record /\ u.sure = task[c].sure
    BY <2>1 DEF u, Task
  <2>4. Verified(held, u) <=> Verified(held, task[c])
    BY <2>3 DEF Verified
  <2>5. TaskOK(StoredFiles', held, c, u)
    BY <1>1, <1>3, <2>2, <2>3, <2>4, AtWork, WorksOn DEF Working
  <2> QED
    BY <1>2, <1>3, <1>4, <2>5, UploadStep
<1>5. CASE ~WritesOverlay(c, task[c])
  <2>1. Overlaid(task[c].picture, task[c].domain) \in StoredFiles
    BY <1>1, <1>5, AtWork DEF WritesOverlay
  <2>2. TaskOK(StoredFiles', held, c, Complete(c, task[c]))
    BY <1>1, <1>3, <2>1, AtWork, CompleteOK
  <2> QED
    BY <1>2, <1>3, <1>5, <2>2, UploadStep
<1> QED
  BY <1>4, <1>5

LEMMA UploadOverlayInv ==
    ASSUME PicturesInv, NEW c \in Programs, UploadOverlay(c)
    PROVE  PicturesInv'
<1> DEFINE f == Overlaid(task[c].picture, task[c].domain)
<1>1. task[c].pc \in Working /\ task[c].pc = "over"
  BY DEF UploadOverlay, Working
<1>2. /\ UNCHANGED <<holder, held, rows>>
      /\ files' = [files EXCEPT ![f] = Content(task[c].image, "new")]
      /\ task' = [task EXCEPT ![c] = Complete(c, task[c])]
  BY DEF UploadOverlay
<1>3. FilesOK' /\ StoredFiles' = StoredFiles \cup {f}
  <2>1. \A g, l : g = f /\ l = "new"
           /\ files' = [files EXCEPT ![g] = Content(task[c].image, l)] =>
           FilesOK' /\ StoredFiles' = StoredFiles \cup {g}
    BY <1>1, <1>2, UploadKeepsFiles
  <2> QED
    BY <1>2, <2>1
<1>4. TaskOK(StoredFiles', held, c, Complete(c, task[c]))
  BY <1>1, <1>3, AtWork, CompleteOK
<1> QED
  BY <1>2, <1>3, <1>4, UploadStep

LEMMA CacheInv ==
    ASSUME PicturesInv, NEW c \in Programs, CacheSocialPicture(c)
    PROVE  PicturesInv'
BY CheckBaseInv, CheckOverlayInv, FetchMetadataInv, FailureInv, TimeOutInv,
   FetchImageInv, ImageFailsInv, ImageIsEmptyInv, ReadStoredInv,
   UploadPlainInv, UploadOverlayInv DEF CacheSocialPicture

-----------------------------------------------------------------------------
(* Requests *)

LEMMA AskInv ==
    ASSUME PicturesInv, NEW c \in Requests, Ask(c)
    PROVE  PicturesInv'
<1>1. PICK d \in Domains, overlay \in BOOLEAN :
        LET row == rows[d]
            t   == [TaskOf("find", d, row) EXCEPT !.overlay = overlay]
        IN task' = [task EXCEPT ![c] =
             CASE d \in Deprecated \/ row.record = None ->
                    [t EXCEPT !.pc = "generate", !.picture = None]
               [] d \notin Deprecated /\ row.record # None /\ ~Parses(row.record) -> Failed(c, t)
               [] OTHER -> [t EXCEPT !.sure = Stored(Wanted(t))]]
  BY DEF Ask
<1> DEFINE t == [TaskOf("find", d, rows[d]) EXCEPT !.overlay = overlay]
<1>2. c \in Programs /\ UNCHANGED <<holder, held, rows, files>>
  BY DEF Ask, Programs
<1>3. rows[d].owner \in Owners[d] /\ rows[d].record \in Named[d] \cup {None}
  BY DEF PicturesInv, RowsOK
<1> DEFINE v == TaskOf("find", d, rows[d])
<1>4. /\ v \in Task /\ v.pc = "find" /\ v.domain = d /\ v.owner = rows[d].owner
      /\ v.record = rows[d].record /\ v.picture = rows[d].record /\ v.image = None
      /\ v.sure = FALSE /\ v.base = FALSE /\ v.over = FALSE
  <2>1. /\ rows[d].owner \in Addresses \cup {None} /\ rows[d].record \in Records
        /\ None \in Images /\ "none" \in Generated
    BY <1>3, PicturesAssumption DEF Records, Images, Generated
  <2> QED
    BY <2>1 DEF TaskOf, Idle, Task
<1>5. /\ t \in Task /\ t.pc = "find" /\ t.domain = d /\ t.owner = rows[d].owner
      /\ t.record = rows[d].record /\ t.picture = rows[d].record /\ t.image = None
      /\ t.sure = FALSE /\ t.base = FALSE /\ t.over = FALSE
  BY <1>4 DEF Task
<1>6. task' = [task EXCEPT ![c] =
         CASE d \in Deprecated \/ rows[d].record = None ->
                [t EXCEPT !.pc = "generate", !.picture = None]
           [] d \notin Deprecated /\ rows[d].record # None /\ ~Parses(rows[d].record) ->
                Failed(c, t)
           [] OTHER -> [t EXCEPT !.sure = Stored(Wanted(t))]]
  BY <1>1
<1> HIDE DEF t
<1>7. CASE d \in Deprecated \/ rows[d].record = None
  <2> DEFINE u == [t EXCEPT !.pc = "generate", !.picture = None]
  <2>1. task' = [task EXCEPT ![c] = u]
    BY <1>6, <1>7
  <2>2. u \in Task /\ u.pc = "generate" /\ u.domain = d /\ u.sure = FALSE
    BY <1>5 DEF Task, Records
  <2> HIDE DEF u
  <2>3. u.pc \in Places(c)
    BY <2>2, PicturesAssumption DEF Places
  <2>4. TaskOK(StoredFiles, held, c, u)
    BY <2>2, <2>3 DEF TaskOK, Knows, Working
  <2> QED
    BY <1>2, <2>1, <2>4, TaskStep
<1>8. CASE d \notin Deprecated /\ rows[d].record # None /\ ~Parses(rows[d].record)
  <2>1. task' = [task EXCEPT ![c] = Answer(t, "error")]
    BY <1>6, <1>8 DEF Failed
  <2>2. "error" \in Images \cup Generated
    BY DEF Generated
  <2>3. TaskOK(StoredFiles, held, c, Answer(t, "error"))
    BY <1>5, <2>2, AnswerOK
  <2> QED
    BY <1>2, <2>1, <2>3, TaskStep
<1>9. CASE d \notin Deprecated /\ rows[d].record # None /\ Parses(rows[d].record)
  <2> DEFINE sure == Stored(Wanted(t))
             u == [t EXCEPT !.sure = sure]
  <2>1. task' = [task EXCEPT ![c] = u]
    BY <1>6, <1>9
  <2>2. t.picture \in Pictures
    BY <1>5, <1>9 DEF Parses
  <2>3. Wanted(t) \in FileNames
    BY <1>5, <2>2, FileParts DEF Wanted
  <2>4. sure \in BOOLEAN /\ (sure => Wanted(t) \in StoredFiles)
    BY <2>3 DEF StoredFiles, Stored
  <2> HIDE DEF sure
  <2>5. /\ u \in Task /\ u.pc = "find" /\ u.domain = d /\ u.owner = rows[d].owner
        /\ u.record = rows[d].record /\ u.picture = rows[d].record /\ u.image = None
        /\ u.sure = sure /\ u.overlay = t.overlay /\ u.base = FALSE /\ u.over = FALSE
    BY <1>5, <2>4 DEF Task
  <2> HIDE DEF u
  <2>6. Wanted(u) = Wanted(t)
    BY <1>5, <2>5 DEF Wanted
  <2>7. u.pc \in Places(c)
    BY <2>5, PicturesAssumption DEF Places
  <2>8. TaskOK(StoredFiles, held, c, u)
    BY <1>3, <1>5, <2>2, <2>4, <2>5, <2>6, <2>7 DEF TaskOK, Knows, Working
  <2> QED
    BY <1>2, <2>1, <2>8, TaskStep
<1> QED
  BY <1>7, <1>8, <1>9

LEMMA GetFromCDNInv ==
    ASSUME PicturesInv, NEW c \in Requests, GetFromCDN(c)
    PROVE  PicturesInv'
<1> DEFINE t == task[c]
<1>1. /\ c \in Programs /\ t.pc = "find" /\ UNCHANGED <<holder, held, rows, files>>
      /\ task' = [task EXCEPT ![c] = Find(t)]
  BY DEF GetFromCDN, Programs
<1>2. TaskOK(StoredFiles, held, c, t)
  BY <1>1 DEF PicturesInv, TasksOK
<1>3. /\ t \in Task /\ t.domain \in Domains /\ t.owner \in Owners[t.domain]
      /\ t.picture \in Pictures /\ t.picture \in Named[t.domain]
      /\ t.record = t.picture /\ t.image = None
      /\ t.sure => Wanted(t) \in StoredFiles
  BY <1>1, <1>2, PicturesAssumption DEF TaskOK, Knows
<1>4. Wanted(t) \in FileNames /\ Wanted(t)[1] = t.picture
  BY <1>3, FileParts DEF Wanted
<1>5. t.again \in BOOLEAN
  BY <1>3 DEF Task
<1> HIDE DEF t
<1>6. CASE Stored(Wanted(t))
  <2>1. Find(t) = Answer(t, files[Wanted(t)].image)
    BY <1>6 DEF Find
  <2>2. files[Wanted(t)].image = t.picture
    BY <1>4, <1>6 DEF PicturesInv, FilesOK
  <2>3. TaskOK(StoredFiles, held, c, Answer(t, t.picture))
    BY <1>3, AnswerOK DEF Images
  <2> QED
    BY <1>1, <2>1, <2>2, <2>3, TaskStep
<1>7. CASE ~Stored(Wanted(t)) /\ t.again
  <2> DEFINE u == [t EXCEPT !.pc = "generate"]
  <2>1. Find(t) = u
    BY <1>7 DEF Find
  <2>2. u \in Task /\ u.pc = "generate" /\ u.domain = t.domain /\ u.sure = t.sure
    BY <1>3 DEF Task
  <2>3. ~t.sure
    BY <1>3, <1>7 DEF StoredFiles
  <2> HIDE DEF u
  <2>4. u.pc \in Places(c)
    BY <2>2, PicturesAssumption DEF Places
  <2>5. TaskOK(StoredFiles, held, c, u)
    BY <1>3, <2>2, <2>3, <2>4 DEF TaskOK, Knows, Working
  <2> QED
    BY <1>1, <2>1, <2>5, TaskStep
<1>8. CASE ~Stored(Wanted(t)) /\ ~t.again
  <2> DEFINE u == [t EXCEPT !.pc = "base?"]
  <2>1. Find(t) = u
    BY <1>8 DEF Find
  <2>2. u \in Task
    BY <1>3 DEF Task, Working
  <2>3. /\ u.pc = "base?" /\ u.domain = t.domain /\ u.owner = t.owner
        /\ u.picture = t.picture /\ u.record = t.record /\ u.image = t.image
        /\ u.sure = t.sure /\ u.base = t.base /\ u.over = t.over
    BY <1>3 DEF Task
  <2>4. ~t.sure
    BY <1>3, <1>8 DEF StoredFiles
  <2>5. ~t.base /\ ~t.over
    BY <1>1, <1>2 DEF TaskOK, Knows
  <2> HIDE DEF u
  <2>6. TaskOK(StoredFiles, held, c, u)
    BY <1>1, <1>3, <2>2, <2>3, <2>4, <2>5, WorksOn, PicturesAssumption DEF Working
  <2> QED
    BY <1>1, <2>1, <2>6, TaskStep
<1> QED
  BY <1>5, <1>6, <1>7, <1>8

LEMMA GeneratedOK ==
    ASSUME NEW d, NEW image \in GeneratedImages(d)
    PROVE  image \in Generated
<1>1. CASE d \in Deprecated
  <2>1. d \notin Custom \ Deprecated
    BY <1>1
  <2>2. GeneratedImages(d) = {"default"}
    BY <1>1, <2>1 DEF GeneratedImages
  <2> QED
    BY <2>2 DEF Generated
<1>2. CASE d \in Custom \ Deprecated
  <2>1. GeneratedImages(d) = {"none"}
    BY <1>2 DEF GeneratedImages
  <2> QED
    BY <2>1 DEF Generated
<1>3. CASE d \notin Deprecated /\ d \notin Custom
  <2>1. PICK on \in OnChainProfileImage(d), off \in OffChainProfileImage(d),
             animal \in AnimalImage(d) : image = FirstOf(on, off, animal)
    BY <1>3 DEF GeneratedImages
  <2>2. image \in {on, off, animal}
    BY <2>1 DEF FirstOf
  <2> QED
    BY <2>2 DEF OnChainProfileImage, OffChainProfileImage, AnimalImage, Generated
<1> QED
  BY <1>1, <1>2, <1>3

LEMMA GenerateInv ==
    ASSUME PicturesInv, NEW c \in Requests, Generate(c)
    PROVE  PicturesInv'
<1>1. /\ c \in Programs /\ task[c].pc = "generate"
      /\ UNCHANGED <<holder, held, rows, files>>
  BY DEF Generate, Programs
<1>2. PICK image \in GeneratedImages(task[c].domain) :
        task' = [task EXCEPT ![c] = Answer(task[c], image)]
  BY DEF Generate
<1>3. image \in Generated
  BY <1>2, GeneratedOK
<1>4. task[c] \in Task /\ task[c].domain \in Domains /\ ~task[c].sure
  BY <1>1 DEF PicturesInv, TasksOK, TaskOK, Knows
<1>5. TaskOK(StoredFiles, held, c, Answer(task[c], image))
  BY <1>3, <1>4, AnswerOK
<1> QED
  BY <1>1, <1>2, <1>5, TaskStep

-----------------------------------------------------------------------------
(* The worker, the script and the trade of NFTs *)

LEMMA SetRecordInv ==
    ASSUME PicturesInv, SetRecord
    PROVE  PicturesInv'
<1>0. PICK d \in Domains : \E r \in Named[d] :
        LET new == [owner |-> rows[d].owner, record |-> r]
            pc  == IF Parses(r) THEN "base?" ELSE "save"
        IN task' = [task EXCEPT ![Worker] =
                      [TaskOf(pc, d, Updated(d, new)) EXCEPT !.picture = r]]
  BY DEF SetRecord
<1>1. PICK r \in Named[d] :
        LET new == [owner |-> rows[d].owner, record |-> r]
            pc  == IF Parses(r) THEN "base?" ELSE "save"
        IN task' = [task EXCEPT ![Worker] =
                      [TaskOf(pc, d, Updated(d, new)) EXCEPT !.picture = r]]
  BY <1>0
<1> DEFINE new == [owner |-> rows[d].owner, record |-> r]
           pc0 == IF Parses(r) THEN "base?" ELSE "save"
           u == [TaskOf(pc0, d, Updated(d, new)) EXCEPT !.picture = r]
<1>2. /\ Worker \in Programs /\ UNCHANGED <<holder, held, rows, files>>
      /\ task' = [task EXCEPT ![Worker] = u]
  BY <1>1 DEF SetRecord, Programs
<1>3. /\ rows[d].owner \in Owners[d] /\ rows[d].owner \in Addresses
      /\ r \in Records /\ r # None
      /\ None \in Images /\ "none" \in Generated
  BY PicturesAssumption DEF PicturesInv, RowsOK, Records, Images, Generated
<1>4. /\ u \in Task
      /\ u.pc = pc0 /\ u.domain = d /\ u.owner = rows[d].owner /\ u.record = r
      /\ u.picture = r /\ u.image = None
      /\ u.sure = FALSE /\ u.base = FALSE /\ u.over = FALSE
  BY <1>3 DEF TaskOf, Updated, Idle, Task, Working
<1> HIDE DEF u
<1>5. CASE Parses(r)
  <2>1. TaskOK(StoredFiles, held, Worker, u)
    BY <1>2, <1>3, <1>4, <1>5, WorksOn, PicturesAssumption DEF Working, Parses
  <2> QED
    BY <1>2, <2>1, TaskStep
<1>6. CASE ~Parses(r)
  <2>1. u.pc = "save" /\ u.pc \in Places(Worker)
    BY <1>4, <1>6, PicturesAssumption DEF Places
  <2>2. TaskOK(StoredFiles, held, Worker, u)
    BY <1>3, <1>4, <2>1 DEF TaskOK, Knows, Working
  <2> QED
    BY <1>2, <2>2, TaskStep
<1> QED
  BY <1>5, <1>6

LEMMA TransferInv ==
    ASSUME PicturesInv, Transfer
    PROVE  PicturesInv'
<1>0. PICK d \in Domains : \E a \in Owners[d] :
        task' = [task EXCEPT ![Worker] = TaskOf("save", d, [owner |-> a, record |-> None])]
  BY DEF Transfer
<1>1. PICK a \in Owners[d] :
        task' = [task EXCEPT ![Worker] = TaskOf("save", d, [owner |-> a, record |-> None])]
  BY <1>0
<1> DEFINE u == TaskOf("save", d, [owner |-> a, record |-> None])
<1>2. Worker \in Programs /\ UNCHANGED <<holder, held, rows, files>>
  BY DEF Transfer, Programs
<1>3. a \in Addresses /\ None \in Records /\ None \in Images /\ "none" \in Generated
  BY PicturesAssumption DEF Records, Images, Generated
<1>4. /\ u \in Task
      /\ u.pc = "save" /\ u.domain = d /\ u.owner = a /\ u.record = None
      /\ u.picture = None
  BY <1>3 DEF TaskOf, Idle, Task
<1>5. task' = [task EXCEPT ![Worker] = u]
  BY <1>1
<1> HIDE DEF u
<1>6. u.pc \in Places(Worker)
  BY <1>4, PicturesAssumption DEF Places
<1>7. TaskOK(StoredFiles, held, Worker, u)
  BY <1>4, <1>6 DEF TaskOK, Knows, Working
<1> QED
  BY <1>2, <1>5, <1>7, TaskStep

LEMMA SaveInv ==
    ASSUME PicturesInv, Save
    PROVE  PicturesInv'
<1> DEFINE t == task[Worker]
<1>1. /\ Worker \in Programs /\ t.pc = "save" /\ UNCHANGED <<holder, held, files>>
      /\ rows' = [rows EXCEPT ![t.domain] = [owner |-> t.owner, record |-> t.picture]]
      /\ task' = [task EXCEPT ![Worker] = Idle]
  BY DEF Save, Programs
<1>2. /\ t \in Task /\ t.domain \in Domains /\ t.owner \in Owners[t.domain]
      /\ t.picture \in Named[t.domain] \cup {None}
  BY <1>1 DEF PicturesInv, TasksOK, TaskOK, Knows
<1>3. t.owner \in Addresses /\ t.picture \in Records
  BY <1>2, PicturesAssumption DEF Records
<1> HIDE DEF t
<1>4. RowsOK'
  BY <1>1, <1>2, <1>3 DEF PicturesInv, RowsOK
<1>5. OwnersOK'
  BY <1>1 DEF PicturesInv, OwnersOK
<1>6. FilesOK' /\ StoredFiles' = StoredFiles
  BY <1>1 DEF PicturesInv, FilesOK, PlainWithOverlaid, StoredVerified, Stored, StoredFiles
<1>7. TaskOK(StoredFiles, held, Worker, Idle)
  BY <1>1, IdleOK
<1>8. task' \in [Programs -> Task]
  BY <1>1, <1>7 DEF PicturesInv, TasksOK, TaskOK
<1>9. \A b \in Programs : TaskOK(StoredFiles, held, b, task'[b])
  BY <1>1, <1>7 DEF PicturesInv, TasksOK
<1> QED
  BY <1>1, <1>4, <1>5, <1>6, <1>8, <1>9 DEF PicturesInv, TasksOK

LEMMA ReadPageInv ==
    ASSUME PicturesInv, ReadPage
    PROVE  PicturesInv'
<1>1. PICK d \in Subdomains :
        /\ rows[d].record # None
        /\ task' = [task EXCEPT ![Script] = TaskOf("label?", d, rows[d])]
  BY DEF ReadPage
<1> DEFINE u == TaskOf("label?", d, rows[d])
<1>2. Script \in Programs /\ UNCHANGED <<holder, held, rows, files>> /\ d \in Domains
  BY PicturesAssumption DEF ReadPage, Programs
<1>3. /\ rows[d].owner \in Owners[d] /\ rows[d].record \in Named[d] \cup {None}
      /\ rows[d].owner \in Addresses /\ rows[d].record \in Records
      /\ None \in Images /\ "none" \in Generated
  BY <1>2, PicturesAssumption DEF PicturesInv, RowsOK, Records, Images, Generated
<1>4. /\ u \in Task
      /\ u.pc = "label?" /\ u.domain = d /\ u.owner = rows[d].owner
      /\ u.record = rows[d].record /\ u.picture = rows[d].record /\ u.image = None
      /\ u.sure = FALSE /\ u.base = FALSE /\ u.over = FALSE
  BY <1>2, <1>3 DEF TaskOf, Idle, Task
<1>5. task' = [task EXCEPT ![Script] = u]
  BY <1>1
<1> HIDE DEF u
<1>6. u.pc \in Places(Script)
  BY <1>4, PicturesAssumption DEF Places
<1>7. TaskOK(StoredFiles, held, Script, u)
  BY <1>2, <1>3, <1>4, <1>6 DEF TaskOK, Knows, Working
<1> QED
  BY <1>2, <1>5, <1>7, TaskStep

LEMMA CheckLabelInv ==
    ASSUME PicturesInv, CheckLabel
    PROVE  PicturesInv'
<1> DEFINE t == task[Script]
           isOld == /\ Parses(t.picture)
                    /\ files[Overlaid(t.picture, t.domain)].label = "old"
           u == [t EXCEPT !.pc = "base?"]
<1>1. /\ Script \in Programs /\ t.pc = "label?" /\ UNCHANGED <<holder, held, rows, files>>
      /\ task' = [task EXCEPT ![Script] = IF isOld THEN u ELSE Idle]
  BY DEF CheckLabel, Programs
<1>2. /\ t \in Task /\ t.domain \in Domains /\ t.owner \in Owners[t.domain]
      /\ t.picture \in Named[t.domain] \cup {None} /\ t.record = t.picture
      /\ t.image = None /\ ~t.base /\ ~t.over
  BY <1>1 DEF PicturesInv, TasksOK, TaskOK, Knows
<1>3. t.sure = FALSE
  <2>1. t.sure \in BOOLEAN /\ ~t.sure
    BY <1>1 DEF PicturesInv, TasksOK, TaskOK, Knows, Task
  <2> QED
    BY <2>1
<1>4. CASE isOld
  <2>1. t.picture \in Pictures /\ Overlaid(t.picture, t.domain) \in FileNames
    BY <1>2, <1>4, FileParts DEF Parses
  <2>2. Overlaid(t.picture, t.domain) \in StoredFiles
    BY <1>4, <2>1 DEF PicturesInv, FilesOK, StoredFiles
  <2>3. /\ u \in Task /\ u.pc = "base?" /\ u.domain = t.domain /\ u.owner = t.owner
        /\ u.picture = t.picture /\ u.record = t.record /\ u.image = t.image
        /\ u.sure = t.sure /\ u.base = t.base /\ u.over = t.over
    BY <1>2 DEF Task, Working
  <2>4. TaskOK(StoredFiles, held, Script, u)
    <3> HIDE DEF u, t
    <3> QED
      BY <1>1, <1>2, <1>3, <2>1, <2>2, <2>3, WorksOn, PicturesAssumption DEF Working
  <2> QED
    BY <1>1, <1>4, <2>4, TaskStep
<1>5. CASE ~isOld
  BY <1>1, <1>5, IdleOK, TaskStep
<1> QED
  BY <1>4, <1>5

LEMMA TradeInv ==
    ASSUME PicturesInv, NEW p \in Pictures, Trade(p)
    PROVE  PicturesInv'
<1>1. PICK a \in Holders[p] \ {holder[p]} :
        /\ holder' = [holder EXCEPT ![p] = a]
        /\ held' = [held EXCEPT ![p] = @ \cup {a}]
  BY DEF Trade
<1>2. UNCHANGED <<rows, files, task>> /\ a \in Addresses
  BY PicturesAssumption DEF Trade
<1>3. OwnersOK'
  BY <1>1, <1>2 DEF PicturesInv, OwnersOK
<1>4. \A q \in Pictures : held[q] \subseteq held'[q]
  BY <1>1 DEF PicturesInv, OwnersOK
<1>5. StoredFiles' = StoredFiles
  BY <1>2 DEF StoredFiles, Stored
<1>6. FilesOK'
  BY <1>2, <1>4 DEF PicturesInv, FilesOK, PlainWithOverlaid, StoredVerified, Stored
<1>7. \A b \in Programs : TaskOK(StoredFiles, held', b, task[b])
  BY <1>4, KnowsStill DEF PicturesInv, TasksOK
<1> QED
  BY <1>2, <1>3, <1>5, <1>6, <1>7 DEF PicturesInv, RowsOK, TasksOK

-----------------------------------------------------------------------------
(* The theorems *)

LEMMA InitPictures == Init => PicturesInv
<1> SUFFICES ASSUME Init PROVE PicturesInv
  OBVIOUS
<1>1. PICK old \in SUBSET OldFiles :
        files = [f \in FileNames |->
                   CASE f \in old -> Content(f[1], "old")
                     [] f[2] = None /\ (\E d \in Domains : <<f[1], d>> \in old) ->
                          Content(f[1], "none")
                     [] OTHER -> Absent]
  BY DEF Init
<1>2. \A f \in old : /\ f[1] \in Pictures /\ f[2] \in Domains /\ f[2] # None
                     /\ f = Overlaid(f[1], f[2])
                     /\ f[1] \in Named[f[2]]
                     /\ f[1] \in EthPictures \/ Owners[f[2]] \cap Holders[f[1]] # {}
  BY PicturesAssumption DEF Overlaid
<1>3. \A f \in FileNames :
        /\ f[1] \in Pictures /\ f[2] \in Domains \cup {None}
        /\ \A l \in {"none", "old", "new"} :
              /\ Content(f[1], l) \in Contents /\ Content(f[1], l) # Absent
              /\ Content(f[1], l).image = f[1] /\ Content(f[1], l).label = l
        /\ Absent \in Contents /\ Absent.label = "none"
  BY PicturesAssumption DEF Content, Contents, Absent, Images, FileNames
<1>4. \A f \in FileNames :
        \/ f \in old /\ files[f] = Content(f[1], "old")
        \/ /\ f \notin old /\ f[2] = None /\ files[f] = Content(f[1], "none")
           /\ \E d \in Domains : <<f[1], d>> \in old
        \/ /\ f \notin old /\ files[f] = Absent
           /\ ~(f[2] = None /\ \E d \in Domains : <<f[1], d>> \in old)
  <2> SUFFICES ASSUME NEW f \in FileNames
               PROVE  \/ f \in old /\ files[f] = Content(f[1], "old")
                      \/ /\ f \notin old /\ f[2] = None
                         /\ files[f] = Content(f[1], "none")
                         /\ \E d \in Domains : <<f[1], d>> \in old
                      \/ /\ f \notin old /\ files[f] = Absent
                         /\ ~(f[2] = None /\ \E d \in Domains : <<f[1], d>> \in old)
    OBVIOUS
  <2>1. CASE f \in old
    BY <1>1, <1>2, <2>1
  <2>2. CASE f \notin old /\ f[2] = None /\ \E d \in Domains : <<f[1], d>> \in old
    BY <1>1, <2>2
  <2>3. CASE f \notin old /\ ~(f[2] = None /\ \E d \in Domains : <<f[1], d>> \in old)
    BY <1>1, <2>3
  <2> QED
    BY <2>1, <2>2, <2>3
<1>5. files \in [FileNames -> Contents]
  BY <1>1, <1>3, <1>4
<1>6. \A p \in Pictures, d \in Domains : Stored(Overlaid(p, d)) <=> Overlaid(p, d) \in old
  BY <1>3, <1>4, FileParts DEF Stored
<1>7. \A p \in Pictures :
        Stored(Plain(p)) <=> \E d \in Domains : Overlaid(p, d) \in old
  <2> SUFFICES ASSUME NEW p \in Pictures
               PROVE  Stored(Plain(p)) <=> \E d \in Domains : Overlaid(p, d) \in old
    OBVIOUS
  <2>1. Plain(p) \in FileNames /\ Plain(p)[1] = p /\ Plain(p)[2] = None
    BY DEF Plain, FileNames
  <2>2. Plain(p) \notin old
    BY <1>2, <2>1
  <2> QED
    BY <1>3, <1>4, <2>1, <2>2 DEF Stored, Overlaid
<1>8. \A g \in OldFiles : g \in FileNames
  BY PicturesAssumption DEF FileNames
<1>9. ASSUME NEW p \in Pictures, NEW d \in Domains, Overlaid(p, d) \in old
      PROVE  p \in Named[d] /\ (p \in EthPictures \/ Owners[d] \cap held[p] # {})
  <2>1. p \in Named[d] /\ (p \in EthPictures \/ Owners[d] \cap Holders[p] # {})
    BY <1>2, <1>9, FileParts
  <2>2. Owners[d] \subseteq held[p]
    <3>1. held[p] = {holder[p]} \cup
            UNION {Owners[f[2]] : f \in {g \in OldFiles : g[1] = p /\ Stored(g)}}
      BY DEF Init
    <3>2. Overlaid(p, d) \in {g \in OldFiles : g[1] = p /\ Stored(g)}
      BY <1>6, <1>9, FileParts
    <3>3. Overlaid(p, d)[2] = d
      BY FileParts
    <3> QED
      BY <3>1, <3>2, <3>3
  <2> QED
    BY <2>1, <2>2
<1>10. PlainWithOverlaid
  BY <1>6, <1>7 DEF PlainWithOverlaid
<1>11. StoredVerified
  BY <1>6, <1>7, <1>9 DEF StoredVerified
<1>12. FilesOK
  BY <1>2, <1>3, <1>4, <1>5, <1>10, <1>11 DEF FilesOK, Stored
<1>13. OwnersOK
  <2>1. holder \in [Pictures -> Addresses] /\ \A p \in Pictures : holder[p] \in Holders[p]
    BY DEF Init
  <2>2. held = [p \in Pictures |-> {holder[p]} \cup
                  UNION {Owners[f[2]] : f \in {g \in OldFiles : g[1] = p /\ Stored(g)}}]
    BY DEF Init
  <2>3. ASSUME NEW p \in Pictures
        PROVE  UNION {Owners[f[2]] : f \in {g \in OldFiles : g[1] = p /\ Stored(g)}}
                 \subseteq Addresses
    <3>1. \A f \in OldFiles : Owners[f[2]] \subseteq Addresses
      BY PicturesAssumption
    <3> QED
      BY <3>1
  <2> QED
    BY <2>1, <2>2, <2>3 DEF OwnersOK
<1>14. RowsOK
  BY DEF Init, RowsOK, Records
<1>15. TasksOK
  <2>1. \A c \in Programs : TaskOK(StoredFiles, held, c, Idle)
    BY IdleOK
  <2> QED
    BY <2>1 DEF Init, TasksOK, TaskOK
<1> QED
  BY <1>12, <1>13, <1>14, <1>15 DEF PicturesInv

LEMMA PicturesInvStep == PicturesInv /\ [Next]_vars => PicturesInv'
<1> SUFFICES ASSUME PicturesInv, [Next]_vars PROVE PicturesInv'
  OBVIOUS
<1>1. ASSUME NEW p \in Pictures, Trade(p) PROVE PicturesInv'
  BY <1>1, TradeInv
<1>2. ASSUME NEW c \in Requests, Request(c) PROVE PicturesInv'
  <2>1. c \in Programs
    BY DEF Programs
  <2> QED
    BY <1>2, <2>1, AskInv, GetFromCDNInv, GenerateInv, CacheInv DEF Request
<1>3. CASE WorkerStep
  <2>1. Worker \in Programs
    BY DEF Programs
  <2>2. CASE Rollback
    <3>1. /\ task' = [task EXCEPT ![Worker] = Idle]
          /\ UNCHANGED <<holder, held, rows, files>>
      BY <2>2 DEF Rollback
    <3> QED
      BY <2>1, <3>1, IdleOK, TaskStep
  <2> QED
    BY <1>3, <2>1, <2>2, SetRecordInv, TransferInv, SaveInv, CacheInv DEF WorkerStep
<1>4. CASE ScriptStep
  <2>1. Script \in Programs
    BY DEF Programs
  <2> QED
    BY <1>4, <2>1, ReadPageInv, CheckLabelInv, CacheInv DEF ScriptStep
<1>5. CASE UNCHANGED vars
  <2>1. StoredFiles' = StoredFiles /\ UNCHANGED <<holder, held, rows, files, task>>
    BY <1>5 DEF vars, StoredFiles, Stored
  <2> QED
    BY <2>1 DEF PicturesInv, OwnersOK, RowsOK, FilesOK, TasksOK, PlainWithOverlaid,
       StoredVerified, Stored
<1> QED
  BY <1>1, <1>2, <1>3, <1>4, <1>5 DEF Next

LEMMA PicturesInvariant == Spec => []PicturesInv
BY InitPictures, PicturesInvStep, PTL DEF Spec

\* Rows, files and tasks are of known domains and NFTs, and a file holds the image of
\* the NFT it is named after, for any number of requests (WorkerRepository.ts:138).
THEOREM PicturesTyped == Spec => []TypeOK
<1>1. PicturesInv => TypeOK
  <2> SUFFICES ASSUME PicturesInv PROVE TypeOK
    OBVIOUS
  <2>1. \A c \in Programs :
          /\ task[c].pc # "idle" => task[c].domain \in Domains
          /\ task[c].pc \in {"plain", "over"} => task[c].image \in Pictures
    BY DEF PicturesInv, TasksOK, TaskOK, Knows, Working
  <2>2. \A p \in Pictures : /\ holder[p] \in Holders[p] /\ holder[p] \in held[p]
                            /\ held[p] \subseteq Addresses
    BY DEF PicturesInv, OwnersOK
  <2> QED
    BY <2>1, <2>2 DEF TypeOK, PicturesInv, RowsOK, FilesOK
<1> QED
  BY <1>1, PicturesInvariant, PTL

\* A picture with a name on it is never alone in the bucket (socialPicture/index.ts:249),
\* however many programs store it at once, whichever upload or question fails.
THEOREM NeverOverlaidAlone == Spec => []PlainWithOverlaid
<1>1. PicturesInv => PlainWithOverlaid
  BY DEF PicturesInv, FilesOK
<1> QED
  BY <1>1, PicturesInvariant, PTL

\* What Moralis vouches for was owned by an owner of the domain whose name it bears
\* (MetadataService.ts:128), whatever is sold while a program is at work and also when
\* the script takes the image from the bucket.
THEOREM OnlyVerifiedStored == Spec => []StoredVerified
<1>1. PicturesInv => StoredVerified
  BY DEF PicturesInv, FilesOK
<1> QED
  BY <1>1, PicturesInvariant, PTL

\* A request for a picture that is stored, or that it stores itself, is answered
\* with it, or with an error when the bucket fails (MetadataService.ts:258).
THEOREM PictureAnswered == Spec => []AnsweredWithPicture
<1>1. PicturesInv => AnsweredWithPicture
  <2> SUFFICES ASSUME PicturesInv, NEW c \in Requests,
                      task[c].pc = "answered" /\ task[c].sure
               PROVE  task[c].answer \in {task[c].picture, "error"}
    BY DEF AnsweredWithPicture
  <2>1. TaskOK(StoredFiles, held, c, task[c])
    BY DEF PicturesInv, TasksOK, Programs
  <2> QED
    BY <2>1 DEF TaskOK, Knows
<1> QED
  BY <1>1, PicturesInvariant, PTL

-----------------------------------------------------------------------------
(* What the script finishes *)

\* A step of another program, or a trade, leaves the script where it is.
LEMMA OthersLeaveScript ==
    ASSUME PicturesInv, [Next]_vars, ~ScriptStep
    PROVE  task'[Script] = task[Script]
<1>1. Script \in Programs /\ Script # Worker /\ Script \notin Requests
  BY PicturesAssumption DEF Programs
<1>2. ASSUME NEW c, c # Script, NEW u, task' = [task EXCEPT ![c] = u]
      PROVE  task'[Script] = task[Script]
  BY <1>1, <1>2 DEF PicturesInv, TasksOK
<1>3. ASSUME NEW c, c # Script, CacheSocialPicture(c)
      PROVE  task'[Script] = task[Script]
  <2>1. CASE CheckBase(c)
    BY <1>1, <1>3, <2>1 DEF CheckBase, PicturesInv, TasksOK
  <2>2. CASE CheckOverlay(c)
    BY <1>2, <1>3, <2>2 DEF CheckOverlay
  <2>3. CASE FetchMetadata(c) \/ TimeOut(c)
    BY <1>1, <1>3, <2>3 DEF FetchMetadata, TimeOut, PicturesInv, TasksOK
  <2>4. CASE TokenUriFails(c) \/ UploadFails(c) \/ BucketFails(c)
    BY <1>2, <1>3, <2>4 DEF TokenUriFails, UploadFails, BucketFails
  <2>5. CASE FetchImage(c) \/ ImageFails(c) \/ ImageIsEmpty(c) \/ ReadStored(c)
    BY <1>2, <1>3, <2>5 DEF FetchImage, ImageFails, ImageIsEmpty, ReadStored
  <2>6. CASE UploadPlain(c) \/ UploadOverlay(c)
    BY <1>2, <1>3, <2>6 DEF UploadPlain, UploadOverlay
  <2> QED
    BY <1>3, <2>1, <2>2, <2>3, <2>4, <2>5, <2>6 DEF CacheSocialPicture
<1>4. CASE \E p \in Pictures : Trade(p)
  BY <1>4 DEF Trade
<1>5. CASE \E c \in Requests : Request(c)
  <2>1. PICK c \in Requests : Request(c)
    BY <1>5
  <2>2. c # Script
    BY <1>1
  <2>3. CASE Ask(c) \/ GetFromCDN(c) \/ Generate(c)
    BY <1>2, <2>2, <2>3 DEF Ask, GetFromCDN, Generate
  <2> QED
    BY <1>3, <2>1, <2>2, <2>3 DEF Request
<1>6. CASE WorkerStep
  <2>1. CASE SetRecord \/ Transfer \/ Save \/ Rollback
    BY <1>1, <1>2, <2>1 DEF SetRecord, Transfer, Save, Rollback
  <2> QED
    BY <1>1, <1>3, <1>6, <2>1 DEF WorkerStep
<1>7. CASE UNCHANGED vars
  BY <1>7 DEF vars
<1> QED
  BY <1>4, <1>5, <1>6, <1>7 DEF Next

\* Without a new image the script goes on with the stored file, and with either it goes
\* on to the uploads.
LEMMA ScriptGoesOn ==
    ASSUME PicturesInv, FetchImage(Script) \/ ImageFails(Script) \/ ReadStored(Script)
    PROVE  task'[Script].pc # "idle"
<1> DEFINE t == task[Script]
<1>1. /\ Script \in Programs /\ t.pc \in Working /\ t \in Task
      /\ task \in [Programs -> Task]
  BY AtWork DEF FetchImage, ImageFails, ReadStored, Working, Programs, PicturesInv, TasksOK
<1>2. CASE ImageFails(Script)
  <2>1. task' = [task EXCEPT ![Script] = [t EXCEPT !.pc = "stored", !.image = None]]
    BY <1>2 DEF ImageFails, Fallback, Overrides
  <2>2. task'[Script].pc = "stored"
    BY <1>1, <2>1 DEF Task
  <2> QED
    BY <2>2
<1>3. CASE FetchImage(Script) \/ ReadStored(Script)
  <2>1. PICK image : task' = [task EXCEPT ![Script] = WithImage(t, image)]
    BY <1>3 DEF FetchImage, ReadStored
  <2>2. task'[Script].pc = IF t.base THEN "over" ELSE "plain"
    BY <1>1, <2>1 DEF WithImage, Task
  <2> QED
    BY <2>2
<1> QED
  BY <1>2, <1>3

\* The script leaves a picture that it looked at with its new label, whatever is
\* fetched and whoever owns the NFT by then, unless the bucket fails in a question or
\* an upload, the request for the token's URI fails, or the image is answered without
\* a byte (socialPicture/index.ts:198).
THEOREM ScriptRelabels == Spec => ScriptFixes
<1>1. ASSUME PicturesInv, [Next]_vars, task[Script].pc \notin {"idle", "label?"},
             task'[Script].pc = "idle"
      PROVE  \/ files'[Overlaid(task[Script].picture, task[Script].domain)].label = "new"
             \/ UploadFails(Script) \/ BucketFails(Script)
             \/ TokenUriFails(Script) \/ ImageIsEmpty(Script)
  <2>1. /\ Script \in Programs /\ task[Script] \in Task /\ task[Script].pc \in Working
        /\ task \in [Programs -> Task]
    <3>1. Script \in Programs /\ Script # Worker /\ Script \notin Requests
      BY PicturesAssumption DEF Programs
    <3>2. Places(Script) = Working \cup {"idle", "label?"}
      BY <3>1 DEF Places
    <3> QED
      BY <1>1, <3>1, <3>2 DEF PicturesInv, TasksOK, TaskOK
  <2>2. ScriptStep
    BY <1>1, OthersLeaveScript
  <2>3. CacheSocialPicture(Script)
    BY <1>1, <2>2 DEF ScriptStep, ReadPage, CheckLabel
  <2>4. CASE CheckBase(Script) \/ FetchMetadata(Script) \/ TimeOut(Script)
    BY <1>1, <2>1, <2>4 DEF CheckBase, FetchMetadata, TimeOut, Task
  <2>5. CASE CheckOverlay(Script)
    <3> DEFINE t == [task[Script] EXCEPT !.pc = "fetch",
                 !.over = Stored(Overlaid(task[Script].picture, task[Script].domain))]
    <3>1. task' = [task EXCEPT ![Script] = t]
      BY <2>5 DEF CheckOverlay, WritesOverlay, Overrides
    <3>2. task'[Script].pc = "fetch"
      BY <2>1, <3>1 DEF Task
    <3> QED
      BY <1>1, <3>2
  <2>6. CASE FetchImage(Script) \/ ImageFails(Script) \/ ReadStored(Script)
    BY <1>1, <2>6, ScriptGoesOn
  <2>7. CASE UploadPlain(Script)
    <3>1. task' = [task EXCEPT ![Script] = [task[Script] EXCEPT !.pc = "over"]]
      BY <2>7 DEF UploadPlain, WritesOverlay, Overrides
    <3>2. task'[Script].pc = "over"
      BY <2>1, <3>1 DEF Task
    <3> QED
      BY <1>1, <3>2
  <2>8. CASE UploadOverlay(Script)
    <3> DEFINE f == Overlaid(task[Script].picture, task[Script].domain)
    <3>1. f \in FileNames
      BY <1>1, <2>1, AtWork, FileParts
    <3>2. files' = [files EXCEPT ![f] = Content(task[Script].image, "new")]
      BY <2>8 DEF UploadOverlay
    <3>3. files'[f] = Content(task[Script].image, "new")
      BY <1>1, <3>1, <3>2 DEF PicturesInv, FilesOK
    <3> QED
      BY <3>3 DEF Content
  <2> QED
    BY <2>3, <2>4, <2>5, <2>6, <2>7, <2>8 DEF CacheSocialPicture
<1>2. PicturesInv /\ [Next]_vars =>
        [LET t == task[Script] IN
         t.pc \notin {"idle", "label?"} /\ task'[Script].pc = "idle" =>
            \/ files'[Overlaid(t.picture, t.domain)].label = "new"
            \/ UploadFails(Script) \/ BucketFails(Script)
            \/ TokenUriFails(Script) \/ ImageIsEmpty(Script)]_vars
  BY <1>1
<1> QED
  BY <1>2, PicturesInvariant, PTL DEF Spec, ScriptFixes
=============================================================================
