------------------------------ MODULE Pictures ------------------------------
(***************************************************************************)
(* The pictures of domains.  A domain may name an NFT in its record        *)
(* social.picture.value.  If the owner of the domain owns the NFT, its     *)
(* image is stored in a bucket of the CDN: once by itself and once per     *)
(* domain with the domain's name over it.  Three programs store pictures,  *)
(* with the same code (cacheSocialPictureInCDN) and no lock between them:  *)
(* the API when it is asked for an image, the worker when it mirrors the   *)
(* record, inside its transaction, and a script that rewrites the names on *)
(* stored pictures (utils/socialPicture/index.ts,                          *)
(* services/MetadataService.ts, controllers/MetaDataController.ts).        *)
(*                                                                         *)
(* No code deletes a file of the bucket, so that a look-up and the         *)
(* download after it are one step. Any of them may fail. The images        *)
(* themselves are not modelled, but for one that is empty.                 *)
(***************************************************************************)
EXTENDS FiniteSets

CONSTANTS
    Requests,      \* requests to /image and /image-src
    Worker, Script,
    Domains,
    Subdomains,    \* the domains that the script looks at
    Deprecated,    \* domains of the TLD .coin
    Custom,        \* domains with an image of their own
    Animals,       \* domains named after an animal
    Pictures,      \* NFTs
    EthPictures,   \* the ones of Ethereum: OpenSea is asked, and Moralis for the others
    Addresses,
    Owners,        \* [Domains -> SUBSET Addresses]: who may own a domain
    Holders,       \* [Pictures -> SUBSET Addresses]: who may own an NFT
    OldFiles,      \* what an older version may have stored: SUBSET (Pictures \X Subdomains)
    Named,         \* [Domains -> SUBSET (Pictures \cup {Invalid})]: records that are set
    None,          \* no record, no image, no name on a picture
    Invalid        \* a record that names no NFT

ASSUME PicturesAssumption ==
    /\ Subdomains \cup Deprecated \cup Custom \cup Animals \subseteq Domains
    /\ EthPictures \subseteq Pictures
    /\ {None, Invalid} \cap (Pictures \cup Domains) = {} /\ None # Invalid
    /\ Worker # Script /\ {Worker, Script} \cap Requests = {}
    /\ \A f \in OldFiles :
          /\ f \in Pictures \X Subdomains
          /\ f[1] \in Named[f[2]]
          /\ f[1] \in EthPictures \/ Owners[f[2]] \cap Holders[f[1]] # {}
    /\ \A d \in Domains : Named[d] \subseteq Pictures \cup {Invalid}
    /\ \A d \in Domains : Owners[d] \in (SUBSET Addresses) \ {{}}
    /\ \A p \in Pictures : Holders[p] \in (SUBSET Addresses) \ {{}}

VARIABLES
    holder,        \* the owner of every NFT
    rows,          \* committed: [owner, record] of every domain
    files,         \* the bucket: of every file name, its content
    task,          \* what every program is doing
    held           \* who has ever owned an NFT; no part of the program

vars == <<holder, held, rows, files, task>>

Programs == Requests \cup {Worker, Script}

(* getNFTFilenameInCDN: the file of a picture, and with the name of a domain *)
Plain(p) == <<p, None>>
Overlaid(p, d) == <<p, d>>
FileNames == Pictures \X (Domains \cup {None})

\* What is stored: the image, and whether its label is the one that is written now.
Absent == [image |-> None, label |-> "none"]
Content(p, l) == [image |-> p, label |-> l]

Stored(f) == files[f] # Absent

\* domain, owner and record are of the row; picture names the files; base and over
\* say which files were seen to exist; image is what was fetched; sure is no part
\* of the program: the answer must be a stored picture.
Idle == [pc |-> "idle", domain |-> None, owner |-> None, record |-> None,
         picture |-> None, overlay |-> FALSE, base |-> FALSE, over |-> FALSE,
         image |-> None, again |-> FALSE, sure |-> FALSE, answer |-> "none"]

TaskOf(pc, d, row) ==
    [Idle EXCEPT !.pc = pc, !.domain = d, !.owner = row.owner, !.record = row.record,
                 !.picture = row.record]

\* An older version of the program may have stored pictures with another label.
Init ==
    /\ holder \in [Pictures -> Addresses] /\ \A p \in Pictures : holder[p] \in Holders[p]
    /\ rows \in [Domains -> [owner : Addresses, record : {None}]]
    /\ \A d \in Domains : rows[d].owner \in Owners[d]
    /\ \E old \in SUBSET OldFiles :
          files = [f \in FileNames |->
                     CASE f \in old -> Content(f[1], "old")
                       [] f[2] = None /\ (\E d \in Domains : <<f[1], d>> \in old) ->
                            Content(f[1], "none")
                       [] OTHER -> Absent]
    /\ held = [p \in Pictures |-> {holder[p]} \cup
                   UNION {Owners[f[2]] : f \in {g \in OldFiles : g[1] = p /\ Stored(g)}}]
    /\ task = [c \in Programs |-> Idle]

\* An NFT is sold.
Trade(p) ==
    /\ \E a \in Holders[p] \ {holder[p]} :
          /\ holder' = [holder EXCEPT ![p] = a]
          /\ held' = [held EXCEPT ![p] = @ \cup {a}]
    /\ UNCHANGED <<rows, files, task>>

-----------------------------------------------------------------------------
(* cacheSocialPictureInCDN: what a program does next *)

\* parsePictureRecord throws unless the record names an NFT.
Parses(record) == record \in Pictures

\* What comes after it: the API looks for the file again; the worker saves the row,
\* also after an error; the script goes on, also after an error.
Cached(c, t) ==
    LET u == [t EXCEPT !.base = FALSE, !.over = FALSE, !.image = None] IN
    CASE c \in Requests -> [u EXCEPT !.pc = "find", !.again = TRUE]
      [] c = Worker -> [u EXCEPT !.pc = "save"]
      [] c = Script -> Idle
Answer(t, answer) ==
    [Idle EXCEPT !.pc = "answered", !.domain = t.domain, !.sure = t.sure,
                 !.picture = t.picture, !.answer = answer]
Failed(c, t) == IF c \in Requests THEN Answer(t, "error") ELSE Cached(c, t)

\* Both files were seen or written.
Complete(c, t) == Cached(c, [t EXCEPT !.sure = c \in Requests])

Overrides(c) == c = Script
WritesOverlay(c, t) == Overrides(c) \/ ~t.over

CheckBase(c) ==
    /\ task[c].pc = "base?"
    /\ task' = [task EXCEPT ![c].pc = "overlay?", ![c].base = Stored(Plain(task[c].picture))]
    /\ UNCHANGED <<holder, held, rows, files>>

CheckOverlay(c) ==
    /\ task[c].pc = "overlay?"
    /\ LET t == [task[c] EXCEPT !.pc = "fetch",
                                !.over = Stored(Overlaid(task[c].picture, task[c].domain))]
       IN task' = [task EXCEPT ![c] =
                     IF t.base /\ ~WritesOverlay(c, t) THEN Complete(c, t) ELSE t]
    /\ UNCHANGED <<holder, held, rows, files>>

\* OpenSea's image is taken whoever the owner is; Moralis' only if the NFT and the
\* domain have the same owner.  The mutant takes Moralis' always.
MatchesAlways(t) == TRUE
Matches(t) == t.record \in EthPictures \/ holder[t.record] = t.owner

\* fetchTokenMetadata: the image that the metadata names; None when the record names
\* no NFT, another owns it, or the service fails.  When the metadata has no image
\* it is asked for at the token's URI, and an error there is not caught.
ImageOf(t) == IF Parses(t.record) /\ Matches(t) THEN t.record ELSE None

FetchMetadata(c) ==
    LET t == task[c] IN
    /\ t.pc = "fetch"
    /\ \E image \in {None, ImageOf(t)} :
          task' = [task EXCEPT ![c].pc = "image", ![c].image = image]
    /\ UNCHANGED <<holder, held, rows, files>>
TokenUriFails(c) ==
    LET t == task[c] IN
    /\ t.pc = "fetch"
    /\ t.record \in Pictures \ EthPictures /\ Matches(t)
    /\ task' = [task EXCEPT ![c] = Failed(c, t)]
    /\ UNCHANGED <<holder, held, rows, files>>

\* Only requests set a time limit, and only to Moralis.  The mutant sets none.
UnlimitedTime(c) == FALSE
WithTimeout(c) == c \in Requests
TimeOut(c) ==
    LET t == task[c] IN
    /\ t.pc = "fetch"
    /\ WithTimeout(c) /\ t.record \notin EthPictures
    /\ task' = [task EXCEPT ![c].pc = "image"]
    /\ UNCHANGED <<holder, held, rows, files>>

\* With an image, what is missing is uploaded.
WithImage(t, image) ==
    [t EXCEPT !.image = image, !.pc = IF t.base THEN "over" ELSE "plain"]

FetchImage(c) ==
    LET t == task[c] IN
    /\ t.pc = "image" /\ t.image # None
    /\ task' = [task EXCEPT ![c] = WithImage(t, t.image)]
    /\ UNCHANGED <<holder, held, rows, files>>

\* When there is no image or it cannot be fetched, the script goes on with the one of
\* the stored file.  The mutant gives up, as the others do.
NoFallback(c, t) == Cached(c, t)
Fallback(c, t) ==
    IF Overrides(c) THEN [t EXCEPT !.pc = "stored", !.image = None] ELSE Cached(c, t)

ImageFails(c) ==
    /\ task[c].pc = "image"
    /\ task' = [task EXCEPT ![c] = Fallback(c, task[c])]
    /\ UNCHANGED <<holder, held, rows, files>>

\* An image without a byte is no error and not uploaded.
ImageIsEmpty(c) ==
    LET t == task[c] IN
    /\ t.pc = "image" /\ t.image # None
    /\ task' = [task EXCEPT ![c] = Cached(c, t)]
    /\ UNCHANGED <<holder, held, rows, files>>

ReadStored(c) ==
    LET t == task[c] IN
    /\ t.pc = "stored" /\ Stored(Plain(t.picture))
    /\ task' = [task EXCEPT ![c] = WithImage(t, files[Plain(t.picture)].image)]
    /\ UNCHANGED <<holder, held, rows, files>>

\* The bucket does not answer a question.  The error of the script's question for the
\* stored file is caught, and nothing is uploaded; the others are the caller's.
BucketFails(c) ==
    /\ task[c].pc \in {"find", "label?", "base?", "overlay?", "stored"}
    /\ task' = [task EXCEPT ![c] = Failed(c, task[c])]
    /\ UNCHANGED <<holder, held, rows, files>>

\* The files are uploaded one after the other.  The mutant skips the first.
OnlyOverlay(c) ==
    /\ task[c].pc = "plain"
    /\ task' = [task EXCEPT ![c].pc = "over"]
    /\ UNCHANGED <<holder, held, rows, files>>
UploadPlain(c) ==
    LET t == task[c] IN
    /\ t.pc = "plain"
    /\ files' = [files EXCEPT ![Plain(t.picture)] = Content(t.image, "none")]
    /\ task' = [task EXCEPT ![c] =
          IF WritesOverlay(c, t) THEN [t EXCEPT !.pc = "over"] ELSE Complete(c, t)]
    /\ UNCHANGED <<holder, held, rows>>

UploadOverlay(c) ==
    LET t == task[c] IN
    /\ t.pc = "over"
    /\ files' = [files EXCEPT ![Overlaid(t.picture, t.domain)] = Content(t.image, "new")]
    /\ task' = [task EXCEPT ![c] = Complete(c, t)]
    /\ UNCHANGED <<holder, held, rows>>

UploadFails(c) ==
    /\ task[c].pc \in {"plain", "over"}
    /\ task' = [task EXCEPT ![c] = Failed(c, task[c])]
    /\ UNCHANGED <<holder, held, rows, files>>

CacheSocialPicture(c) ==
    \/ CheckBase(c) \/ CheckOverlay(c)
    \/ FetchMetadata(c) \/ TokenUriFails(c) \/ TimeOut(c)
    \/ FetchImage(c) \/ ImageFails(c) \/ ImageIsEmpty(c) \/ ReadStored(c)
    \/ UploadPlain(c) \/ UploadOverlay(c)
    \/ UploadFails(c) \/ BucketFails(c)

-----------------------------------------------------------------------------
(* GET /image and /image-src *)

\* The file that is asked for.
Wanted(t) == IF t.overlay THEN Overlaid(t.picture, t.domain) ELSE Plain(t.picture)

\* A record that cannot be parsed makes the request fail.
Ask(c) ==
    /\ task[c].pc \in {"idle", "answered"}
    /\ \E d \in Domains, overlay \in BOOLEAN :
          LET row == rows[d]
              t   == [TaskOf("find", d, row) EXCEPT !.overlay = overlay]
          IN task' = [task EXCEPT ![c] =
               CASE d \in Deprecated \/ row.record = None ->
                      [t EXCEPT !.pc = "generate", !.picture = None]
                 [] d \notin Deprecated /\ row.record # None /\ ~Parses(row.record) -> Failed(c, t)
                 [] OTHER -> [t EXCEPT !.sure = Stored(Wanted(t))]]
    /\ UNCHANGED <<holder, held, rows, files>>

\* getOrCacheNowPfpNFT: look, store, and look again.  The mutant looks once.
FindOnce(t) ==
    CASE t.again -> [t EXCEPT !.pc = "generate"]
      [] ~t.again /\ Stored(Wanted(t)) ->
           Answer(t, files[Wanted(t)].image)
      [] OTHER -> [t EXCEPT !.pc = "base?"]
Find(t) ==
    CASE Stored(Wanted(t)) -> Answer(t, files[Wanted(t)].image)
      [] ~Stored(Wanted(t)) /\ t.again -> [t EXCEPT !.pc = "generate"]
      [] ~Stored(Wanted(t)) /\ ~t.again -> [t EXCEPT !.pc = "base?"]
GetFromCDN(c) ==
    /\ task[c].pc = "find"
    /\ task' = [task EXCEPT ![c] = Find(task[c])]
    /\ UNCHANGED <<holder, held, rows, files>>

\* The profile images are services' answers; errors are caught but the one for the
\* image of an animal.
AnimalImage(d) == IF d \in Animals THEN {"animal", "error"} ELSE {"default"}
OnChainProfileImage(d) == {"on chain", "none"}
OffChainProfileImage(d) == {"off chain", "none"}
FirstOf(on, off, animal) == IF on # "none" THEN on ELSE IF off # "none" THEN off ELSE animal
GeneratedImages(d) ==
    CASE d \in Deprecated -> {"default"}
      [] d \in Custom \ Deprecated -> {"none"}
      [] OTHER -> {FirstOf(on, off, animal) : on \in OnChainProfileImage(d),
                      off \in OffChainProfileImage(d), animal \in AnimalImage(d)}

Generate(c) ==
    /\ task[c].pc = "generate"
    /\ \E image \in GeneratedImages(task[c].domain) :
          task' = [task EXCEPT ![c] = Answer(task[c], image)]
    /\ UNCHANGED <<holder, held, rows, files>>

Request(c) == Ask(c) \/ GetFromCDN(c) \/ Generate(c) \/ CacheSocialPicture(c)

-----------------------------------------------------------------------------
(* The worker: saveResolutions *)

\* The row as it will be saved is the one whose owner must own the NFT.  The mutant
\* takes the row as it was.
AsBefore(d, new) == rows[d]
Updated(d, new) == new

\* A record is set; an error of the record is caught.
SetRecord ==
    /\ task[Worker].pc = "idle"
    /\ \E d \in Domains : \E r \in Named[d] :
          LET new == [owner |-> rows[d].owner, record |-> r]
              pc  == IF Parses(r) THEN "base?" ELSE "save"
          IN task' = [task EXCEPT ![Worker] =
                        [TaskOf(pc, d, Updated(d, new)) EXCEPT !.picture = r]]
    /\ UNCHANGED <<holder, held, rows, files>>

\* A domain is transferred and loses its records.
Transfer ==
    /\ task[Worker].pc = "idle"
    /\ \E d \in Domains : \E a \in Owners[d] :
          task' = [task EXCEPT ![Worker] = TaskOf("save", d, [owner |-> a, record |-> None])]
    /\ UNCHANGED <<holder, held, rows, files>>

Save ==
    LET t == task[Worker] IN
    /\ t.pc = "save"
    /\ rows' = [rows EXCEPT ![t.domain] = [owner |-> t.owner, record |-> t.picture]]
    /\ task' = [task EXCEPT ![Worker] = Idle]
    /\ UNCHANGED <<holder, held, files>>

\* The transaction is rolled back, or the worker dies: the files stay.
Rollback ==
    /\ task[Worker].pc # "idle"
    /\ task' = [task EXCEPT ![Worker] = Idle]
    /\ UNCHANGED <<holder, held, rows, files>>

WorkerStep == SetRecord \/ Transfer \/ Save \/ Rollback \/ CacheSocialPicture(Worker)

-----------------------------------------------------------------------------
(* The script fixSocialImageForSubdomains *)

\* The rows are read by the page, long before the script comes to a subdomain.
ReadPage ==
    /\ task[Script].pc = "idle"
    /\ \E d \in Subdomains :
          /\ rows[d].record # None
          /\ task' = [task EXCEPT ![Script] = TaskOf("label?", d, rows[d])]
    /\ UNCHANGED <<holder, held, rows, files>>

\* Only a stored picture with another label is written again.
CheckLabel ==
    LET t == task[Script]
        isOld == /\ Parses(t.picture)
                 /\ files[Overlaid(t.picture, t.domain)].label = "old"
    IN /\ t.pc = "label?"
       /\ task' = [task EXCEPT ![Script] = IF isOld THEN [t EXCEPT !.pc = "base?"] ELSE Idle]
       /\ UNCHANGED <<holder, held, rows, files>>

ScriptStep == ReadPage \/ CheckLabel \/ CacheSocialPicture(Script)

-----------------------------------------------------------------------------
Next ==
    \/ \E p \in Pictures : Trade(p)
    \/ \E c \in Requests : Request(c)
    \/ WorkerStep
    \/ ScriptStep

Spec == Init /\ [][Next]_vars

\* What a request awaits has an end of its own: the storage and the image answer or
\* fail.  OpenSea is assumed to answer or to fail; Moralis is not.
FairSpec ==
    /\ Spec
    /\ \A c \in Requests :
          WF_vars(\/ GetFromCDN(c) \/ CheckBase(c) \/ CheckOverlay(c)
                  \/ task[c].record \in EthPictures /\ FetchMetadata(c)
                  \/ TimeOut(c)
                  \/ FetchImage(c) \/ ImageFails(c)
                  \/ UploadPlain(c) \/ UploadOverlay(c) \/ Generate(c))

-----------------------------------------------------------------------------
(* Properties *)

\* Rows, files and tasks are of known domains and NFTs; and a file holds the image of
\* the NFT it is named after, whichever program stored it and from whichever row
\* (WorkerRepository.ts:138).
TypeOK ==
    /\ \A f \in FileNames : Stored(f) => files[f].image = f[1]
    /\ \A p \in Pictures : holder[p] \in Holders[p]
    /\ \A d \in Domains : rows[d].owner \in Owners[d] /\ rows[d].record \in Named[d] \cup {None}
    /\ \A c \in Programs : task[c].pc # "idle" => task[c].domain \in Domains
    /\ \A c \in Programs : task[c].pc \in {"plain", "over"} => task[c].image \in Pictures
    /\ \A f \in FileNames : files[f].label # "none" => f[2] # None /\ Stored(f)
    /\ \A p \in Pictures : holder[p] \in held[p] /\ held[p] \subseteq Addresses

\* A picture with a name on it is never alone in the bucket, although several
\* programs store it at once and any upload may fail (socialPicture/index.ts:249):
\* the script needs the picture without the name.
PlainWithOverlaid ==
    \A p \in Pictures, d \in Domains : Stored(Overlaid(p, d)) => Stored(Plain(p))

\* A picture that Moralis vouches for bears the name of a domain only if an owner of
\* the domain has owned the NFT, and is stored at all only if this is true of a domain
\* that may name it, though domains and NFTs are sold between the check and the upload
\* (MetadataService.ts:128).
StoredVerified ==
    \A p \in Pictures \ EthPictures :
        /\ \A d \in Domains : Stored(Overlaid(p, d)) => Owners[d] \cap held[p] # {}
        /\ Stored(Plain(p)) =>
              \E d \in Domains : p \in Named[d] /\ Owners[d] \cap held[p] # {}

\* A request for a picture that is stored when it begins, or that it has stored
\* itself, is answered with this picture and not with a generated one, or with an
\* error when the bucket fails (MetadataService.ts:258).
AnsweredWithPicture ==
    \A c \in Requests :
        LET t == task[c] IN
        t.pc = "answered" /\ t.sure => t.answer \in {t.picture, "error"}

\* The script leaves a picture that it looked at with its new label, also when there is
\* no image any more, it cannot be fetched or the NFT was sold (socialPicture/index.ts:198).
\* It leaves it with the old one only if the bucket fails in a question or an upload,
\* the request for the token's URI fails, or the image is answered without a byte.
ScriptFixes ==
    [][LET t == task[Script] IN
       t.pc \notin {"idle", "label?"} /\ task'[Script].pc = "idle" =>
          \/ files'[Overlaid(t.picture, t.domain)].label = "new"
          \/ UploadFails(Script) \/ BucketFails(Script)
          \/ TokenUriFails(Script) \/ ImageIsEmpty(Script)]_vars

\* Every request is answered, although Moralis may never answer (MetadataService.ts:111).
EventuallyAnswered ==
    \A c \in Requests : task[c].pc # "idle" ~> task[c].pc = "answered"
=============================================================================
