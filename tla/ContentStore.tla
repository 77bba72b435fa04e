---------------------------- MODULE ContentStore ----------------------------
(***************************************************************************)
(* The two stores of content named by its digest: the documents            *)
(* (persist and LocalDocumentProvider in                                   *)
(* desktop-host/src/phase2/attachments.ts) and the artifacts               *)
(* (ArtifactStore in desktop-host/src/phase3.ts), for one content that     *)
(* several requests add at the same time.  A file that is being written is *)
(* torn; its writer goes on writing it when it is renamed or removed.  A   *)
(* temporary file is named by the digest and the process, so two requests  *)
(* share it.                                                               *)
(***************************************************************************)
EXTENDS Naturals, FiniteSets

CONSTANT Adders  \* requests that add the content at the same time

VARIABLES
    file,   \* by store and path: "none", "torn" or "whole"
    adder,  \* where a request is, its store, the path it has open
    broken  \* history: stores whose object was left torn

contentVars == <<file, adder, broken>>

Stores == {"documents", "artifacts"}

\* The object, its manifest, and the temporary file of each.
Paths == {"object", "objectTmp", "manifest", "manifestTmp"}

NotAdding == [at |-> "idle", store |-> "documents", open |-> "none"]

ContentTypeOK ==
    /\ file \in [Stores -> [Paths -> {"none", "torn", "whole"}]]
    /\ adder \in [Adders ->
         [at : {"idle", "begin", "absent", "object", "placed", "manifest",
                "written", "clean"},
          store : Stores, open : Paths \union {"none", "gone"}]]
    /\ broken \subseteq Stores

ContentInit ==
    /\ file = [s \in Stores |-> [p \in Paths |-> "none"]]
    /\ adder = [w \in Adders |-> NotAdding]
    /\ broken = {}

At(w, place) == [adder EXCEPT ![w].at = place, ![w].open = "none"]

\* The content is valid: not empty, not too large, an archive without
\* macros; the directories are there.
BeginAdd(w, s) ==
    /\ adder[w].at = "idle"
    /\ adder' = [adder EXCEPT ![w] = [NotAdding EXCEPT !.at = "begin",
                                                       !.store = s]]
    /\ UNCHANGED <<file, broken>>

\* writeFile truncates the file and then writes it.
OpenFile(w, p, place) ==
    /\ file' = [file EXCEPT ![adder[w].store][p] = "torn"]
    /\ adder' = [adder EXCEPT ![w].at = place, ![w].open = p]

\* Mutant: an artifact is taken to be there once its directory is.
DirectoryIsThere == TRUE

\* put leaves an object alone that is there, whatever is in it.
ObjectIsThere == file["artifacts"]["object"] # "none"

\* stat: what it finds may be out of date when it is used.
LookForObject(w) ==
    /\ adder[w].at = "begin" /\ adder[w].store = "artifacts"
    /\ adder' = At(w, IF ObjectIsThere THEN "placed" ELSE "absent")
    /\ UNCHANGED <<file, broken>>

\* An artifact is written in place, though another request may have written
\* and listed it since the look.
WriteObject(w) ==
    /\ \/ /\ adder[w].at = "begin" /\ adder[w].store = "documents"
          /\ OpenFile(w, "objectTmp", "object")
       \/ /\ adder[w].at = "absent"
          /\ OpenFile(w, "object", "object")
    /\ UNCHANGED broken

\* The last writer of a file makes it whole.
Written(w) ==
    LET s == adder[w].store
        p == adder[w].open
    IN IF p \in {"none", "gone"}
          \/ \E v \in Adders \ {w} : adder[v].store = s /\ adder[v].open = p
       THEN UNCHANGED file
       ELSE file' = [file EXCEPT ![s][p] = "whole"]

FinishObject(w) ==
    /\ adder[w].at = "object" /\ adder[w].open # "none"
    /\ Written(w)
    /\ adder' = IF adder[w].store = "artifacts" THEN At(w, "placed")
                ELSE [adder EXCEPT ![w].open = "none"]
    /\ UNCHANGED broken

\* rename: who has the source open has the target open.
Rename(w, from, to, place) ==
    LET s == adder[w].store IN
    /\ file' = [file EXCEPT ![s] = [@ EXCEPT ![to] = file[s][from],
                                             ![from] = "none"]]
    /\ adder' = [v \in Adders |->
         IF v = w THEN [adder[w] EXCEPT !.at = place]
         ELSE IF adder[v].store # s THEN adder[v]
         ELSE [adder[v] EXCEPT !.open = CASE @ = from -> to
                                          [] @ = to -> "gone"
                                          [] OTHER -> @]]

\* The temporary file is gone if another request has used it up.
RenameObject(w) ==
    /\ adder[w].at = "object" /\ adder[w].open = "none"
    /\ IF file[adder[w].store]["objectTmp"] = "none"
       THEN adder' = At(w, "clean") /\ UNCHANGED file
       ELSE Rename(w, "objectTmp", "object", "placed")
    /\ UNCHANGED broken

WriteManifest(w) ==
    /\ adder[w].at = "placed"
    /\ OpenFile(w, IF adder[w].store = "documents" THEN "manifest"
                   ELSE "manifestTmp", "manifest")
    /\ UNCHANGED broken

FinishManifest(w) ==
    /\ adder[w].at = "manifest"
    /\ Written(w)
    /\ adder' = At(w, IF adder[w].store = "documents" THEN "clean"
                      ELSE "written")
    /\ UNCHANGED broken

RenameManifest(w) ==
    /\ adder[w].at = "written"
    /\ IF file[adder[w].store]["manifestTmp"] = "none"
       THEN adder' = At(w, "idle") /\ UNCHANGED file
       ELSE Rename(w, "manifestTmp", "manifest", "idle")
    /\ UNCHANGED broken

\* finally: the temporary file goes, whoever is writing it.
RemoveTemporary(w) ==
    /\ adder[w].at = "clean"
    /\ file' = [file EXCEPT !["documents"]["objectTmp"] = "none"]
    /\ adder' = [v \in Adders |->
         IF v = w THEN NotAdding
         ELSE IF adder[v].store = "documents" /\ adder[v].open = "objectTmp"
         THEN [adder[v] EXCEPT !.open = "gone"] ELSE adder[v]]
    /\ UNCHANGED broken

\* What w has open is the object, or is about to be renamed to it.
Torn(w) ==
    \/ adder[w].open = "object"
    \/ /\ adder[w].open = "objectTmp"
       /\ \E v \in Adders \ {w} :
            adder[v].store = "documents" /\ adder[v].at = "object"

\* A document's temporary file is removed after a failure, unless it was the
\* writing of that file that failed.
AfterFailure(w) ==
    IF /\ adder[w].store = "documents"
       /\ \/ adder[w].at \in {"placed", "manifest"}
          \/ adder[w].at = "object" /\ adder[w].open = "none"
    THEN "clean" ELSE "idle"

\* The disk is full, say: what is open stays as it is.
WriteFails(w) ==
    /\ adder[w].at \notin {"idle", "clean"}
    /\ adder' = At(w, AfterFailure(w))
    /\ broken' = IF Torn(w) THEN broken \union {adder[w].store}
                 ELSE broken
    /\ UNCHANGED file

HostCrashes ==
    /\ adder' = [w \in Adders |-> NotAdding]
    /\ broken' = broken \union
         {adder[w].store : w \in {v \in Adders : Torn(v)}}
    /\ UNCHANGED file

ContentNext ==
    \/ HostCrashes
    \/ \E w \in Adders :
         \/ LookForObject(w)
         \/ WriteObject(w) \/ FinishObject(w) \/ RenameObject(w)
         \/ WriteManifest(w) \/ FinishManifest(w) \/ RenameManifest(w)
         \/ RemoveTemporary(w) \/ WriteFails(w)
         \/ \E s \in Stores : BeginAdd(w, s)

ContentSpec == ContentInit /\ [][ContentNext]_contentVars

-----------------------------------------------------------------------------
(* Properties. *)

\* A manifest that is listed names content that can be read, whatever
\* requests, crashes and failures came between the files, while no request is
\* writing the object itself: except in a store where such a writer was cut
\* off, which for a document takes a second request that shares its temporary
\* file (persist, ArtifactStore.put).
ListedIsReadable ==
    \A s \in Stores \ broken :
        /\ file[s]["manifest"] = "whole"
        /\ \A w \in Adders : adder[w].store = s => adder[w].open # "object"
        => file[s]["object"] = "whole"
=============================================================================
