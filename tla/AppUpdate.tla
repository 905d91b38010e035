----------------------------- MODULE AppUpdate -----------------------------
(***************************************************************************)
(* What the worker of the app's own update does (crates/fl-update): the    *)
(* check asks for the manifest of the newest release and, in a request of  *)
(* its own, for its signature; the download reads the executable of the    *)
(* release the manifest names into a staging directory, chunk by chunk.    *)
(* Releases are built, signed and published meanwhile (release.rs, and the *)
(* workflow that calls it).                                                *)
(*                                                                         *)
(* External: the release pages. An answer is what the newest release has   *)
(* at the time of the request, or bytes that are not what was published.   *)
(* Sizes count chunks.                                                     *)
(***************************************************************************)
EXTENDS Naturals, Sequences, SequencesExt

CONSTANTS
    Current,        \* version of the running app, <<major, minor, patch>>
    Planned,        \* versions that are released, in this order
    Sizes,          \* what a build of the executable may weigh
    MaxSize,        \* MAX_APP_EXECUTABLE_BYTES
    Damaged         \* a document or signature that is not what was published

Version == Nat \X Nat \X Nat

ASSUME UpdateAssumption ==
    /\ MaxSize \in Nat \ {0} /\ Sizes \subseteq Nat
    /\ Current \in Version /\ Planned \in Seq(Version)

VARIABLES
    draft,          \* the release being made: nothing, or one manifest
    published,      \* the manifests of the releases, the newest last
    job,            \* the worker: step, the document it holds, chunks read
    offer,          \* State::Available: nothing, or one manifest
    staging,        \* the staging directory: "none", "partial" or "staged"
    installed       \* what replaced the executable: manifest and its bytes

releasing == <<draft, published>>
downloading == <<job, offer, staging, installed>>
release == <<releasing, downloading>>

NoJob == [step |-> "none", document |-> Damaged, chunks |-> 0, intact |-> TRUE]
CheckJob == [NoJob EXCEPT !.step = "manifest"]
InstallJob == [NoJob EXCEPT !.step = "request"]

ReleaseInit ==
    /\ draft = <<>> /\ published = <<>>
    /\ offer = <<>> /\ staging = "none" /\ installed = <<>>

----------------------------------------------------------------------------
\* Version::is_newer.
Newer(v, w) == \E i \in 1 .. 3 : v[i] > w[i] /\ \A j \in 1 .. i - 1 : v[j] = w[j]

\* Manifest::new, of a document that is signed.
ValidManifest(m) == m.size \in 1 .. MaxSize

\* build_manifest, for the version after those that have a release.
BuildRelease ==
    /\ draft = <<>> /\ Len(published) < Len(Planned)
    /\ \E size \in Sizes :
          LET m == [version |-> Planned[Len(published) + 1], size |-> size]
          IN  draft' = IF ValidManifest(m) THEN <<m>> ELSE <<>>
    /\ UNCHANGED <<published, downloading>>

\* sign_manifest_file refuses a key that is not the app's, which ends the
\* workflow; otherwise the release appears with all its files at once.
PublishRelease ==
    /\ draft # <<>>
    /\ \E signed \in BOOLEAN : published' = IF signed THEN published \o draft ELSE published
    /\ draft' = <<>>
    /\ UNCHANGED downloading

----------------------------------------------------------------------------
\* Each operator is one step of the worker and says what it answers.

Failed(answer, what) ==
    /\ answer = what
    /\ job' = [NoJob EXCEPT !.step = "answer"]
    /\ staging' = "none"

\* fetch_document for update.json: no connection, a status, too large; or bytes.
FetchManifest(answer) ==
    /\ job.step = "manifest"
    /\ \/ Failed(answer, "notNewer")
       \/ /\ answer = "nothing" /\ published # <<>>
          /\ \E document \in {Last(published), Damaged} :
                job' = [job EXCEPT !.step = "signature", !.document = document]
          /\ UNCHANGED staging
    /\ UNCHANGED <<releasing, offer, installed>>

\* verify_with_key: a signature is that of one manifest.
Verified(document, signed) == document # Damaged /\ signed = document

\* fetch_document for update.json.sig, then the rest of check_for_update.
FetchSignature(answer) ==
    /\ job.step = "signature"
    /\ \/ Failed(answer, "notNewer") /\ UNCHANGED offer
       \/ \E signed \in {Last(published), Damaged} :
             /\ IF Verified(job.document, signed) /\ Newer(job.document.version, Current)
                THEN answer = "newer" /\ offer' = <<job.document>>
                ELSE answer = "notNewer" /\ UNCHANGED offer
             /\ job' = [NoJob EXCEPT !.step = "answer"]
             /\ UNCHANGED staging
    /\ UNCHANGED <<releasing, installed>>

\* The length a server declares may be refused; or it declares none, or lies.
RequestExecutable(answer) ==
    /\ job.step = "request"
    /\ \/ Failed(answer, "installFailed")
       \/ /\ answer = "nothing"
          /\ job' = [job EXCEPT !.step = "body", !.document = Head(offer)]
          /\ staging' = "partial"
    /\ UNCHANGED <<releasing, offer, installed>>

\* Mutant: the digest of the file is not compared.
WholeSize(j) == j.chunks = j.document.size

\* The size and the digest the manifest declares.
Whole(j) == j.chunks = j.document.size /\ j.intact

\* One read of download_executable: a chunk, the end of the body, an error.
ReadBody(answer) ==
    /\ job.step = "body"
    /\ \/ /\ answer = "nothing" /\ job.chunks < job.document.size
          /\ \E good \in BOOLEAN :
                job' = [job EXCEPT !.chunks = @ + 1, !.intact = @ /\ good]
          /\ UNCHANGED staging
       \/ answer = "nothing" /\ Whole(job) /\ job' = [job EXCEPT !.step = "swap"] /\ staging' = "staged"
       \/ Failed(answer, "installFailed")
    /\ UNCHANGED <<releasing, offer, installed>>

\* replace_and_restart, whose steps are ExeSwap's. A swap removes the staging
\* directory and may be followed by a restart that fails; the worker removes
\* the directory when either does.
SwapIn(answer) ==
    /\ job.step = "swap"
    /\ \/ Failed(answer, "installFailed") /\ UNCHANGED installed
       \/ /\ answer \in {"installed", "installFailed"}
          /\ installed' = <<[manifest |-> job.document, chunks |-> job.chunks, intact |-> job.intact]>>
          /\ job' = [NoJob EXCEPT !.step = "answer"]
          /\ staging' = "none"
    /\ UNCHANGED <<releasing, offer>>

\* A step of the worker that answers, or goes on when answer is "nothing".
Work(answer) ==
    \/ FetchManifest(answer) \/ FetchSignature(answer)
    \/ RequestExecutable(answer) \/ ReadBody(answer) \/ SwapIn(answer)

----------------------------------------------------------------------------
Manifest == [version : Version, size : Sizes]
Steps == {"none", "answer", "manifest", "signature", "request", "body", "swap"}
Job == [step : Steps, document : Manifest \cup {Damaged}, chunks : Nat, intact : BOOLEAN]

Released(m) == m \in Range(published) /\ Newer(m.version, Current)

\* What the worker holds at each step, and what it leaves behind.
JobFacts ==
    /\ draft \in Seq(Manifest) /\ published \in Seq(Manifest) /\ offer \in Seq(Manifest)
    /\ job \in Job
    /\ job.step = "signature" =>
          published # <<>> /\ job.document \in Range(published) \cup {Damaged}
    /\ job.step = "request" => offer # <<>>
    /\ job.step \in {"body", "swap"} => Released(job.document)
    /\ job.step = "swap" => Whole(job)

\* What is offered is a published release that is newer, whatever was
\* published between the requests; what takes the executable's place is all of
\* the offered file and nothing else (check_for_update_with_key, 76-107;
\* download_executable, 141-216). A worker that has answered leaves no staging
\* directory behind.
InstallsWhatWasReleased ==
    /\ \A m \in Range(offer) \cup {i.manifest : i \in Range(installed)} : Released(m)
    /\ \A i \in Range(installed) : i.intact /\ i.chunks = i.manifest.size
    /\ job.step \in {"none", "answer", "manifest", "signature", "request"} => staging = "none"
============================================================================
