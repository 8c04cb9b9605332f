------------------------------ MODULE Updater ------------------------------
(***************************************************************************)
(* The companion's updater (fiveprotect-core/src/updater.rs): which         *)
(* manifest a build acts on and which file it installs.  The update server  *)
(* and everything between it and the machine is the environment: it serves  *)
(* old manifests again, alters them, signs them with another key and swaps  *)
(* the file.  Fetching and installing are not in the source; they are the   *)
(* steps around evaluate_manifest and verify_download that those two were   *)
(* written for.                                                             *)
(***************************************************************************)
EXTENDS Integers, Sequences

CONSTANTS
    Payloads,       \* releases the key holder may sign
    Files,          \* installers, each standing for its SHA-256 as well
    FirstVersion,   \* what is installed at the start
    FirstFile,
    Channel, DownloadOrigin, RolloutBucket,   \* the UpdatePolicy of the build
    MaxPart         \* u32::MAX, the largest version component that parses

(* A version string: its dot-separated numbers and whether a pre-release or  *)
(* build tag follows.                                                        *)
VersionString == [parts : Seq(Nat), tagged : BOOLEAN]

(* A URL by what origin_of reads of it, lowercased.                          *)
Url == [scheme : {"https", "http", "other"}, authority : STRING]

(* What signing_payload covers: every field but the signature.               *)
Payload == [version : VersionString, sha256 : Files, url : Url,
            channel : STRING, percent : 0..100]

ASSUME UpdaterConstants ==
    /\ Payloads \subseteq Payload /\ Payloads # {}
    /\ FirstFile \in Files
    /\ FirstVersion \in VersionString
    /\ DownloadOrigin \in Url
    /\ RolloutBucket \in 0..99
    /\ MaxPart \in Nat

(* The signature field after decode_signature: 64 bytes, written as hex or   *)
(* as base64, or something that does not decode to 64 bytes.  The bytes are  *)
(* a signature of one key over one payload.                                  *)
SignatureField ==
    [form : {"hex", "base64", "undecodable"}, key : {"ours", "other"},
     over : Payloads]

VARIABLES
    signed,     \* payloads the holder of the compiled-in key has signed
    installed,  \* the build in place: [version, file]
    offer       \* the manifest being downloaded: [active, body]

vars == <<signed, installed, offer>>

Build == [version : VersionString, file : Files]
Offer == [active : BOOLEAN, body : Payloads]

-----------------------------------------------------------------------------
(* parse_version: the first three components, each a u32; the tag and        *)
(* further components are ignored.                                           *)
WrappingVersion(v) ==
    [ok |-> Len(v.parts) >= 3,
     triple |-> [i \in 1..3 |-> IF i <= Len(v.parts)
                                THEN v.parts[i] % (MaxPart + 1) ELSE 0]]
LenientVersion(v) ==
    [ok |-> TRUE,
     triple |-> [i \in 1..3 |-> IF i <= Len(v.parts) THEN v.parts[i] ELSE 0]]
ParseVersion(v) ==
    [ok |-> Len(v.parts) >= 3 /\ \A i \in 1..3 : v.parts[i] <= MaxPart,
     triple |-> [i \in 1..3 |-> IF i <= Len(v.parts) THEN v.parts[i] ELSE 0]]

(* The order of tuples.                                                      *)
Newer(a, b) ==
    \/ a[1] > b[1]
    \/ a[1] = b[1] /\ a[2] > b[2]
    \/ a[1] = b[1] /\ a[2] = b[2] /\ a[3] > b[3]

(* is_same_origin: scheme and authority both present and equal.              *)
SameOrigin(url, origin) ==
    /\ url.scheme \in {"https", "http"} /\ url.authority # ""
    /\ url = origin

(* verify_signature.                                                         *)
SignedByUs(body, sig) == sig.form # "undecodable" /\ sig.key = "ours"
VerifySignature(body, sig) ==
    sig.form # "undecodable" /\ sig.key = "ours" /\ sig.over = body

(* evaluate_manifest, its checks in order; the last decides whether this     *)
(* machine is in the rollout slice yet.                                      *)
EvaluateManifest(body, sig, current) ==
    /\ VerifySignature(body, sig)
    /\ body.channel = Channel
    /\ SameOrigin(body.url, DownloadOrigin)
    /\ ParseVersion(body.version).ok
    /\ ParseVersion(current).ok
    /\ Newer(ParseVersion(body.version).triple, ParseVersion(current).triple)
    /\ RolloutBucket < body.percent

(* verify_download: the file is the one the manifest names.                  *)
TrustDownload(file, body) == TRUE
VerifyDownload(file, body) == file = body.sha256

-----------------------------------------------------------------------------
NoOffer == [active |-> FALSE, body |-> CHOOSE p \in Payloads : TRUE]

Init ==
    /\ signed = {}
    /\ installed = [version |-> FirstVersion, file |-> FirstFile]
    /\ ParseVersion(FirstVersion).ok
    /\ offer = NoOffer

(* The key holder signs a release.                                           *)
Sign(p) ==
    /\ p \notin signed
    /\ signed' = signed \cup {p}
    /\ UNCHANGED <<installed, offer>>

(* Nobody else has a signature of our key over anything else.                *)
Served(sig) == sig.key = "ours" => sig.over \in signed

(* A check: a manifest arrives, whole or altered, and is acted on or refused *)
(* (refused and not-yet leave everything as it is).                          *)
CheckForUpdate(body, sig) ==
    /\ ~offer.active
    /\ Served(sig)
    /\ EvaluateManifest(body, sig, installed.version)
    /\ offer' = [active |-> TRUE, body |-> body]
    /\ UNCHANGED <<signed, installed>>

(* The download ends with some file, which is installed or thrown away.      *)
FinishDownload(file) ==
    /\ offer.active
    /\ offer' = NoOffer
    /\ installed' = IF VerifyDownload(file, offer.body)
                    THEN [version |-> offer.body.version, file |-> file]
                    ELSE installed
    /\ UNCHANGED signed

(* The process ends before the download does; nothing of it is kept.         *)
Restart ==
    /\ offer.active
    /\ offer' = NoOffer
    /\ UNCHANGED <<signed, installed>>

Next ==
    \/ \E p \in Payloads : Sign(p)
    \/ \E body \in Payloads, sig \in SignatureField : CheckForUpdate(body, sig)
    \/ \E file \in Files : FinishDownload(file)
    \/ Restart

Spec == Init /\ [][Next]_vars

-----------------------------------------------------------------------------
(* Every variable holds a value of its type.                                 *)
TypeOK ==
    /\ signed \subseteq Payloads
    /\ installed \in Build
    /\ offer \in Offer

(* A release of this channel and origin whose slice reaches this machine.    *)
MeantForUs(p) ==
    /\ p \in signed
    /\ p.channel = Channel
    /\ p.url = DownloadOrigin
    /\ RolloutBucket < p.percent

(* Whatever is served, altered, replayed or swapped: the build in place is   *)
(* the one the program shipped with, or exactly a file the key holder        *)
(* released under that version, for this channel, origin and rollout slice.  *)
InstalledIsReleased ==
    \/ installed = [version |-> FirstVersion, file |-> FirstFile]
    \/ \E p \in Payloads : /\ MeantForUs(p)
                           /\ installed = [version |-> p.version,
                                           file |-> p.sha256]

(* A build never installs a version its own updater cannot parse: every      *)
(* later check would refuse with MalformedVersion and the machine would be   *)
(* cut off from updates for good.                                            *)
StaysUpdatable ==
    /\ Len(installed.version.parts) >= 3
    /\ \A i \in 1..3 : installed.version.parts[i] <= MaxPart

(* The first three numbers of the installed version only ever grow, through  *)
(* any order of releases, replays and restarts; a tag never decides, so a    *)
(* pre-release is not replaced by its own final version either.              *)
VersionOnlyGrows ==
    [][Newer(installed'.version.parts, installed.version.parts)]_installed

(* Why the download may be installed: the offer was meant for this machine   *)
(* when it was checked, and nothing was installed since.                     *)
OfferIsGood ==
    offer.active =>
        /\ MeantForUs(offer.body)
        /\ ParseVersion(offer.body.version).ok
        /\ Newer(offer.body.version.parts, installed.version.parts)

UpdaterInv == TypeOK /\ InstalledIsReleased /\ StaysUpdatable /\ OfferIsGood
=============================================================================
