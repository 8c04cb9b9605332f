--------------------------- MODULE UpdaterProofs ---------------------------
(***************************************************************************)
(* Proofs about Updater for every set of releases and files, every channel, *)
(* origin and rollout bucket, and every component limit.                    *)
(***************************************************************************)
EXTENDS Updater, TLAPS

(* parse_version reads the first three components and nothing else.        *)
LEMMA ParsedParts ==
    ASSUME NEW v \in VersionString, ParseVersion(v).ok
    PROVE  /\ Len(v.parts) >= 3
           /\ \A i \in 1..3 : /\ v.parts[i] \in Nat /\ v.parts[i] <= MaxPart
                              /\ ParseVersion(v).triple[i] = v.parts[i]
<1>1. Len(v.parts) >= 3 /\ \A i \in 1..3 : v.parts[i] <= MaxPart
  BY DEF ParseVersion
<1>2. v.parts \in Seq(Nat)
  BY DEF VersionString
<1>3. \A i \in 1..3 : i \in 1..Len(v.parts) /\ v.parts[i] \in Nat
  BY <1>1, <1>2
<1>4. \A i \in 1..3 : ParseVersion(v).triple[i] = v.parts[i]
  BY <1>1, <1>2 DEF ParseVersion
<1>5. QED
  BY <1>1, <1>3, <1>4

(* What evaluate_manifest lets through is meant for this machine.          *)
LEMMA EvaluatedManifest ==
    ASSUME TypeOK, NEW body \in Payloads, NEW sig \in SignatureField,
           Served(sig), EvaluateManifest(body, sig, installed.version)
    PROVE  /\ MeantForUs(body)
           /\ ParseVersion(body.version).ok
           /\ Newer(body.version.parts, installed.version.parts)
<1>1. body \in signed
  BY DEF EvaluateManifest, VerifySignature, Served
<1>2. MeantForUs(body)
  BY <1>1 DEF EvaluateManifest, SameOrigin, MeantForUs
<1>3. body.version \in VersionString /\ installed.version \in VersionString
  BY UpdaterConstants DEF Payload, TypeOK, Build
<1>4. ParseVersion(body.version).ok /\ ParseVersion(installed.version).ok
  BY DEF EvaluateManifest
<1>5. \A i \in 1..3 :
         /\ ParseVersion(body.version).triple[i] = body.version.parts[i]
         /\ ParseVersion(installed.version).triple[i] = installed.version.parts[i]
  BY <1>3, <1>4, ParsedParts
<1>6. Newer(ParseVersion(body.version).triple, ParseVersion(installed.version).triple)
  BY DEF EvaluateManifest
<1>7. Newer(body.version.parts, installed.version.parts)
  <2>1. 1 \in 1..3 /\ 2 \in 1..3 /\ 3 \in 1..3
    OBVIOUS
  <2>2. QED
    BY <1>5, <1>6, <2>1 DEF Newer
<1>8. QED
  BY <1>2, <1>4, <1>7

(* The state before the first release: the shipped build, nothing offered. *)
LEMMA UpdaterInit == Init => UpdaterInv
<1> SUFFICES ASSUME Init PROVE UpdaterInv
  OBVIOUS
<1>1. NoOffer \in Offer /\ ~NoOffer.active
  BY UpdaterConstants DEF NoOffer, Offer
<1>2. TypeOK
  BY <1>1, UpdaterConstants DEF Init, TypeOK, Build
<1>3. StaysUpdatable
  BY ParsedParts, UpdaterConstants DEF Init, StaysUpdatable
<1>4. InstalledIsReleased /\ OfferIsGood
  BY <1>1 DEF Init, InstalledIsReleased, OfferIsGood
<1>5. QED
  BY <1>2, <1>3, <1>4 DEF UpdaterInv

(* A new signature only adds to what is released.                          *)
LEMMA SignStep ==
    ASSUME UpdaterInv, NEW p \in Payloads, Sign(p) PROVE UpdaterInv'
<1> USE DEF UpdaterInv, Sign
<1>1. TypeOK'
  BY DEF TypeOK
<1>2. \A q \in Payloads : MeantForUs(q) => MeantForUs(q)'
  BY DEF MeantForUs
<1>3. InstalledIsReleased'
  BY <1>2 DEF InstalledIsReleased
<1>4. StaysUpdatable'
  BY DEF StaysUpdatable
<1>5. OfferIsGood'
  BY DEF OfferIsGood, MeantForUs
<1>6. QED
  BY <1>1, <1>3, <1>4, <1>5

(* A manifest is acted on.                                                 *)
LEMMA CheckStep ==
    ASSUME UpdaterInv, NEW body \in Payloads, NEW sig \in SignatureField,
           CheckForUpdate(body, sig)
    PROVE  UpdaterInv'
<1> USE DEF UpdaterInv
<1>1. TypeOK'
  BY DEF CheckForUpdate, TypeOK, Offer
<1>2. InstalledIsReleased' /\ StaysUpdatable'
  BY DEF CheckForUpdate, InstalledIsReleased, StaysUpdatable, MeantForUs
<1>3. /\ MeantForUs(body)
      /\ ParseVersion(body.version).ok
      /\ Newer(body.version.parts, installed.version.parts)
  BY EvaluatedManifest DEF CheckForUpdate
<1>4. offer'.body = body /\ UNCHANGED <<signed, installed>>
  BY DEF CheckForUpdate
<1>5. OfferIsGood'
  BY <1>3, <1>4 DEF OfferIsGood, MeantForUs
<1>6. QED
  BY <1>1, <1>2, <1>5

(* The file that came is installed only if it is the one the offer names.  *)
LEMMA FinishStep ==
    ASSUME UpdaterInv, NEW file \in Files, FinishDownload(file)
    PROVE  /\ UpdaterInv'
           /\ installed' # installed =>
                 Newer(installed'.version.parts, installed.version.parts)
<1> USE DEF UpdaterInv
<1>1. NoOffer \in Offer /\ ~NoOffer.active
  BY UpdaterConstants DEF NoOffer, Offer
<1>2. OfferIsGood' /\ offer' \in Offer /\ signed' = signed
  BY <1>1 DEF FinishDownload, OfferIsGood
<1>3. CASE ~VerifyDownload(file, offer.body)
  <2>1. installed' = installed
    BY <1>3 DEF FinishDownload
  <2>2. TypeOK'
    BY <1>2, <2>1 DEF TypeOK
  <2>3. InstalledIsReleased' /\ StaysUpdatable'
    BY <1>2, <2>1 DEF InstalledIsReleased, StaysUpdatable, MeantForUs
  <2>4. QED
    BY <1>2, <2>1, <2>2, <2>3
<1>4. CASE VerifyDownload(file, offer.body)
  <2>1. /\ installed' = [version |-> offer.body.version, file |-> file]
        /\ file = offer.body.sha256 /\ offer.active
    BY <1>4 DEF FinishDownload, VerifyDownload
  <2>2. /\ offer.body \in Payloads /\ offer.body.version \in VersionString
        /\ MeantForUs(offer.body) /\ ParseVersion(offer.body.version).ok
        /\ Newer(offer.body.version.parts, installed.version.parts)
    BY <2>1, UpdaterConstants DEF OfferIsGood, TypeOK, Offer, Payload
  <2>3. TypeOK'
    BY <1>2, <2>1, <2>2 DEF TypeOK, Build
  <2>4. InstalledIsReleased'
    <3>1. MeantForUs(offer.body) /\ signed' = signed
      BY <1>2, <2>2
    <3>2. PICK p \in Payloads : p = offer.body
      BY <2>2
    <3>3. MeantForUs(p)'
      BY <3>1, <3>2 DEF MeantForUs
    <3>4. installed' = [version |-> p.version, file |-> p.sha256]
      BY <2>1, <3>2
    <3>5. QED
      BY <3>3, <3>4 DEF InstalledIsReleased
  <2>5. StaysUpdatable'
    BY <2>1, <2>2, ParsedParts DEF StaysUpdatable
  <2>6. Newer(installed'.version.parts, installed.version.parts)
    BY <2>1, <2>2
  <2>7. QED
    BY <1>2, <2>3, <2>4, <2>5, <2>6
<1>5. QED
  BY <1>3, <1>4

(* A restart throws the offer away.                                        *)
LEMMA RestartStep ==
    ASSUME UpdaterInv, Restart PROVE UpdaterInv'
<1> USE DEF UpdaterInv, Restart
<1>1. NoOffer \in Offer /\ ~NoOffer.active
  BY UpdaterConstants DEF NoOffer, Offer
<1>2. TypeOK'
  BY <1>1 DEF TypeOK
<1>3. InstalledIsReleased' /\ StaysUpdatable'
  BY DEF InstalledIsReleased, StaysUpdatable, MeantForUs
<1>4. OfferIsGood'
  BY <1>1 DEF OfferIsGood
<1>5. QED
  BY <1>2, <1>3, <1>4

(* Every step keeps the invariant, and the version it leaves is newer or the *)
(* same.                                                                     *)
LEMMA UpdaterStep ==
    ASSUME UpdaterInv, [Next]_vars
    PROVE  /\ UpdaterInv'
           /\ installed' # installed =>
                 Newer(installed'.version.parts, installed.version.parts)
<1>1. ASSUME NEW p \in Payloads, Sign(p)
      PROVE  UpdaterInv' /\ installed' = installed
  BY <1>1, SignStep DEF Sign
<1>2. ASSUME NEW body \in Payloads, NEW sig \in SignatureField,
             CheckForUpdate(body, sig)
      PROVE  UpdaterInv' /\ installed' = installed
  BY <1>2, CheckStep DEF CheckForUpdate
<1>3. ASSUME NEW file \in Files, FinishDownload(file)
      PROVE  /\ UpdaterInv'
             /\ installed' # installed =>
                   Newer(installed'.version.parts, installed.version.parts)
  BY <1>3, FinishStep
<1>4. ASSUME Restart PROVE UpdaterInv' /\ installed' = installed
  BY <1>4, RestartStep DEF Restart
<1>5. ASSUME UNCHANGED vars PROVE UpdaterInv' /\ installed' = installed
  BY <1>5 DEF vars, UpdaterInv, TypeOK, InstalledIsReleased, StaysUpdatable,
     OfferIsGood, MeantForUs
<1>6. QED
  BY <1>1, <1>2, <1>3, <1>4, <1>5 DEF Next

(* The inductive invariant: the download under way rests on a check that no  *)
(* later step can make stale.                                                *)
THEOREM UpdaterInvariant == Spec => []UpdaterInv
<1>1. UpdaterInv /\ [Next]_vars => UpdaterInv'
  BY UpdaterStep
<1>2. QED
  BY <1>1, UpdaterInit, PTL DEF Spec

(* evaluate_manifest and verify_download together: whatever manifest or file *)
(* is served, altered or replayed, only released files for this channel,     *)
(* origin and rollout slice are installed.                                   *)
THEOREM OnlyReleasesAreInstalled == Spec => []InstalledIsReleased
<1>1. UpdaterInv => InstalledIsReleased
  BY DEF UpdaterInv
<1>2. QED
  BY <1>1, UpdaterInvariant, PTL

(* parse_version is asked about the offered version before it is installed,  *)
(* so no build ends up with a version that blocks its own next update.       *)
THEOREM BuildsStayUpdatable == Spec => []StaysUpdatable
<1>1. UpdaterInv => StaysUpdatable
  BY DEF UpdaterInv
<1>2. QED
  BY <1>1, UpdaterInvariant, PTL

(* No order of releases, replays, downloads and restarts takes a machine     *)
(* back to an older version, although evaluate_manifest compares with the    *)
(* version of the moment it runs.                                            *)
THEOREM NoRollback == Spec => VersionOnlyGrows
<1>1. UpdaterInv /\ [Next]_vars =>
         [Newer(installed'.version.parts, installed.version.parts)]_installed
  BY UpdaterStep
<1>2. QED
  BY <1>1, UpdaterInvariant, PTL DEF Spec, VersionOnlyGrows
=============================================================================
