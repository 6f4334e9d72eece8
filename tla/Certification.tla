---------------------------- MODULE Certification ---------------------------
(***************************************************************************)
(* How a release comes to run: sessionweft-release-gate judges the         *)
(* evidence, scripts/release/package.sh certifies the adapters for the     *)
(* commit and packs their manifests, and a Runtime built from that commit  *)
(* reads the package again, file by file, before it registers a provider.  *)
(* Whoever deploys a package may change its files, while it is read too.   *)
(* An adapter is its id, version and kind; a manifest stands for its       *)
(* digest; what a file name or a commit looks like is left out.            *)
(***************************************************************************)
EXTENDS Naturals, Sequences, FiniteSets, SequencesExt

CONSTANTS
  ReleasePolicy,    \* [valid, gates, roles, critical, high]: release-policy.json
  ReleaseEvidences, \* what an evidence file may say
  ManifestFiles,    \* the names of manifest files, in their order
  Manifests,        \* [adapter, production, sources, gates]
  Certifications,   \* what a certification file may say
  SourcePaths,
  BuildCommit,
  RuntimeProviders, \* the adapters the Runtime registers, in this order
  MaxDeployEdits    \* bound: files changed in the package

VARIABLES
  evidence, \* of ReleaseEvidences
  package,  \* NoFile, or the files of the release
  daemon,   \* the Runtime process that runs the package
  certificates \* the certifications in the package since the Runtime last started

certificationVars == <<evidence, package, daemon, certificates>>

NoFile == [exists |-> FALSE]
Files == ToSet(ManifestFiles)
Adapters == {m.adapter : m \in Manifests}
Stopped == [at |-> "stopped", todo |-> {}, manifest |-> NoFile,
            certified |-> {}, registered |-> 0]

-----------------------------------------------------------------------------
(* The release gate.                                                       *)

\* "unproven" is a gate that passed and names no evidence.
GateHolds(status, level) == status = "passed" \/ (status = "waived" /\ level = "preflight")

Approves(signoff, level) ==
  /\ signoff.evidenced
  /\ \/ level = "rc" /\ signoff.decision \in {"rc", "ga"}
     \/ level = "ga" /\ signoff.decision = "ga" /\ signoff.human

\* A role's first sign-off counts and no later one.
SignedOff(e, role, level) ==
  \E i \in DOMAIN e.signoffs :
    /\ e.signoffs[i].role = role /\ Approves(e.signoffs[i], level)
    /\ \A j \in DOMAIN e.signoffs : e.signoffs[j].role = role => i <= j

GatePasses(e, level) ==
  /\ e.header /\ ReleasePolicy.valid
  /\ \A gate \in ReleasePolicy.gates : GateHolds(e.gates[gate], level)
  /\ e.critical <= ReleasePolicy.critical /\ e.high <= ReleasePolicy.high
  /\ level # "preflight" => \A role \in ReleasePolicy.roles : SignedOff(e, role, level)

-----------------------------------------------------------------------------
(* Certification of an adapter.                                            *)

ManifestIsValid(m) == m.sources # {} /\ (m.production => m.gates # {})

\* The first report of a gate is the one that is looked up.
GateIsProven(c, gate) ==
  \E i \in DOMAIN c.gates :
    /\ c.gates[i].gate = gate /\ c.gates[i].passed
    /\ \A j \in DOMAIN c.gates : c.gates[j].gate = gate => i <= j

\* Fault: of several reports of one gate the first is believed.
FirstReportCounts(c) == TRUE

GatesAreUnique(c) == IsInjective([i \in DOMAIN c.gates |-> c.gates[i].gate])

\* evaluate of the certification of a manifest, against the files there are.
ReportPasses(m, c, sources) ==
  /\ ManifestIsValid(m)
  /\ c.adapter = m.adapter /\ c.digest = m /\ c.signed
  /\ m.production => c.approved
  /\ m.sources \subseteq sources
  /\ \A gate \in m.gates : GateIsProven(c, gate)
  /\ GatesAreUnique(c)

\* What materialize-adapter-certifications.py writes: every gate passed.
Materialized(m) ==
  [adapter |-> m.adapter, digest |-> m, commit |-> BuildCommit, signed |-> TRUE,
   approved |-> m.production,
   gates |-> SetToSeq([gate : m.gates, passed : {TRUE}])]

\* The last manifest file of an adapter is the one that is certified.
CertificationOf(manifests, adapter) ==
  LET files == SelectSeq(ManifestFiles,
                         LAMBDA f : manifests[f] # NoFile /\ manifests[f].adapter = adapter)
  IN IF files = <<>> THEN NoFile ELSE Materialized(manifests[Last(files)])

\* sessionweft-adapter-certification: reports on all manifests, and at least one.
DirectoryPasses(manifests, certifications, sources) ==
  LET present == {f \in Files : manifests[f] # NoFile} IN
  /\ present # {}
  /\ \A f \in present :
       LET m == manifests[f] IN
       certifications[m.adapter] # NoFile /\ ReportPasses(m, certifications[m.adapter], sources)

\* package.sh for the tagged commit.
PackageRelease(level) ==
  /\ package = NoFile /\ GatePasses(evidence, level)
  /\ \E manifests \in [Files -> Manifests \cup {NoFile}] :
       LET certifications == [a \in Adapters |-> CertificationOf(manifests, a)] IN
       /\ DirectoryPasses(manifests, certifications, SourcePaths)
       /\ package' = [level |-> level, manifests |-> manifests,
                      certifications |-> certifications, sources |-> SourcePaths,
                      activation |-> ToSet(RuntimeProviders), edits |-> 0]
  /\ UNCHANGED <<evidence, daemon, certificates>>

\* A file of the package is replaced, added or removed.
EditPackage ==
  /\ package # NoFile /\ package.edits < MaxDeployEdits
  /\ \/ \E f \in Files, m \in Manifests \cup {NoFile} :
          package' = [package EXCEPT !.manifests[f] = m, !.edits = @ + 1] /\ certificates' = certificates
     \/ \E a \in Adapters, c \in Certifications \cup {NoFile} :
          /\ package' = [package EXCEPT !.certifications[a] = c, !.edits = @ + 1]
          /\ certificates' = certificates \cup ({c} \ {NoFile})
     \/ \E s \in SourcePaths :
          package' = [package EXCEPT !.sources = @ \ {s}, !.edits = @ + 1] /\ certificates' = certificates
     \/ \E activation \in SUBSET Adapters :
          /\ package' = [package EXCEPT !.activation = activation, !.edits = @ + 1]
          /\ certificates' = certificates
  /\ UNCHANGED <<evidence, daemon>>

-----------------------------------------------------------------------------
(* The Runtime: the first registration loads the certifications, once in   *)
(* the life of the process.  register panics when a provider is refused.   *)

DaemonStep == UNCHANGED <<evidence, package, certificates>>
PackedCertifications == {package.certifications[a] : a \in Adapters} \ {NoFile}
Panics == daemon' = Stopped

\* The names are read at once and their contents one by one, in their order.
ReadDirectory ==
  /\ daemon = Stopped /\ package # NoFile
  /\ daemon' = [Stopped EXCEPT !.at = "loading",
                  !.todo = {i \in DOMAIN ManifestFiles : package.manifests[ManifestFiles[i]] # NoFile}]
  /\ certificates' = PackedCertifications
  /\ UNCHANGED <<evidence, package>>

ReadManifest ==
  /\ daemon.at = "loading" /\ daemon.manifest = NoFile
  /\ \E i \in daemon.todo :
       LET m == package.manifests[ManifestFiles[i]] IN
       /\ \A j \in daemon.todo : i <= j
       /\ IF m = NoFile THEN Panics
          ELSE daemon' = [daemon EXCEPT !.manifest = m, !.todo = @ \ {i}]
  /\ DaemonStep

IsForThisBuild(c) == c.commit = BuildCommit

\* Missing, rejected, of another commit, or the adapter was there before.
VerifyCertification ==
  /\ daemon.at = "loading" /\ daemon.manifest # NoFile
  /\ LET m == daemon.manifest
         c == package.certifications[m.adapter] IN
     IF /\ c # NoFile /\ ReportPasses(m, c, package.sources) /\ IsForThisBuild(c)
        /\ m.adapter \notin daemon.certified
     THEN daemon' = [daemon EXCEPT !.manifest = NoFile, !.certified = @ \cup {m.adapter}]
     ELSE Panics
  /\ DaemonStep

\* verify_runtime_activation; no manifests at all is an error as well.
VerifyActivation ==
  /\ daemon.at = "loading" /\ daemon.manifest = NoFile /\ daemon.todo = {}
  /\ IF /\ daemon.certified # {} /\ package.activation # {}
        /\ package.activation \subseteq daemon.certified
     THEN daemon' = [daemon EXCEPT !.at = "serving"]
     ELSE Panics
  /\ DaemonStep

\* require_compiled_adapter and the insertion into the registry.
RegisterProvider ==
  /\ daemon.at = "serving" /\ daemon.registered < Len(RuntimeProviders)
  /\ IF RuntimeProviders[daemon.registered + 1] \in daemon.certified
     THEN daemon' = [daemon EXCEPT !.registered = @ + 1]
     ELSE Panics
  /\ DaemonStep

StopDaemon == daemon # Stopped /\ Panics /\ DaemonStep

-----------------------------------------------------------------------------
CertificationInit ==
  /\ evidence \in ReleaseEvidences
  /\ package = NoFile /\ daemon = Stopped /\ certificates = {}

CertificationNext ==
  \/ \E level \in {"preflight", "rc", "ga"} : PackageRelease(level)
  \/ EditPackage
  \/ ReadDirectory \/ ReadManifest \/ VerifyCertification \/ VerifyActivation
  \/ RegisterProvider \/ StopDaemon

CertificationSpec == CertificationInit /\ [][CertificationNext]_certificationVars

-----------------------------------------------------------------------------
\* Whatever was done to the package's files and when, a provider that is
\* registered was certified for the commit the Runtime was built from: since
\* it started the package held a certification of it that reports no required
\* gate as failed, all as passed, and approves it if it is for production
\* (VerifiedCertificationSet::load, require_compiled_adapter).
ProvidersAreCertified ==
  \A i \in 1..daemon.registered : \E c \in certificates :
    /\ c.digest.adapter = RuntimeProviders[i] /\ c.commit = BuildCommit
    /\ c.digest.production => c.approved
    /\ \A gate \in c.digest.gates :
         /\ \E item \in ToSet(c.gates) : item.gate = gate /\ item.passed
         /\ \A item \in ToSet(c.gates) : item.gate = gate => item.passed

\* What was packed at one level passes every lower one, and nothing is packed
\* for general availability whose required roles did not all have a human
\* approve it for that (evaluate of the release gate).
ReleasesAreGraded ==
  package # NoFile =>
    /\ GatePasses(evidence, "preflight")
    /\ package.level = "ga" =>
         /\ GatePasses(evidence, "rc")
         /\ \A role \in ReleasePolicy.roles : \E s \in ToSet(evidence.signoffs) :
              s.role = role /\ s.human /\ s.decision = "ga" /\ s.evidenced

\* What is released passed its gate, and what runs was certified.
ReleasesAreCertified == ReleasesAreGraded /\ ProvidersAreCertified
=============================================================================
