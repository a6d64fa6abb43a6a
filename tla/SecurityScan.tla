----------------------------- MODULE SecurityScan -----------------------------
(***************************************************************************)
(* Real-time scans (src/common/security_scan): the client asks for a scan  *)
(* of a document, the server sends its text to the instance, publishes     *)
(* what it found as the document's diagnostics, and tells the client.      *)
(*                                                                         *)
(* Scans of one document are not ordered.  Diagnostics are replaced by the *)
(* next scan that succeeds and by nothing else: not by an edit, by closing *)
(* the document, by switching scans off, or by a scan that fails.          *)
(***************************************************************************)
EXTENDS Naturals, Sequences, FiniteSets

CONSTANTS
  ScannedDocuments,
  MaxVersions,     \* bound: the texts of a document
  MaxScans         \* bound

VARIABLES
  texts,         \* [ScannedDocuments -> version; 0 when it is not open]
  scanning,      \* client.securityScannerOptions.enabled and the feature flag
  scans,         \* in the order they were asked for
  diagnostics,   \* [ScannedDocuments -> what the client shows: [scan, found]]
  told           \* [ScannedDocuments -> the last result it was told]

scanVars == <<texts, scanning, scans, diagnostics, told>>

Nothing == [scan |-> 0, found |-> FALSE]

ScanInit ==
  /\ texts = [d \in ScannedDocuments |-> 0]
  /\ scanning = FALSE
  /\ scans = <<>>
  /\ diagnostics = [d \in ScannedDocuments |-> Nothing]
  /\ told = [d \in ScannedDocuments |-> Nothing]

-----------------------------------------------------------------------------
EditDocument(d) ==
  /\ texts[d] < MaxVersions /\ texts' = [texts EXCEPT ![d] = @ + 1]
  /\ UNCHANGED <<scanning, scans, diagnostics, told>>

CloseDocument(d) ==
  /\ texts[d] > 0 /\ texts' = [texts EXCEPT ![d] = 0]
  /\ UNCHANGED <<scanning, scans, diagnostics, told>>

SwitchScans ==
  /\ scanning' = ~scanning
  /\ UNCHANGED <<texts, scans, diagnostics, told>>

AtWork(d) == {n \in DOMAIN scans : scans[n].of = d /\ scans[n].at # "done"}

\* #runSecurityScan up to its first await: the text is read here.  The uri of
\* a document that is not open, and one switched off, end in silence; without
\* a folder or a project the client is told at once.
Scan(d) ==
  /\ Len(scans) < MaxScans
  /\ texts[d] > 0
  /\ LET scan == [of |-> d, at |-> "asked", found |-> FALSE,
                  alone |-> AtWork(d) = {}]
         overlapped == [n \in DOMAIN scans |->
                          IF n \in AtWork(d) THEN [scans[n] EXCEPT !.alone = FALSE]
                          ELSE scans[n]]
     IN  \/ scanning /\ scans' = Append(overlapped, scan) /\ UNCHANGED told
         \/ ~scanning /\ UNCHANGED <<scans, told>>
         \/ UNCHANGED scans /\ told' = [told EXCEPT ![d] = Nothing]
  /\ UNCHANGED <<texts, scanning, diagnostics>>

\* Mutant: a scan without findings has nothing to publish.
publishFindings(n, found) ==
  IF found THEN [diagnostics EXCEPT ![scans[n].of] = [scan |-> n, found |-> TRUE]]
  ELSE diagnostics

publish(n, found) == [diagnostics EXCEPT ![scans[n].of] = [scan |-> n, found |-> found]]

\* The instance answers; a list of vulnerabilities is published.
ScanAnswered(n) ==
  /\ scans[n].at = "asked"
  /\ \E found \in BOOLEAN :
       /\ diagnostics' = publish(n, found)
       /\ scans' = [scans EXCEPT ![n].at = "published", ![n].found = found]
  /\ UNCHANGED <<texts, scanning, told>>

\* An answer without a list ends the scan in silence.
AnswerIgnored(n) ==
  /\ scans[n].at = "asked"
  /\ scans' = [scans EXCEPT ![n].at = "done"]
  /\ UNCHANGED <<texts, scanning, diagnostics, told>>

ClientTold(n) ==
  /\ scans[n].at = "published"
  /\ scans' = [scans EXCEPT ![n].at = "done"]
  /\ told' = [told EXCEPT ![scans[n].of] = [scan |-> n, found |-> scans[n].found]]
  /\ UNCHANGED <<texts, scanning, diagnostics>>

\* #handleError, of the request or of publishing: the client hears of the error.
ScanFails(n) ==
  /\ scans[n].at \in {"asked", "published"}
  /\ scans' = [scans EXCEPT ![n].at = "done"]
  /\ told' = [told EXCEPT ![scans[n].of] = Nothing]
  /\ UNCHANGED <<texts, scanning, diagnostics>>

ScanNext ==
  \/ SwitchScans
  \/ \E d \in ScannedDocuments : EditDocument(d) \/ CloseDocument(d) \/ Scan(d)
  \/ \E n \in DOMAIN scans :
       ScanAnswered(n) \/ AnswerIgnored(n) \/ ClientTold(n) \/ ScanFails(n)

ScanSpec == ScanInit /\ [][ScanNext]_scanVars

-----------------------------------------------------------------------------
\* What the client shows in a document agrees with the last result it was told
\* of, also when that found nothing: whatever failed before, was edited or was
\* switched off, unless two scans of the document were at work at one time.
DiagnosticsMatchTheResult ==
  \A d \in ScannedDocuments :
    (/\ told[d] # Nothing /\ AtWork(d) = {}
     /\ \A n \in DOMAIN scans : scans[n].of = d => scans[n].alone)
    => diagnostics[d] = told[d]

=============================================================================
