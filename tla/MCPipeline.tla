----------------------------- MODULE MCPipeline -----------------------------
(* Three files every run renders, one of them a report, one only some      *)
(* snapshots call for and one certificate; six command lines.            *)
EXTENDS Pipeline

CONSTANTS s1, s2

MCOrder   == <<"inspection-snapshot.json", "Containerfile", "report.html">>
MCOptional == {"config"}
MCCerts   == {"entitlement"}
MCPaths   == {"inspection-snapshot.json", "Containerfile", "report.html", "config",
              "entitlement", "build-errors.log"}

Plain == [NoOptions EXCEPT !.target = "dir"]

MCOptions ==
    {[Plain EXCEPT !.inspectOnly = TRUE],
     [Plain EXCEPT !.target = "-o"],
     [Plain EXCEPT !.target = "stamp", !.noEntitlement = TRUE],
     [Plain EXCEPT !.validate = TRUE],
     [Plain EXCEPT !.noEntitlement = TRUE, !.push = s1],
     [Plain EXCEPT !.fromSnapshot = TRUE, !.validate = TRUE, !.push = s2]}
=============================================================================
