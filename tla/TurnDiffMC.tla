------------------------------- MODULE TurnDiffMC ------------------------------
(* Paths for the TLC run of TurnDiff, in bytewise order. *)
EXTENDS TurnDiff

\* A path that a pattern excludes, a document, two that redaction makes one (the
\* second of them kept by exception, as requirements/*.txt are), and one below an
\* excluded directory.
MCPathList == << <<"lib", "io", "deep", "x.go">>, <<"notes.md">>,
                 <<"requirements", "api_key=1.go">>, <<"requirements", "api_key=1.txt">>,
                 <<"src", "vendor", "x.go">> >>
MCLabels == << "lib/io/deep/x.go", "notes.md", "requirements/api_key=",
               "requirements/api_key=", "src/vendor/x.go" >>
MCExclude == {[parts |-> <<"lib", "*">>, below |-> TRUE],
              [parts |-> <<"requirements">>, below |-> FALSE]}
MCDocuments == {"notes.md", "api_key=1.txt"}
================================================================================
