--------------------------- MODULE MCPcapAnalyzer ---------------------------
(* Small instances of PcapAnalyzer for TLC.                                *)
EXTENDS PcapAnalyzer

Line(flags, bare, seconds) == [flags |-> flags, bare |-> bare, seconds |-> seconds]

(* Learning and analysis of capture files.                                 *)
FileLines == {Line({"-l", "-f"}, "none", 0), Line({"-a", "-f"}, "none", 0)}

(* Live sessions of one second, of the default duration and of the 0 that  *)
(* atoi makes of "-d ten", next to command lines that are refused or that  *)
(* end the process.                                                        *)
LiveLines == {Line({"-l", "-o", "-d"}, "none", 1), Line({"-a", "-o"}, "none", 0),
              Line({"-a", "-o", "-d"}, "none", 0),
              Line({"-l"}, "none", 0), Line({"-a", "-c", "-o"}, "-c", 0)}

AllLines == FileLines \cup LiveLines
=============================================================================
