-------------------------------- MODULE MCCgi --------------------------------
(* CGI requests for TLC *)
EXTENDS Cgi

Request(mode, body, out, length, location) ==
  [mode |-> mode, body |-> body, out |-> out, length |-> length, location |-> location]

\* A body longer than the pipe, one of unknown length, one that is awaited; a response that declares one unit and may
\* be shorter or longer, and another location
Few == {Request("stream", 2, 0, -1, FALSE), Request("chunked", 1, 0, -1, FALSE), Request("form", 1, 1, -1, FALSE),
        Request("stream", 0, 2, 1, FALSE), Request("stream", 0, 1, -1, TRUE)}
=============================================================================
