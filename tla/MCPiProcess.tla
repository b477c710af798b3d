---------------------------- MODULE MCPiProcess ----------------------------
EXTENDS PiProcess

\* A record of two pieces with a CR between them, ended by CR LF, an empty
\* line, and two more records, the last one with a CR and no LF.
MCStream ==
  << "agent_end_1", "cr", "agent_end_2", "cr", "lf", "lf",
     "response_1", "response_2", "lf", "event_1", "cr" >>
MCPlaces == << <<1, 3>>, <<7, 8>>, <<10, 10>> >>
MCResponses == { << "response_1", "response_2" >> }
=============================================================================
