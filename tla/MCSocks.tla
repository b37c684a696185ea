------------------------------- MODULE MCSocks -------------------------------
(* An address and two rule files for SocksServer.                          *)
EXTENDS SocksServer

NCTU == <<140, 113, 1, 2>>

MCHosts == {NCTU}

(* One file permits CONNECT only, with the first line of the repository's  *)
(* socks.conf; the other permits BIND only.                                *)
MCRuleFiles ==
    { << [mode |-> "c", ip |-> <<140, 113, Star, Star>>] >>,
      << [mode |-> "c", ip |-> <<140, 113, 2, Star>>],
         [mode |-> "b", ip |-> NCTU] >> }
=============================================================================
