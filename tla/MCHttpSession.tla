---------------------------- MODULE MCHttpSession ----------------------------
EXTENDS HttpSession

MCConnections == {"none", "close", "keep-alive"}
=============================================================================
