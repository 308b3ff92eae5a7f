---------------------------- MODULE MCTunnelAgent ----------------------------
EXTENDS TunnelAgent
CONSTANTS a, b
MCIds == {a, b}
=============================================================================
