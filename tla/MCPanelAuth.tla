---------------------------- MODULE MCPanelAuth ----------------------------
EXTENDS PanelAuth, TLC
=============================================================================
