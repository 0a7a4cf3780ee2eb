---- MODULE MCPanelHeader ----
EXTENDS PanelHeader, TLC

CONSTANTS a, b, c, d

MCUrls == {a, b, c, d}
MCSurfaceOf == a :> "item" @@ b :> "none" @@ c :> "home" @@ d :> "file"
====
