----------------------------- MODULE MCLiveIndex -----------------------------
(* Small vaults for TLC: a directory with contents next to another name.   *)
EXTENDS LiveIndex

CONSTANTS a, b, x

MCNames == {a, b, x}
MCPaths == {<<a>>, <<a, x>>, <<b>>}
MCDeepPaths == {<<a>>, <<a, x>>, <<a, x, b>>, <<b>>}
MCMovePaths == {<<a>>, <<a, x>>, <<b>>, <<b, x>>}
MCNoHazards == {}
MCSlowWalk == {"slowWalk"}
MCFolderRename == {"folderRename"}

=============================================================================
