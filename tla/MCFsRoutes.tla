----------------------------- MODULE MCFsRoutes -----------------------------
(* Two requests on a vault with a folder and two notes, or an empty one.   *)
EXTENDS FsRoutes

MCIds == {"top", "v", "w", "1", "2", "3", "4", "5", "6", "7"}
MCFolder(at) == [Folder EXCEPT !.at = at]
MCStarts ==
  LET Laid(f) == [id \in Ids |-> IF id \in DOMAIN f THEN f[id] ELSE NoInode]
      data == "top" :> MCFolder([v |-> "v", w |-> "w"]) @@ "w" :> Folder
  IN {Laid(data @@ "v" :> MCFolder([a |-> "1", b |-> "2"]) @@ "1" :> MCFolder([b |-> "3"])
                @@ "2" :> Note(<<"old", "old">>) @@ "3" :> Note(<<"bin">>)),
      Laid(data @@ "v" :> MCFolder([a |-> "1"]) @@ "1" :> Folder)}

MCQuery(op, path) ==
  [op |-> op, vault |-> Vault, path |-> path, to |-> <<>>, recursive |-> FALSE, size |-> 1,
   mtime |-> 0, paths |-> <<>>, decodes |-> TRUE]
MCTo(op, path, to) == [MCQuery(op, path) EXCEPT !.to = to]
MCDeep(op, path) == [MCQuery(op, path) EXCEPT !.recursive = TRUE]
MCSized(op, path, n) == [MCQuery(op, path) EXCEPT !.size = n]
MCChanges ==
  {MCSized("write", <<"b">>, 2), MCQuery("write", <<"a", "b">>), MCQuery("append", <<"b">>),
   MCQuery("append", <<"a", "b">>), MCQuery("mkdir", <<"a">>), MCQuery("mkdir", <<"a", "b">>),
   MCDeep("mkdir", <<"b", "a">>), MCTo("rename", <<"b">>, <<"a", "b">>),
   MCTo("rename", <<"a">>, <<"b">>), MCTo("copy", <<"b">>, <<"a", "b">>),
   MCTo("copy", <<"b">>, <<"b">>), MCQuery("unlink", <<"b">>), MCQuery("unlink", <<"a">>),
   MCQuery("rmdir", <<"a">>), MCQuery("rm", <<"a">>), MCQuery("rm", <<"a", "b">>),
   MCDeep("rm", <<"a">>), MCDeep("rm", <<>>), MCDeep("rm", <<"a", "..", "..", "w">>)}
MCReads ==
  {MCQuery(op, <<"a">>) : op \in {"readdir", "access"}} \cup {MCQuery("zip", <<>>)}
    \cup {MCQuery("read", <<"b">>), MCQuery("download", <<"a", "b">>), MCQuery("stat", <<"b">>),
          MCQuery("vault_file", <<"b">>)}
    \cup {[MCQuery("batch_read", <<>>) EXCEPT !.paths = <<<<"..", "w">>, <<"a", "b">>, <<"b">>, <<"a">>>>]}
MCTimes == {[MCQuery("utimes", p) EXCEPT !.mtime = 512] : p \in {<<"a">>, <<"b">>}}
MCRefused ==
  {MCQuery("write", <<"b", "..", "..", "w", "a">>), MCTo("copy", <<"b">>, <<"..", "w", "b">>),
   MCQuery("stat", None), [MCQuery("read", <<"b">>) EXCEPT !.vault = None],
   [MCQuery("zip", <<>>) EXCEPT !.vault = "x"], [MCQuery("write", <<"b">>) EXCEPT !.decodes = FALSE]}
MCQueries == MCChanges \cup MCReads \cup MCTimes \cup MCRefused
MCSymmetry == Permutations(Requests)

=============================================================================
