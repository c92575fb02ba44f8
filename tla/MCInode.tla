---- MODULE MCInode ----
(* Workloads and symmetry of the model-checked instances of Inode. *)
EXTENDS Inode, TLC
names == {"a", "b"}
flat == {<<"a">>, <<"b">>}
links == [calls |-> {"create", "link", "unlink", "close"}, paths |-> flat]
dirs == [calls |-> {"mkdir", "unlink", "chdir"}, paths |-> flat \cup {<<>>}]
opens == [calls |-> {"open", "create", "mkdir", "mknod", "unlink", "close"}, paths |-> {<<"a">>}]
walks == [calls |-> {"create", "mkdir", "unlink", "link"}, paths |-> {<<"a">>, <<"a", "b">>}]
nodirs == [calls |-> {"mknod", "chdir"}, paths |-> {<<"a">>}]
mixes == {links, dirs, opens, walks, nodirs}
perms == Permutations(Procs)
====
