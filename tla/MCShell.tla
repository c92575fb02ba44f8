---- MODULE MCShell ----
(* Command trees for the model-checked instance of Shell. *)
EXTENDS Shell
exec == [type |-> "EXEC"]
pipeOf(l, r) == [type |-> "PIPE", left |-> l, right |-> r]
back(c) == [type |-> "BACK", cmd |-> c]
list(l, r) == [type |-> "LIST", left |-> l, right |-> r]
redir(fd, c) == [type |-> "REDIR", fd |-> fd, cmd |-> c]
two == pipeOf(exec, exec)
commands == {exec, redir(0, exec), two, pipeOf(exec, two), back(exec), back(two),
             list(back(exec), two), list(back(two), redir(0, exec))}
====
