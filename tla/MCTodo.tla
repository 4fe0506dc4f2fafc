------------------------------- MODULE MCTodo -------------------------------
(* A small instance of Todo: one todo that exists, and the inbox library's *)
(* consumer in front of the kernel.                                        *)
EXTENDS Todo

CONSTANTS t1, a, b, d

Asked ==
    {CompleteTodoRequest(t1),
     UpdateTodoRequest(t1, b),
     UpdateTodoRequest(t1, Blank),
     UpdateDueDateRequest(t1, d),
     DeleteTodoRequest(t1)}

Sent == {CreateTodoRequest(t1, b, NoTodo)}

Posted == {<<1, ReopenTodoRequest(t1)>>}

Commands == Asked \cup Sent \cup {m[2] : m \in Posted}

AllTodos == [title : {a, b}, completed : BOOLEAN, due : {NoTodo, d}]

Carried == Commands \cup {Event(r, todo) : r \in Commands, todo \in AllTodos}

Readable(message) == message

StartDb ==
    [EmptyDb EXCEPT !.todos[t1] = [title |-> a, completed |-> FALSE, due |-> NoTodo]]
=============================================================================
