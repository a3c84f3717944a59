----------------------------- MODULE MCBlkparse -----------------------------
(* Bounds for TLC, and the tree that blkparse sorts a pipe's traces with. *)
EXTENDS Blkparse, RbTree

\* No -w, and one that ends while there are traces left.
AllStopwatches == {<<0, 7>>, <<1, 2>>}

\* rb_insert_color and rb_erase: whatever insertions and erasures the readers
\* make, their tree gives the traces in order and all of them.
TreeKeepsOrder == reader = "do_fifo" => TreeStaysSorted

=============================================================================
