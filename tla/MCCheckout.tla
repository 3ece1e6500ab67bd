------------------------------ MODULE MCCheckout -------------------------------
(* A small instance of Checkout: a fixed menu with a customer who comes and goes, *)
(* and a changing menu with one who waits for answers.                            *)
EXTENDS Checkout

Behaviours == {{"fixedMenu"},{"stays"}}
==============================================================================
