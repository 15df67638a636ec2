---------------------------- MODULE MCUploadRing ----------------------------
(* UploadRing for TLC.                                                     *)
EXTENDS UploadRing

(* Vulkan, CUDA as it is, and CUDA with a zeroize that leaves the buffer   *)
(* its length, as the backend expects.                                     *)
AllSetups ==
  {<< "vulkan", "emptied" >>, << "cuda", "emptied" >>, << "cuda", "zeroed" >>}

(* CUDA as it is.                                                          *)
CudaSetup == {<< "cuda", "emptied" >>}
=============================================================================
